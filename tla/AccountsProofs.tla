---------------------------- MODULE AccountsProofs ----------------------------
(***************************************************************************)
(* Theorems about Accounts for any requests, identifiers, names and        *)
(* passwords: its types, and what the check before each write is still     *)
(* worth when the write is made.  An invariant about the tables alone is   *)
(* not inductive: it takes what every request under way has read, and      *)
(* which of the writes of others have made that out of date.               *)
(***************************************************************************)
EXTENDS Accounts, TLAPS

Steps == {"idle", "create", "look up", "update", "delete", "set password",
          "change password", "write profile"}

\* The form and the identifier of a request fit its step: a row to create has
\* yet to be born, every other one was there, and only users have passwords.
Fits(c) ==
    /\ pc[c] # "idle" => id[c] \in Id
    /\ pc[c] = "create" => /\ id[c] \notin born
                           /\ form[c].name # Empty
                           /\ form[c].pass = Empty <=> id[c] \in Role
    /\ pc[c] \notin {"idle", "create"} => id[c] \in born
    /\ pc[c] \in {"create", "look up", "update"} => /\ form[c].roles \subseteq born \cap Role
                                                    /\ id[c] \in Role => form[c].roles = {}
    /\ pc[c] \in {"look up", "update"} => /\ form[c].name # Empty
                                          /\ id[c] \in Role => form[c].pass = Empty
                                          /\ mine[c] = Empty <=> id[c] \in Role
    /\ pc[c] \in {"set password", "change password"} => id[c] \in User /\ form[c].pass # Empty

\* An identifier is given to one request that creates.
CreatesOwn ==
    \A c, d \in Caller : c # d /\ pc[c] = "create" /\ pc[d] # "idle" => id[c] # id[d]

TypeInv == TypeOK /\ (\A c \in Caller : Fits(c)) /\ CreatesOwn

\* A name about to be written is free, but for rows that clash already, unless
\* the request is late.
NameFree ==
    \A c \in Caller : pc[c] \in {"create", "update"} /\ c \notin late =>
        \A j \in live : j # id[c] /\ SameTable(j, id[c]) /\ row[j].name = form[c].name
                           => j \in clashed \/ id[c] \in clashed

\* The password an update has read is that of the row, unless it is stale.
PasswordRead ==
    \A c \in Caller : pc[c] \in {"look up", "update"} /\ c \notin stale
                         => mine[c] = row[id[c]].pass

\* The row an update has read is there, unless it missed the deletion.
RowRead ==
    \A c \in Caller : pc[c] \in {"look up", "update"} /\ c \notin missed => id[c] \in live

\* The inductive invariant.
IInv == /\ TypeInv
        /\ OnlyLateShareNames /\ NameFree
        /\ PasswordKept /\ PasswordRead
        /\ LinksEnd /\ RowRead

-----------------------------------------------------------------------------
(* Types, a part at a time.                                                *)

TableTypes ==
    /\ row \in [Id -> Row] /\ \A i \in Id : row[i].pass = Empty <=> i \in Role
    /\ live \subseteq born /\ born \subseteq Id
    /\ userRoles \subseteq (born \cap User) \X (born \cap Role)
    /\ roleMenus \subseteq born \cap Role

RequestTypes ==
    /\ pc \in [Caller -> Steps]
    /\ id \in [Caller -> Id \cup {Empty}] /\ form \in [Caller -> Form]
    /\ mine \in [Caller -> Password \cup {Empty}]
    /\ ops \in 0..MaxOps

HistoryTypes ==
    /\ lastSet \in [Id -> Password \cup {Empty}]
    /\ late \subseteq Caller /\ stale \subseteq Caller /\ missed \subseteq Caller
    /\ clashed \subseteq Id /\ reverted \subseteq Id
    /\ orphaned \subseteq Id /\ unchecked \subseteq User \X Role

LEMMA TypesSplit ==
    /\ TypeOK <=> TableTypes /\ RequestTypes /\ HistoryTypes
    /\ TypeOK' <=> TableTypes' /\ RequestTypes' /\ HistoryTypes'
BY DEF TypeOK, TableTypes, RequestTypes, HistoryTypes, Steps

LEMMA NoFormType == NoForm \in Form
BY AccountsAssumption DEF NoForm, Form

\* A step of one request leaves the others as they are.
OthersStay(c) ==
    \A d \in Caller \ {c} : pc'[d] = pc[d] /\ id'[d] = id[d] /\ form'[d] = form[d] /\ mine'[d] = mine[d]

\* The request c has moved to step p, with this identifier, form and password.
MovesTo(c, p, i, f, m) ==
    /\ pc' = [pc EXCEPT ![c] = p] /\ id' = [id EXCEPT ![c] = i]
    /\ form' = [form EXCEPT ![c] = f] /\ mine' = [mine EXCEPT ![c] = m]

LEMMA MoveTypes ==
    ASSUME RequestTypes, NEW c \in Caller, NEW p \in Steps, NEW i \in Id \cup {Empty},
           NEW f \in Form, NEW m \in Password \cup {Empty}, MovesTo(c, p, i, f, m)
    PROVE  /\ ops' \in 0..MaxOps => RequestTypes'
           /\ pc'[c] = p /\ id'[c] = i /\ form'[c] = f /\ mine'[c] = m
           /\ OthersStay(c)
BY DEF RequestTypes, MovesTo, OthersStay

\* What the others hold still fits when nothing is born but what nobody else has.
LEMMA OthersFit ==
    ASSUME NEW c \in Caller, \A d \in Caller : Fits(d), OthersStay(c),
           born \subseteq born', \A d \in Caller \ {c} : pc[d] = "create" => id[d] \notin born'
    PROVE  \A d \in Caller \ {c} : Fits(d)'
BY DEF Fits, OthersStay

LEMMA EndTypes ==
    ASSUME TypeInv, NEW c \in Caller, End(c) \/ Fail(c), pc[c] # "idle",
           born' \in {born, born \cup {id[c]}}
    PROVE  /\ RequestTypes' /\ OthersStay(c) /\ pc'[c] = "idle"
           /\ (\A d \in Caller : Fits(d)') /\ CreatesOwn'
<1>1. MovesTo(c, "idle", Empty, NoForm, Empty) /\ ops' = ops
  BY DEF End, Fail, MovesTo
<1>2. RequestTypes' /\ OthersStay(c) /\ pc'[c] = "idle"
  BY <1>1, MoveTypes, NoFormType, TypesSplit DEF TypeInv, Steps, RequestTypes
<1>3. \A d \in Caller \ {c} : pc[d] = "create" => id[d] \notin born'
  BY DEF TypeInv, CreatesOwn, Fits
<1>4. (\A d \in Caller \ {c} : Fits(d)') /\ Fits(c)'
  BY <1>2, <1>3, OthersFit DEF TypeInv, Fits
<1>5. CreatesOwn'
  BY <1>2 DEF TypeInv, CreatesOwn, OthersStay
<1>. QED BY <1>2, <1>4, <1>5

-----------------------------------------------------------------------------
(* What a request begins with.                                             *)

\* The request c begins at step p, and this is what its reads established.
Begins(c, p, i, f, m) ==
    /\ Begin(c, p, i, f, m)
    /\ p = "create" => /\ i \notin born /\ ~Taken(i, f.name)
                       /\ f.name # Empty /\ (f.pass = Empty <=> i \in Role)
                       /\ \A d \in Caller : pc[d] # "idle" => id[d] # i
    /\ p # "create" => i \in live
    /\ p \in {"create", "look up", "update"} => /\ f.roles \subseteq born \cap Role
                                                /\ i \in Role => f.roles = {}
    /\ p \in {"look up", "update"} => /\ f.name # Empty /\ (i \in Role => f.pass = Empty)
                                      /\ m = row[i].pass
    /\ p = "update" => f.name = row[i].name
    /\ p \in {"set password", "change password"} => i \in User /\ f.pass # Empty

LEMMA StartsBegin ==
    ASSUME TypeInv, NEW c \in Caller, Starts(c)
    PROVE  \E p \in Steps \ {"idle"}, i \in Id, f \in Form, m \in Password \cup {Empty} :
               Begins(c, p, i, f, m)
<1>. USE DEF Begins, Steps
<1>1. /\ live \subseteq Id /\ \A i \in live : row[i].pass \in Password \cup {Empty}
      /\ Empty \notin Password /\ Default \in Password /\ User \cap Role = {} /\ Id = User \cup Role
  BY TypesSplit, AccountsAssumption DEF TypeInv, TableTypes, Row, Id
<1>2. CASE StartCreate(c)
  <2>0. PICK i \in Id \ born : \E f \in Filled(i) :
          /\ ~Taken(i, f.name)
          /\ \A d \in Caller : pc[d] # "idle" => id[d] # i
          /\ Begin(c, "create", i,
                   [f EXCEPT !.pass = IF i \in User /\ @ = Empty THEN Default ELSE @], Empty)
    BY <1>2 DEF StartCreate
  <2>1. PICK f \in Filled(i) :
          /\ ~Taken(i, f.name)
          /\ \A d \in Caller : pc[d] # "idle" => id[d] # i
          /\ Begin(c, "create", i,
                   [f EXCEPT !.pass = IF i \in User /\ @ = Empty THEN Default ELSE @], Empty)
    BY <2>0
  <2>. DEFINE g == [f EXCEPT !.pass = IF i \in User /\ @ = Empty THEN Default ELSE @]
  <2>2. /\ g \in Form /\ g.name = f.name /\ g.name # Empty /\ (g.pass = Empty <=> i \in Role)
        /\ g.roles = f.roles /\ f.roles \subseteq born \cap Role /\ (i \in Role => f.roles = {})
    BY <1>1, <2>1, AccountsAssumption DEF Filled, Form
  <2>3. Begins(c, "create", i, g, Empty)
    BY <2>1, <2>2
  <2>. QED BY <2>2, <2>3
<1>3. CASE StartUpdate(c)
  <2>1. PICK i \in live : \E f \in Filled(i) :
          Begin(c, IF row[i].name = f.name THEN "update" ELSE "look up", i, f, row[i].pass)
    BY <1>3 DEF StartUpdate
  <2>2. PICK f \in Filled(i) :
          Begin(c, IF row[i].name = f.name THEN "update" ELSE "look up", i, f, row[i].pass)
    BY <2>1
  <2>3. /\ f \in Form /\ f.name # Empty /\ (i \in Role => f.pass = Empty)
        /\ f.roles \subseteq born \cap Role /\ (i \in Role => f.roles = {})
    BY AccountsAssumption DEF Filled, Form
  <2>. DEFINE p == IF row[i].name = f.name THEN "update" ELSE "look up"
  <2>4. Begins(c, p, i, f, row[i].pass)
    BY <2>2, <2>3
  <2>. QED BY <1>1, <2>3, <2>4
<1>4. CASE StartDelete(c)
  <2>1. PICK i \in live : Begins(c, "delete", i, NoForm, Empty)
    BY <1>4 DEF StartDelete
  <2>. QED BY <1>1, <2>1, NoFormType
<1>5. CASE StartReset(c)
  <2>1. [NoForm EXCEPT !.pass = Default] \in Form /\ [NoForm EXCEPT !.pass = Default].pass # Empty
    BY <1>1, AccountsAssumption DEF NoForm, Form
  <2>. QED BY <1>1, <1>5, <2>1 DEF StartReset
<1>6. CASE StartChange(c)
  <2>1. PICK i \in live \cap User, new \in Password :
          Begin(c, "change password", i, [NoForm EXCEPT !.pass = new], row[i].pass)
    BY <1>6 DEF StartChange
  <2>2. [NoForm EXCEPT !.pass = new] \in Form /\ [NoForm EXCEPT !.pass = new].pass # Empty
    BY <1>1, AccountsAssumption DEF NoForm, Form
  <2>. QED BY <1>1, <2>1, <2>2
<1>7. CASE StartProfile(c)
  <2>1. PICK i \in live \cap User : Begins(c, "write profile", i, NoForm, row[i].pass)
    BY <1>7 DEF StartProfile
  <2>. QED BY <1>1, <2>1, NoFormType
<1>. QED BY <1>2, <1>3, <1>4, <1>5, <1>6, <1>7 DEF Starts

LEMMA BeginStep ==
    ASSUME IInv, NEW c \in Caller, NEW p \in Steps \ {"idle"}, NEW i \in Id, NEW f \in Form,
           NEW m \in Password \cup {Empty}, Begins(c, p, i, f, m)
    PROVE  IInv'
<1>. USE DEF tables
<1>1. /\ MovesTo(c, p, i, f, m) /\ pc[c] = "idle"
      /\ late' = late \ {c} /\ stale' = stale \ {c} /\ missed' = missed \ {c}
      /\ UNCHANGED <<row, live, born, userRoles, roleMenus, lastSet, clashed, reverted, orphaned,
                     unchecked>>
      /\ ops < MaxOps /\ ops' = ops + 1
  BY DEF Begins, Begin, MovesTo
<1>2. /\ RequestTypes' /\ OthersStay(c)
      /\ pc'[c] = p /\ id'[c] = i /\ form'[c] = f /\ mine'[c] = m
  <2>1. ops' \in 0..MaxOps /\ RequestTypes
    BY <1>1, TypesSplit, AccountsAssumption DEF IInv, TypeInv, RequestTypes
  <2>. QED BY <1>1, <2>1, MoveTypes
<1>3. /\ live \subseteq born /\ born \subseteq Id
      /\ \A j \in Id : row[j].pass = Empty <=> j \in Role
  BY TypesSplit DEF IInv, TypeInv, TableTypes
<1>4. TypeOK'
  BY <1>1, <1>2, TypesSplit DEF IInv, TypeInv, TableTypes, HistoryTypes
<1>5. Fits(c)'
  BY <1>1, <1>2, <1>3 DEF Begins, Fits
<1>6. \A d \in Caller \ {c} : Fits(d)'
  BY <1>1, <1>2, OthersFit DEF IInv, TypeInv, Fits
<1>7. CreatesOwn'
  <2>1. \A d \in Caller \ {c} : pc[d] = "create" => id[d] # i
    BY <1>3 DEF Begins, IInv, TypeInv, Fits
  <2>2. p = "create" => \A d \in Caller : pc[d] # "idle" => id[d] # i
    BY DEF Begins
  <2>3. ASSUME NEW a \in Caller, NEW b \in Caller, a # b, pc'[a] = "create", pc'[b] # "idle"
        PROVE  id'[a] # id'[b]
    <3>1. CASE a = c
      BY <1>2, <2>2, <2>3, <3>1 DEF OthersStay
    <3>2. CASE b = c
      BY <1>2, <2>1, <2>3, <3>2 DEF OthersStay
    <3>3. CASE a # c /\ b # c
      BY <2>3, <1>2, <3>3 DEF IInv, TypeInv, CreatesOwn, OthersStay
    <3>. QED BY <3>1, <3>2, <3>3
  <2>. QED BY <2>3 DEF CreatesOwn
<1>8. NameFree'
  <2>1. ASSUME NEW j \in live, p \in {"create", "update"},
               j # i, SameTable(j, i), row[j].name = f.name
        PROVE  j \in clashed \/ i \in clashed
    <3>1. p # "create"
      BY <2>1 DEF Begins, Taken, SameTable
    <3>2. i \in live /\ row[i].name = row[j].name
      BY <2>1, <3>1 DEF Begins
    <3>. QED BY <2>1, <3>2 DEF IInv, OnlyLateShareNames
  <2>. QED BY <1>1, <1>2, <2>1 DEF IInv, NameFree, OthersStay
<1>9. PasswordRead' /\ RowRead'
  BY <1>1, <1>2 DEF Begins, IInv, PasswordRead, RowRead, OthersStay
<1>10. OnlyLateShareNames' /\ PasswordKept' /\ LinksEnd'
  BY <1>1 DEF IInv, OnlyLateShareNames, PasswordKept, LinksEnd
<1>. QED BY <1>4, <1>5, <1>6, <1>7, <1>8, <1>9, <1>10 DEF IInv, TypeInv

-----------------------------------------------------------------------------
(* The writes.                                                             *)

\* What a request ends without: a table written, or anything but its own part
\* of the histories changed.
LEMMA QuietStep ==
    ASSUME IInv, NEW c \in Caller, Fail(c) \/ (End(c) /\ pc[c] # "idle" /\ UNCHANGED history),
           UNCHANGED tables
    PROVE  IInv'
<1>. USE DEF tables, history
<1>1. /\ RequestTypes' /\ OthersStay(c) /\ pc'[c] = "idle"
      /\ (\A d \in Caller : Fits(d)') /\ CreatesOwn'
  BY EndTypes DEF Fail, IInv
<1>2. /\ late' \in {late, late \ {c}} /\ stale' \in {stale, stale \ {c}}
      /\ missed' \in {missed, missed \ {c}}
      /\ UNCHANGED <<row, live, born, userRoles, roleMenus, lastSet, clashed, reverted, orphaned,
                     unchecked>>
  BY DEF Fail
<1>3. TypeOK'
  BY <1>1, <1>2, TypesSplit DEF IInv, TypeInv, TableTypes, HistoryTypes
<1>4. NameFree' /\ PasswordRead' /\ RowRead'
  BY <1>1, <1>2 DEF IInv, NameFree, PasswordRead, RowRead, OthersStay
<1>5. OnlyLateShareNames' /\ PasswordKept' /\ LinksEnd'
  BY <1>2 DEF IInv, OnlyLateShareNames, PasswordKept, LinksEnd
<1>. QED BY <1>1, <1>3, <1>4, <1>5 DEF IInv, TypeInv

LEMMA LookUpStep ==
    ASSUME IInv, NEW c \in Caller, LookUp(c)
    PROVE  IInv'
<1>. USE DEF tables
<1>1. /\ pc[c] = "look up" /\ ~Taken(id[c], form[c].name) /\ late' = late \ {c}
      /\ pc' = [pc EXCEPT ![c] = "update"] /\ pc \in [Caller -> Steps]
      /\ UNCHANGED <<row, live, born, userRoles, roleMenus, id, form, mine, lastSet, stale,
                     missed, clashed, reverted, orphaned, unchecked, ops>>
  BY TypesSplit DEF LookUp, IInv, TypeInv, RequestTypes
<1>2. pc'[c] = "update" /\ \A d \in Caller \ {c} : pc'[d] = pc[d]
  BY <1>1
<1>3. TypeOK'
  BY <1>1, TypesSplit DEF IInv, TypeInv, TableTypes, RequestTypes, HistoryTypes, Steps
<1>4. (\A d \in Caller : Fits(d)') /\ CreatesOwn'
  BY <1>1, <1>2 DEF IInv, TypeInv, Fits, CreatesOwn
<1>5. NameFree'
  <2>1. \A j \in live : SameTable(j, id[c]) => row[j].name # form[c].name
    BY <1>1 DEF Taken, SameTable
  <2>. QED BY <1>1, <1>2, <2>1 DEF IInv, NameFree, SameTable
<1>6. PasswordRead' /\ RowRead'
  BY <1>1, <1>2 DEF IInv, PasswordRead, RowRead
<1>7. OnlyLateShareNames' /\ PasswordKept' /\ LinksEnd'
  BY <1>1 DEF IInv, OnlyLateShareNames, PasswordKept, LinksEnd
<1>. QED BY <1>3, <1>4, <1>5, <1>6, <1>7 DEF IInv, TypeInv

\* A row that gets the name of a request clashes with no other, unless the request
\* was late; whoever is about to write that name to another row is late from now on.
LEMMA NameWritten ==
    ASSUME IInv, NEW c \in Caller, pc[c] \in {"create", "update"}, TakesName(c),
           NEW pass, row' = [row EXCEPT ![id[c]] =
                               [name |-> form[c].name, pass |-> pass, profile |-> "old"]],
           live' = live \cup {id[c]}, OthersStay(c), pc'[c] = "idle"
    PROVE  OnlyLateShareNames' /\ NameFree' /\ late' \subseteq Caller /\ clashed' \subseteq Id
<1>. DEFINE i == id[c]
<1>1. i \in Id /\ live \subseteq Id /\ row \in [Id -> Row] /\ late \subseteq Caller /\ clashed \subseteq Id
  BY TypesSplit DEF IInv, TypeInv, TableTypes, HistoryTypes, Fits
<1>2. /\ row'[i].name = form[c].name
      /\ \A j \in Id \ {i} : row'[j] = row[j]
  BY <1>1
<1>3. clashed \subseteq clashed' /\ (c \in late => i \in clashed')
  BY DEF TakesName
<1>4. OnlyLateShareNames'
  <2>1. ASSUME NEW j \in live \ {i}, SameTable(i, j), row[j].name = form[c].name
        PROVE  i \in clashed' \/ j \in clashed'
    BY <1>3, <2>1 DEF IInv, NameFree, SameTable
  <2>2. ASSUME NEW j \in live \ {i}, NEW k \in live \ {i},
               j # k, SameTable(j, k), row[j].name = row[k].name
        PROVE  j \in clashed' \/ k \in clashed'
    BY <1>3, <2>2 DEF IInv, OnlyLateShareNames
  <2>. QED BY <1>1, <1>2, <2>1, <2>2 DEF OnlyLateShareNames, SameTable
<1>5. NameFree'
  <2>. SUFFICES ASSUME NEW d \in Caller, pc'[d] \in {"create", "update"}, d \notin late',
                       NEW j \in live', j # id'[d], SameTable(j, id'[d]),
                       row'[j].name = form'[d].name
                PROVE  j \in clashed' \/ id'[d] \in clashed'
    BY DEF NameFree
  <2>1. /\ d # c /\ pc[d] \in {"create", "update"} /\ id'[d] = id[d] /\ form'[d] = form[d]
    BY DEF OthersStay
  <2>2. d \notin late /\ ~(/\ SameTable(i, id[d]) /\ i # id[d] /\ form[d].name = form[c].name)
    BY <2>1 DEF TakesName, Others
  <2>3. j # i
    BY <1>2, <2>1, <2>2
  <2>4. j \in live /\ row'[j] = row[j]
    BY <1>1, <1>2, <2>3
  <2>. QED BY <1>3, <2>1, <2>2, <2>4 DEF IInv, NameFree
<1>6. late' \subseteq Caller /\ clashed' \subseteq Id
  BY <1>1 DEF TakesName, Others
<1>. QED BY <1>4, <1>5, <1>6

\* A password that is set is the last one, and whoever read the row before is stale.
LEMMA PasswordWritten ==
    ASSUME IInv, NEW c \in Caller, pc[c] # "idle", NEW pass \in Password \cup {Empty},
           SetsPassword(c, pass), row'[id[c]].pass = pass,
           \A i \in Id \ {id[c]} : row'[i] = row[i],
           live' \subseteq live \cup {id[c]}, OthersStay(c), pc'[c] = "idle"
    PROVE  /\ PasswordKept' /\ PasswordRead'
           /\ lastSet' \in [Id -> Password \cup {Empty}]
           /\ stale' \subseteq Caller /\ reverted' \subseteq Id
<1>1. /\ id[c] \in Id /\ live \subseteq Id /\ lastSet \in [Id -> Password \cup {Empty}]
      /\ stale \subseteq Caller /\ reverted \subseteq Id
  BY TypesSplit DEF IInv, TypeInv, TableTypes, HistoryTypes, Fits
<1>2. PasswordKept'
  BY <1>1 DEF IInv, PasswordKept, SetsPassword
<1>3. PasswordRead'
  <2>. SUFFICES ASSUME NEW d \in Caller, pc'[d] \in {"look up", "update"}, d \notin stale'
                PROVE  mine'[d] = row'[id'[d]].pass
    BY DEF PasswordRead
  <2>1. /\ d # c /\ pc[d] \in {"look up", "update"} /\ id'[d] = id[d] /\ mine'[d] = mine[d]
    BY DEF OthersStay
  <2>2. d \notin stale /\ id[d] # id[c] /\ id[d] \in Id
    BY <2>1 DEF SetsPassword, Others, IInv, TypeInv, Fits
  <2>. QED BY <2>1, <2>2 DEF IInv, PasswordRead
<1>. QED BY <1>1, <1>2, <1>3 DEF SetsPassword, Others

\* The links that are written are those of a row that is there, or of one that was
\* missed, and to roles that are there or were written unchecked.
LEMMA LinksWritten ==
    ASSUME IInv, NEW c \in Caller, pc[c] \in {"create", "update"}, WriteLinks(c),
           live' \in {live, live \cup {id[c]}}, born' \in {born, born \cup {id[c]}},
           id[c] \in born', id[c] \in live' \cup orphaned', orphaned \subseteq orphaned'
    PROVE  /\ LinksEnd'
           /\ userRoles' \subseteq (born' \cap User) \X (born' \cap Role)
           /\ roleMenus' \subseteq born' \cap Role
           /\ unchecked' \subseteq User \X Role
<1>. DEFINE i == id[c]
            roles == form[c].roles
<1>1. /\ userRoles' = {l \in userRoles : l[1] # i} \cup ({i} \X roles)
      /\ roleMenus' = roleMenus \cup ({i} \cap Role)
      /\ unchecked' = unchecked \cup ({i} \X (roles \ live))
  BY DEF WriteLinks
<1>2. /\ i \in Id /\ roles \subseteq born \cap Role /\ (i \in Role => roles = {})
      /\ userRoles \subseteq (born \cap User) \X (born \cap Role)
      /\ roleMenus \subseteq born \cap Role /\ unchecked \subseteq User \X Role
  BY TypesSplit DEF IInv, TypeInv, TableTypes, HistoryTypes, Fits
<1>3. {i} \X roles \subseteq (born' \cap User) \X (born' \cap Role)
  BY <1>2 DEF Id
<1>4. ASSUME NEW l \in userRoles' PROVE l[1] \in live' \cup orphaned' /\ (l[2] \in live' \/ l \in unchecked')
  <2>1. CASE l \in userRoles
    BY <1>1, <2>1 DEF IInv, LinksEnd
  <2>2. CASE l \in {i} \X roles
    BY <1>1, <2>2
  <2>. QED BY <1>1, <2>1, <2>2
<1>5. roleMenus' \subseteq live' \cup orphaned'
  BY <1>1 DEF IInv, LinksEnd
<1>. QED BY <1>1, <1>2, <1>3, <1>4, <1>5 DEF LinksEnd

LEMMA InsertStep ==
    ASSUME IInv, NEW c \in Caller, Insert(c)
    PROVE  IInv'
<1>. DEFINE i == id[c]
<1>1. /\ pc[c] = "create" /\ i \in Id /\ i \notin born
      /\ form[c] \in Form /\ form[c].name # Empty /\ (form[c].pass = Empty <=> i \in Role)
  BY TypesSplit DEF Insert, IInv, TypeInv, RequestTypes, Fits
<1>2. /\ RequestTypes' /\ OthersStay(c) /\ pc'[c] = "idle"
      /\ (\A d \in Caller : Fits(d)') /\ CreatesOwn'
  BY <1>1, EndTypes DEF Insert, IInv
<1>3. /\ row' = [row EXCEPT ![i] = [name |-> form[c].name, pass |-> form[c].pass, profile |-> "old"]]
      /\ live' = live \cup {i} /\ born' = born \cup {i} /\ WriteLinks(c)
      /\ TakesName(c) /\ SetsPassword(c, form[c].pass)
      /\ missed' = missed \ {c} /\ orphaned' = orphaned
  BY DEF Insert
<1>4. [name |-> form[c].name, pass |-> form[c].pass, profile |-> "old"] \in Row
      /\ form[c].pass \in Password \cup {Empty}
  BY <1>1 DEF Form, Row
<1>0. /\ LinksEnd' /\ userRoles' \subseteq (born' \cap User) \X (born' \cap Role)
      /\ roleMenus' \subseteq born' \cap Role /\ unchecked' \subseteq User \X Role
  BY <1>1, <1>3, LinksWritten
<1>5. TableTypes'
  BY <1>0, <1>1, <1>3, <1>4, TypesSplit DEF IInv, TypeInv, TableTypes
<1>6. OnlyLateShareNames' /\ NameFree' /\ late' \subseteq Caller /\ clashed' \subseteq Id
  BY <1>1, <1>2, <1>3, NameWritten
<1>7. /\ PasswordKept' /\ PasswordRead'
      /\ lastSet' \in [Id -> Password \cup {Empty}] /\ stale' \subseteq Caller /\ reverted' \subseteq Id
  <2>1. row'[i].pass = form[c].pass /\ \A j \in Id \ {i} : row'[j] = row[j]
    BY <1>1, <1>3, TypesSplit DEF IInv, TypeInv, TableTypes
  <2>. QED BY <1>1, <1>2, <1>3, <1>4, <2>1, PasswordWritten
<1>8. RowRead'
  BY <1>2, <1>3 DEF IInv, RowRead, OthersStay
<1>9. TypeOK'
  BY <1>0, <1>2, <1>3, <1>5, <1>6, <1>7, TypesSplit DEF IInv, TypeInv, HistoryTypes
<1>. QED BY <1>0, <1>2, <1>6, <1>7, <1>8, <1>9 DEF IInv, TypeInv

\* The row an update writes, and whether it gives back an older password.
LEMMA SaveStep ==
    ASSUME IInv, NEW c \in Caller, Save(c)
    PROVE  IInv'
<1>. DEFINE i == id[c]
            keeps == form[c].pass = Empty
            pass == IF keeps THEN mine[c] ELSE form[c].pass
<1>1. /\ pc[c] = "update" /\ i \in Id /\ i \in born
      /\ form[c] \in Form /\ form[c].name # Empty /\ (i \in Role => form[c].pass = Empty)
      /\ mine[c] \in Password \cup {Empty} /\ (mine[c] = Empty <=> i \in Role)
  BY TypesSplit DEF Save, IInv, TypeInv, RequestTypes, Fits
<1>2. /\ live' = live /\ born' = born /\ WriteLinks(c)
      /\ orphaned' = IF c \in missed THEN orphaned \cup {i} ELSE orphaned
      /\ missed' = missed \ {c}
  BY DEF Save
<1>3. /\ RequestTypes' /\ OthersStay(c) /\ pc'[c] = "idle"
      /\ (\A d \in Caller : Fits(d)') /\ CreatesOwn'
  BY <1>1, <1>2, EndTypes DEF Save, IInv
<1>4. /\ RowRead' /\ LinksEnd' /\ userRoles' \subseteq (born' \cap User) \X (born' \cap Role)
      /\ roleMenus' \subseteq born' \cap Role /\ unchecked' \subseteq User \X Role
  <2>1. RowRead'
    BY <1>2, <1>3 DEF IInv, RowRead, OthersStay
  <2>2. i \in live' \cup orphaned' /\ orphaned \subseteq orphaned'
    BY <1>1, <1>2 DEF IInv, RowRead
  <2>. QED BY <1>1, <1>2, <2>1, <2>2, LinksWritten
<1>5. /\ row \in [Id -> Row] /\ live \subseteq Id
      /\ late \subseteq Caller /\ stale \subseteq Caller /\ missed \subseteq Caller
      /\ clashed \subseteq Id /\ reverted \subseteq Id /\ orphaned \subseteq Id
      /\ lastSet \in [Id -> Password \cup {Empty}]
  BY TypesSplit DEF IInv, TypeInv, TableTypes, HistoryTypes
<1>6. missed' \subseteq Caller /\ orphaned' \subseteq Id
  BY <1>1, <1>2, <1>5
<1>7. CASE i \notin live
  <2>1. UNCHANGED <<row, lastSet, late, clashed, stale, reverted>>
    BY <1>7 DEF Save
  <2>2. OnlyLateShareNames' /\ PasswordKept' /\ NameFree' /\ PasswordRead'
    BY <1>2, <1>3, <2>1 DEF IInv, OnlyLateShareNames, PasswordKept, NameFree, PasswordRead, OthersStay
  <2>3. TypeOK'
    BY <1>2, <1>3, <1>4, <1>5, <1>6, <2>1, TypesSplit DEF IInv, TypeInv, TableTypes, HistoryTypes
  <2>. QED BY <1>3, <1>4, <2>2, <2>3 DEF IInv, TypeInv
<1>8. CASE i \in live
  <2>1. /\ row' = [row EXCEPT ![i] = [name |-> form[c].name, pass |-> pass, profile |-> "old"]]
        /\ TakesName(c)
        /\ IF ~keeps THEN SetsPassword(c, form[c].pass)
           ELSE IF c \notin stale THEN UNCHANGED <<lastSet, stale, reverted>>
           ELSE /\ reverted' = reverted \cup {i}
                /\ stale' = stale \cup {d \in Others(c, {"look up", "update",
                                           "change password"}) : id[d] = i}
                /\ UNCHANGED lastSet
    BY <1>8 DEF Save
  <2>2. OnlyLateShareNames' /\ NameFree' /\ late' \subseteq Caller /\ clashed' \subseteq Id
    BY <1>1, <1>2, <1>3, <1>8, <2>1, NameWritten
  <2>3. /\ row'[i].pass = pass /\ \A j \in Id \ {i} : row'[j] = row[j]
        /\ pass \in Password \cup {Empty} /\ (pass = Empty <=> i \in Role)
    BY <1>1, <1>5, <2>1 DEF Form
  <2>4. TableTypes'
    <3>1. [name |-> form[c].name, pass |-> pass, profile |-> "old"] \in Row
      BY <1>1, <2>3 DEF Form, Row
    <3>. QED BY <1>1, <1>2, <1>4, <2>1, <2>3, <3>1, TypesSplit DEF IInv, TypeInv, TableTypes
  <2>5. /\ PasswordKept' /\ PasswordRead'
        /\ lastSet' \in [Id -> Password \cup {Empty}] /\ stale' \subseteq Caller /\ reverted' \subseteq Id
    <3>1. CASE ~keeps
      BY <1>1, <1>2, <1>3, <2>1, <2>3, <3>1, PasswordWritten
    <3>2. CASE keeps /\ c \notin stale
      <4>1. row'[i].pass = row[i].pass /\ UNCHANGED <<lastSet, stale, reverted>>
        BY <1>1, <2>1, <2>3, <3>2 DEF IInv, PasswordRead
      <4>2. \A j \in Id : row'[j].pass = row[j].pass
        BY <2>3, <4>1
      <4>3. PasswordKept'
        BY <1>2, <1>5, <4>1, <4>2 DEF IInv, PasswordKept
      <4>4. PasswordRead'
        <5>1. \A d \in Caller : pc'[d] \in {"look up", "update"} =>
                 /\ pc[d] = pc'[d] /\ id'[d] = id[d] /\ mine'[d] = mine[d] /\ id[d] \in Id
          BY <1>3 DEF IInv, TypeInv, Fits, OthersStay
        <5>. QED BY <4>1, <4>2, <5>1 DEF IInv, PasswordRead
      <4>. QED BY <1>5, <4>1, <4>3, <4>4
    <3>3. CASE keeps /\ c \in stale
      <4>1. /\ reverted' = reverted \cup {i} /\ lastSet' = lastSet
            /\ stale' = stale \cup {d \in Others(c, {"look up", "update",
                                       "change password"}) : id[d] = i}
        BY <2>1, <3>3
      <4>2. PasswordKept'
        BY <1>2, <1>5, <2>3, <4>1 DEF IInv, PasswordKept
      <4>3. ASSUME NEW d \in Caller, pc'[d] \in {"look up", "update"}, d \notin stale'
            PROVE  mine'[d] = row'[id'[d]].pass
        <5>1. d # c /\ pc[d] \in {"look up", "update"} /\ id'[d] = id[d] /\ mine'[d] = mine[d]
          BY <1>3, <4>3 DEF OthersStay
        <5>2. d \notin stale /\ id[d] # i /\ id[d] \in Id
          BY <4>1, <4>3, <5>1 DEF Others, IInv, TypeInv, Fits
        <5>. QED BY <2>3, <5>1, <5>2 DEF IInv, PasswordRead
      <4>4. stale' \subseteq Caller /\ reverted' \subseteq Id
        BY <1>1, <1>5, <4>1 DEF Others
      <4>. QED BY <1>5, <4>1, <4>2, <4>3, <4>4 DEF PasswordRead
    <3>. QED BY <3>1, <3>2, <3>3
  <2>6. TypeOK'
    BY <1>3, <1>4, <1>6, <2>2, <2>4, <2>5, TypesSplit DEF HistoryTypes
  <2>. QED BY <1>3, <1>4, <2>2, <2>5, <2>6 DEF IInv, TypeInv
<1>. QED BY <1>7, <1>8

LEMMA RemoveStep ==
    ASSUME IInv, NEW c \in Caller, Remove(c)
    PROVE  IInv'
<1>1. /\ pc[c] = "delete" /\ live' = live \ {id[c]}
      /\ userRoles' = {l \in userRoles : id[c] \notin {l[1], l[2]}}
      /\ roleMenus' = roleMenus \ {id[c]}
      /\ missed' = (missed \ {c}) \cup {d \in Others(c, {"look up", "update"}) : id[d] = id[c]}
      /\ UNCHANGED <<row, born, lastSet, late, stale, clashed, reverted, orphaned, unchecked>>
  BY DEF Remove
<1>2. /\ RequestTypes' /\ OthersStay(c) /\ pc'[c] = "idle"
      /\ (\A d \in Caller : Fits(d)') /\ CreatesOwn'
  BY <1>1, EndTypes DEF Remove, IInv
<1>3. missed' \subseteq Caller
  BY <1>1, TypesSplit DEF IInv, TypeInv, HistoryTypes, Others
<1>4. TypeOK'
  BY <1>1, <1>2, <1>3, TypesSplit DEF IInv, TypeInv, TableTypes, HistoryTypes
<1>5. NameFree' /\ PasswordRead'
  BY <1>1, <1>2 DEF IInv, NameFree, PasswordRead, OthersStay
<1>6. RowRead'
  BY <1>1, <1>2 DEF IInv, RowRead, OthersStay, Others
<1>7. OnlyLateShareNames' /\ PasswordKept' /\ LinksEnd'
  BY <1>1 DEF IInv, OnlyLateShareNames, PasswordKept, LinksEnd
<1>. QED BY <1>2, <1>4, <1>5, <1>6, <1>7 DEF IInv, TypeInv

LEMMA WritePasswordStep ==
    ASSUME IInv, NEW c \in Caller, WritePassword(c)
    PROVE  IInv'
<1>. DEFINE i == id[c]
<1>1. /\ pc[c] \in {"set password", "change password"} /\ i \in Id /\ i \in User
      /\ form[c].pass \in Password \cup {Empty} /\ form[c].pass # Empty /\ i \notin Role
      /\ UNCHANGED <<live, born, userRoles, roleMenus, late, missed, clashed, orphaned,
                     unchecked>>
  BY TypesSplit, AccountsAssumption
     DEF WritePassword, IInv, TypeInv, RequestTypes, Fits, Form
<1>2. CASE i \notin live
  BY <1>1, <1>2, QuietStep DEF WritePassword, tables, history
<1>3. CASE i \in live
  <2>1. row' = [row EXCEPT ![i].pass = form[c].pass] /\ SetsPassword(c, form[c].pass)
    BY <1>3 DEF WritePassword
  <2>2. row \in [Id -> Row] /\ row[i] \in Row
    BY <1>1, TypesSplit DEF IInv, TypeInv, TableTypes
  <2>3. /\ row'[i].pass = form[c].pass /\ \A j \in Id \ {i} : row'[j] = row[j]
        /\ \A j \in Id : row'[j].name = row[j].name
        /\ row' \in [Id -> Row]
    BY <1>1, <2>1, <2>2 DEF Row
  <2>4. /\ RequestTypes' /\ OthersStay(c) /\ pc'[c] = "idle"
        /\ (\A d \in Caller : Fits(d)') /\ CreatesOwn'
    BY <1>1, EndTypes DEF WritePassword, IInv
  <2>5. /\ PasswordKept' /\ PasswordRead'
        /\ lastSet' \in [Id -> Password \cup {Empty}] /\ stale' \subseteq Caller /\ reverted' \subseteq Id
    BY <1>1, <2>1, <2>3, <2>4, PasswordWritten
  <2>6. TypeOK'
    BY <1>1, <2>3, <2>4, <2>5, TypesSplit DEF IInv, TypeInv, TableTypes, HistoryTypes
  <2>7. OnlyLateShareNames' /\ NameFree'
    <3>1. live \subseteq Id
      BY TypesSplit DEF IInv, TypeInv, TableTypes
    <3>. QED BY <1>1, <2>3, <2>4, <3>1 DEF IInv, OnlyLateShareNames, NameFree, OthersStay
  <2>8. RowRead' /\ LinksEnd'
    BY <1>1, <2>4 DEF IInv, RowRead, LinksEnd, OthersStay
  <2>. QED BY <2>4, <2>5, <2>6, <2>7, <2>8 DEF IInv, TypeInv
<1>. QED BY <1>2, <1>3

LEMMA WriteProfileStep ==
    ASSUME IInv, NEW c \in Caller, WriteProfile(c)
    PROVE  IInv'
<1>1. /\ pc[c] = "write profile"
      /\ UNCHANGED <<live, born, userRoles, roleMenus, lastSet, late, stale, missed, clashed,
                     reverted, orphaned, unchecked>>
      /\ row' = IF id[c] \in live THEN [row EXCEPT ![id[c]].profile = "new"] ELSE row
  BY DEF WriteProfile, history
<1>2. row \in [Id -> Row] /\ live \subseteq Id
  BY TypesSplit DEF IInv, TypeInv, TableTypes
<1>3. /\ row' \in [Id -> Row]
      /\ \A j \in Id : row'[j].name = row[j].name /\ row'[j].pass = row[j].pass
  BY <1>1, <1>2 DEF Row
<1>4. /\ RequestTypes' /\ OthersStay(c) /\ pc'[c] = "idle"
      /\ (\A d \in Caller : Fits(d)') /\ CreatesOwn'
  BY <1>1, EndTypes DEF WriteProfile, IInv
<1>5. TypeOK'
  BY <1>1, <1>3, <1>4, TypesSplit DEF IInv, TypeInv, TableTypes, HistoryTypes
<1>6. OnlyLateShareNames' /\ PasswordKept' /\ LinksEnd'
  <2>1. \A j \in live' : j \in Id
    BY <1>1, <1>2
  <2>2. OnlyLateShareNames'
    <3>1. ASSUME NEW i \in live, NEW j \in live, i # j, SameTable(i, j), row'[i].name = row'[j].name
          PROVE  i \in clashed \/ j \in clashed
      <4>1. row[i].name = row[j].name
        BY <1>1, <1>3, <2>1, <3>1
      <4>. QED BY <3>1, <4>1 DEF IInv, OnlyLateShareNames
    <3>. QED BY <1>1, <3>1 DEF OnlyLateShareNames, SameTable
  <2>3. PasswordKept'
    BY <1>1, <1>3, <2>1 DEF IInv, PasswordKept
  <2>. QED BY <1>1, <2>2, <2>3 DEF IInv, LinksEnd
<1>7. \A d \in Caller : pc'[d] # "idle" =>
         /\ pc[d] = pc'[d] /\ id'[d] = id[d] /\ form'[d] = form[d] /\ mine'[d] = mine[d]
         /\ id[d] \in Id
  BY <1>4 DEF IInv, TypeInv, Fits, OthersStay
<1>8. PasswordRead' /\ RowRead'
  <2>1. ASSUME NEW d \in Caller, pc'[d] \in {"look up", "update"}, d \notin stale
        PROVE  mine'[d] = row'[id'[d]].pass
    <3>1. mine[d] = row[id[d]].pass /\ id[d] \in Id
      BY <1>7, <2>1 DEF IInv, PasswordRead
    <3>. QED BY <1>3, <1>7, <2>1, <3>1
  <2>. QED BY <1>1, <1>7, <2>1 DEF IInv, PasswordRead, RowRead
<1>9. NameFree'
  BY <1>1, <1>2, <1>3, <1>7 DEF IInv, NameFree
<1>. QED BY <1>4, <1>5, <1>6, <1>8, <1>9 DEF IInv, TypeInv

-----------------------------------------------------------------------------
(* The theorems.                                                           *)

LEMMA InitInv == Init => IInv
<1>. SUFFICES ASSUME Init PROVE IInv
  OBVIOUS
<1>1. TypeInv
  BY AccountsAssumption, NoFormType
     DEF Init, TypeInv, TypeOK, Fits, CreatesOwn, Row
<1>2. OnlyLateShareNames /\ NameFree /\ PasswordKept /\ PasswordRead /\ LinksEnd /\ RowRead
  BY AccountsAssumption
     DEF Init, OnlyLateShareNames, NameFree, PasswordKept, PasswordRead, LinksEnd, RowRead, SameTable
<1>. QED BY <1>1, <1>2 DEF IInv

LEMMA Inductive == Spec => []IInv
<1>1. ASSUME IInv, NEW c \in Caller, Starts(c) \/ LookUp(c) \/ Writes(c) \/ Fail(c) PROVE IInv'
  <2>1. CASE Starts(c)
    BY <1>1, <2>1, StartsBegin, BeginStep DEF IInv
  <2>2. CASE Fail(c)
    BY <1>1, <2>2, QuietStep DEF Fail
  <2>. QED BY <1>1, <2>1, <2>2, LookUpStep, InsertStep, SaveStep, RemoveStep, WritePasswordStep,
              WriteProfileStep DEF Writes
<1>2. IInv /\ UNCHANGED vars => IInv'
  <2>. SUFFICES ASSUME IInv, UNCHANGED vars PROVE IInv'
    OBVIOUS
  <2>. USE DEF vars, tables, request, history
  <2>1. TypeOK'
    BY DEF IInv, TypeInv, TypeOK
  <2>2. \A c \in Caller : Fits(c)'
    BY DEF IInv, TypeInv, Fits
  <2>3. CreatesOwn'
    BY DEF IInv, TypeInv, CreatesOwn
  <2>4. OnlyLateShareNames' /\ NameFree'
    BY DEF IInv, OnlyLateShareNames, NameFree
  <2>5. PasswordKept' /\ PasswordRead' /\ LinksEnd' /\ RowRead'
    BY DEF IInv, PasswordKept, PasswordRead, LinksEnd, RowRead
  <2>. QED BY <2>1, <2>2, <2>3, <2>4, <2>5 DEF IInv, TypeInv
<1>3. IInv /\ [Next]_vars => IInv'
  BY <1>1, <1>2 DEF Next
<1>. QED BY InitInv, <1>3, PTL DEF Spec

\* The variables keep their types in every behaviour of the specification.
THEOREM AccountsTypeCorrect == Spec => []TypeOK
<1>1. IInv => TypeOK
  BY DEF IInv, TypeInv
<1>. QED BY <1>1, Inductive, PTL

\* Names are not unique, against role.go:20: but two rows of a table share one only
\* by a request whose look at the names another write had made out of date.
THEOREM OnlyLateRequestsShareNames == Spec => []OnlyLateShareNames
<1>1. IInv => OnlyLateShareNames
  BY DEF IInv
<1>. QED BY <1>1, Inductive, PTL

\* A password is lost only to an update that had read the row before it was set.
THEOREM PasswordsAreKept == Spec => []PasswordKept
<1>1. IInv => PasswordKept
  BY DEF IInv
<1>. QED BY <1>1, Inductive, PTL

\* Every link ends with its user and its role, however requests overlap: those that
\* are there without them were written later.
THEOREM LinksEndWithRows == Spec => []LinksEnd
<1>1. IInv => LinksEnd
  BY DEF IInv
<1>. QED BY <1>1, Inductive, PTL

==============================================================================
