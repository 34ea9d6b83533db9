------------------------------ MODULE Accounts ------------------------------
(***************************************************************************)
(* Rows of users and roles under concurrent requests (biz/user.biz.go,     *)
(* biz/role.biz.go, biz/login.biz.go, dal/user*.go, dal/role*.go).         *)
(*                                                                         *)
(* Every operation reads and checks outside of its transaction: whether    *)
(* the username or the code is taken, whether the row exists, what it      *)
(* contains, whether the old password is right.  Its writes, in one        *)
(* transaction or one statement, are a step later; the indexes of names    *)
(* are not unique, and nobody looks whether the roles that a user's form   *)
(* names are there.  What the changes mean for the policy and for the      *)
(* cached users is in PolicySync and UserSession.                          *)
(***************************************************************************)
EXTENDS Naturals

CONSTANTS Caller,     \* requests that may overlap
          User, Role, \* identifiers, used once each
          Name,       \* usernames and codes
          RoleSets,   \* the sets of roles that the form of a user may name
          Password,
          Default,    \* General.DefaultLoginPwd
          Empty,      \* a form without a password; the password of a role; nothing
          FirstRow,   \* the row each identifier has, or would have, at the start
          FirstLive,  \* the identifiers that have one
          MaxOps      \* bound: operations that get past their first query

VARIABLES
    row,      \* [name, pass, profile] of each identifier
    live,     \* identifiers that have a row
    born,     \* identifiers that were given out
    userRoles, \* the table user_role: pairs of a user and a role
    roleMenus, \* the roles with rows in role_menu
    pc,       \* the step each request takes next
    id, form, \* its row and its form
    mine,     \* the password in the row as it read it
    lastSet,  \* history: the password of each identifier that was set last
    late,     \* history: requests whose name another one took since they looked
    stale,    \* history: requests whose row got another password since they read it
    missed,   \* history: requests whose row was deleted since they read it
    clashed,  \* history: identifiers that got their name by a late request
    reverted, \* history: identifiers whose password a stale request wrote back
    orphaned, \* history: identifiers that got links of their own after their row was deleted
    unchecked, \* history: pairs of user_role written after the role was deleted
    ops       \* counter of the bound

tables == <<row, live, born, userRoles, roleMenus>>
request == <<pc, id, form, mine>>
history == <<lastSet, late, stale, missed, clashed, reverted, orphaned, unchecked>>
vars == <<tables, request, history, ops>>

Id == User \cup Role
SameTable(i, j) == i \in User <=> j \in User
Row == [name : Name, pass : Password \cup {Empty}, profile : {"old", "new"}]
Form == [name : Name \cup {Empty}, pass : Password \cup {Empty}, roles : RoleSets]
NoForm == [name |-> Empty, pass |-> Empty, roles |-> {}]

ASSUME AccountsAssumption ==
    /\ Default \in Password /\ Empty \notin Password
    /\ User \cap Role = {} /\ Empty \notin Id
    /\ {} \in RoleSets /\ RoleSets \subseteq SUBSET Role
    /\ FirstRow \in [Id -> Row] /\ FirstLive \subseteq Id
    /\ \A i \in Id : FirstRow[i].pass = Empty <=> i \in Role
    /\ \A i, j \in FirstLive : i # j /\ SameTable(i, j) => FirstRow[i].name # FirstRow[j].name
    /\ MaxOps \in Nat

Init ==
    /\ row = FirstRow /\ live = FirstLive /\ born = FirstLive
    /\ userRoles = {} /\ roleMenus = {}
    /\ pc = [c \in Caller |-> "idle"]
    /\ id = [c \in Caller |-> Empty] /\ form = [c \in Caller |-> NoForm]
    /\ mine = [c \in Caller |-> Empty]
    /\ lastSet = [i \in Id |-> FirstRow[i].pass]
    /\ late = {} /\ stale = {} /\ missed = {}
    /\ clashed = {} /\ reverted = {} /\ orphaned = {} /\ unchecked = {}
    /\ ops = 0

-----------------------------------------------------------------------------
(* The first query of an operation, and what follows from it.              *)

Begin(c, step, i, f, read) ==
    /\ pc[c] = "idle"
    /\ ops < MaxOps /\ ops' = ops + 1
    /\ pc' = [pc EXCEPT ![c] = step]
    /\ id' = [id EXCEPT ![c] = i]
    /\ form' = [form EXCEPT ![c] = f]
    /\ mine' = [mine EXCEPT ![c] = read]
    /\ late' = late \ {c} /\ stale' = stale \ {c} /\ missed' = missed \ {c}
    /\ UNCHANGED <<tables, lastSet, clashed, reverted, orphaned, unchecked>>

\* The form of a role has no password and no roles; that of a user names roles that
\* are there or were.
Filled(i) ==
    {f \in Form : /\ f.name # Empty /\ f.roles \subseteq born
                  /\ i \in Role => f.pass = Empty /\ f.roles = {}}

\* ExistsUsername, ExistsCode.
Taken(i, name) == \E j \in live : SameTable(i, j) /\ row[j].name = name

\* Create: an identifier is fresh; a form without a password gets the default.
StartCreate(c) ==
    \E i \in Id \ born :
       \E f \in Filled(i) :
          /\ ~Taken(i, f.name)
          /\ \A d \in Caller : pc[d] # "idle" => id[d] # i
          /\ Begin(c, "create", i,
                   [f EXCEPT !.pass = IF i \in User /\ @ = Empty THEN Default ELSE @], Empty)

\* Update: the row is read, and the name looked up only if the row has another.
StartUpdate(c) ==
    \E i \in live :
       \E f \in Filled(i) :
          Begin(c, IF row[i].name = f.name THEN "update" ELSE "look up", i, f, row[i].pass)

LookUp(c) ==
    /\ pc[c] = "look up"
    /\ ~Taken(id[c], form[c].name)
    /\ pc' = [pc EXCEPT ![c] = "update"]
    /\ late' = late \ {c}
    /\ UNCHANGED <<tables, id, form, mine, lastSet, stale, missed, clashed, reverted,
                   orphaned, unchecked, ops>>

StartDelete(c) == \E i \in live : Begin(c, "delete", i, NoForm, Empty)

StartReset(c) ==
    \E i \in live \cap User :
       Begin(c, "set password", i, [NoForm EXCEPT !.pass = Default], Empty)

\* UpdatePassword: the old password is that of the row, or the request ends here.
StartChange(c) ==
    \E i \in live \cap User, new \in Password :
       Begin(c, "change password", i, [NoForm EXCEPT !.pass = new], row[i].pass)

StartProfile(c) == \E i \in live \cap User : Begin(c, "write profile", i, NoForm, row[i].pass)

\* A check or a query fails, or a transaction does.
Fail(c) ==
    /\ pc[c] # "idle"
    /\ pc' = [pc EXCEPT ![c] = "idle"]
    /\ id' = [id EXCEPT ![c] = Empty] /\ form' = [form EXCEPT ![c] = NoForm]
    /\ mine' = [mine EXCEPT ![c] = Empty]
    /\ late' = late \ {c} /\ stale' = stale \ {c} /\ missed' = missed \ {c}
    /\ UNCHANGED <<tables, lastSet, clashed, reverted, orphaned, unchecked, ops>>

-----------------------------------------------------------------------------
(* The writes.                                                             *)

End(c) ==
    /\ pc' = [pc EXCEPT ![c] = "idle"]
    /\ id' = [id EXCEPT ![c] = Empty] /\ form' = [form EXCEPT ![c] = NoForm]
    /\ mine' = [mine EXCEPT ![c] = Empty]
    /\ UNCHANGED ops

Others(c, steps) == {d \in Caller \ {c} : pc[d] \in steps}

\* History: who is about to write the same name to another row.
TakesName(c) ==
    /\ late' = (late \ {c}) \cup {d \in Others(c, {"create", "update"}) :
                    /\ SameTable(id[c], id[d]) /\ id[c] # id[d]
                    /\ form[d].name = form[c].name}
    /\ clashed' = IF c \in late THEN clashed \cup {id[c]} ELSE clashed

\* History: who has read the password before.
SetsPassword(c, pass) ==
    /\ lastSet' = [lastSet EXCEPT ![id[c]] = pass]
    /\ stale' = (stale \ {c}) \cup {d \in Others(c, {"look up", "update", "change password"}) :
                                       id[d] = id[c]}
    /\ reverted' = reverted \ {id[c]}

\* The links of a user to the roles of the form, or of a role to the menus of its
\* form (taken as one), replace those that were there.  No role is looked up.
WriteLinks(c) ==
    LET i == id[c] IN
    /\ userRoles' = {l \in userRoles : l[1] # i} \cup ({i} \X form[c].roles)
    /\ roleMenus' = roleMenus \cup ({i} \cap Role)
    /\ unchecked' = unchecked \cup ({i} \X (form[c].roles \ live))

Insert(c) ==
    /\ pc[c] = "create"
    /\ row' = [row EXCEPT ![id[c]] = [name |-> form[c].name, pass |-> form[c].pass,
                                     profile |-> "old"]]
    /\ live' = live \cup {id[c]} /\ born' = born \cup {id[c]}
    /\ WriteLinks(c)
    /\ TakesName(c)
    /\ SetsPassword(c, form[c].pass)
    /\ missed' = missed \ {c}
    /\ UNCHANGED orphaned
    /\ End(c)

\* Mutant: a form without a password blanks it.
SaveBlank(c) ==
    /\ pc[c] = "update"
    /\ LET i == id[c]  keeps == form[c].pass = Empty IN
       /\ IF i \notin live
          THEN UNCHANGED <<row, lastSet, late, clashed, stale, reverted>>
          ELSE /\ row' = [row EXCEPT ![i] = [name |-> form[c].name,
                              pass |-> form[c].pass,
                              profile |-> "old"]]
               /\ TakesName(c)
               /\ IF ~keeps THEN SetsPassword(c, form[c].pass)
                  ELSE IF c \notin stale THEN UNCHANGED <<lastSet, stale, reverted>>
                  ELSE /\ reverted' = reverted \cup {i}
                       /\ stale' = stale \cup {d \in Others(c, {"look up", "update",
                                                  "change password"}) : id[d] = i}
                       /\ UNCHANGED lastSet
       /\ WriteLinks(c)
       /\ orphaned' = IF c \in missed THEN orphaned \cup {i} ELSE orphaned
    /\ missed' = missed \ {c}
    /\ UNCHANGED <<live, born>>
    /\ End(c)

\* Update writes all columns of the row as it was read and filled from the form;
\* no row is no error.  The links are written in either case.
Save(c) ==
    /\ pc[c] = "update"
    /\ LET i == id[c]  keeps == form[c].pass = Empty IN
       /\ IF i \notin live
          THEN UNCHANGED <<row, lastSet, late, clashed, stale, reverted>>
          ELSE /\ row' = [row EXCEPT ![i] = [name |-> form[c].name,
                              pass |-> IF keeps THEN mine[c] ELSE form[c].pass,
                              profile |-> "old"]]
               /\ TakesName(c)
               /\ IF ~keeps THEN SetsPassword(c, form[c].pass)
                  ELSE IF c \notin stale THEN UNCHANGED <<lastSet, stale, reverted>>
                  ELSE /\ reverted' = reverted \cup {i}
                       /\ stale' = stale \cup {d \in Others(c, {"look up", "update",
                                                  "change password"}) : id[d] = i}
                       /\ UNCHANGED lastSet
       /\ WriteLinks(c)
       /\ orphaned' = IF c \in missed THEN orphaned \cup {i} ELSE orphaned
    /\ missed' = missed \ {c}
    /\ UNCHANGED <<live, born>>
    /\ End(c)

\* Mutant: Role.Delete leaves the links of users.
RemoveOwnLinks(c) ==
    /\ pc[c] = "delete"
    /\ live' = live \ {id[c]}
    /\ userRoles' = {l \in userRoles : l[1] # id[c]} /\ roleMenus' = roleMenus \ {id[c]}
    /\ missed' = (missed \ {c}) \cup {d \in Others(c, {"look up", "update"}) : id[d] = id[c]}
    /\ UNCHANGED <<row, born, lastSet, late, stale, clashed, reverted, orphaned, unchecked>>
    /\ End(c)

\* Delete, of a user with his links (DeleteByUserID) or of a role with those to its
\* menus and those of users to it (DeleteByRoleID, of two tables).
Remove(c) ==
    /\ pc[c] = "delete"
    /\ live' = live \ {id[c]}
    /\ userRoles' = {l \in userRoles : id[c] \notin {l[1], l[2]}}
    /\ roleMenus' = roleMenus \ {id[c]}
    /\ missed' = (missed \ {c}) \cup {d \in Others(c, {"look up", "update"}) : id[d] = id[c]}
    /\ UNCHANGED <<row, born, lastSet, late, stale, clashed, reverted, orphaned, unchecked>>
    /\ End(c)

\* UpdatePasswordByID, of ResetPassword and UpdatePassword.
WritePassword(c) ==
    /\ pc[c] \in {"set password", "change password"}
    /\ LET i == id[c] IN
       IF i \notin live THEN UNCHANGED <<row, lastSet, stale, reverted>>
       ELSE /\ row' = [row EXCEPT ![i].pass = form[c].pass]
            /\ SetsPassword(c, form[c].pass)
    /\ UNCHANGED <<live, born, userRoles, roleMenus, late, missed, clashed, orphaned, unchecked>>
    /\ End(c)

\* Mutant: UpdateUser writes the whole row.
WriteWholeProfile(c) ==
    /\ pc[c] = "write profile"
    /\ row' = IF id[c] \in live
              THEN [row EXCEPT ![id[c]].profile = "new", ![id[c]].pass = mine[c]] ELSE row
    /\ UNCHANGED <<live, born, userRoles, roleMenus, history>>
    /\ End(c)

\* UpdateUser writes four columns.
WriteProfile(c) ==
    /\ pc[c] = "write profile"
    /\ row' = IF id[c] \in live THEN [row EXCEPT ![id[c]].profile = "new"] ELSE row
    /\ UNCHANGED <<live, born, userRoles, roleMenus, history>>
    /\ End(c)

-----------------------------------------------------------------------------

Starts(c) == StartCreate(c) \/ StartUpdate(c) \/ StartDelete(c) \/ StartReset(c)
                \/ StartChange(c) \/ StartProfile(c)
Writes(c) == Insert(c) \/ Save(c) \/ Remove(c) \/ WritePassword(c) \/ WriteProfile(c)

Next == \E c \in Caller : Starts(c) \/ LookUp(c) \/ Writes(c) \/ Fail(c)

Spec == Init /\ [][Next]_vars

-----------------------------------------------------------------------------
(* Properties.                                                             *)

TypeOK ==
    /\ row \in [Id -> Row] /\ \A i \in Id : row[i].pass = Empty <=> i \in Role
    /\ live \subseteq born /\ born \subseteq Id
    /\ userRoles \subseteq (born \cap User) \X (born \cap Role)
    /\ roleMenus \subseteq born \cap Role
    /\ pc \in [Caller -> {"idle", "create", "look up", "update", "delete", "set password",
                          "change password", "write profile"}]
    /\ id \in [Caller -> Id \cup {Empty}] /\ form \in [Caller -> Form]
    /\ mine \in [Caller -> Password \cup {Empty}]
    /\ lastSet \in [Id -> Password \cup {Empty}]
    /\ late \subseteq Caller /\ stale \subseteq Caller /\ missed \subseteq Caller
    /\ clashed \subseteq Id /\ reverted \subseteq Id
    /\ orphaned \subseteq Id /\ unchecked \subseteq User \X Role
    /\ ops \in 0..MaxOps

\* Names are not unique: neither "Code of role (unique)" (schema/role.go:20) nor
\* "Username already exists" (user.biz.go:88) holds when requests overlap.  Two rows
\* of a table have one name only if one of them was written by a request that had
\* looked before the other took the name, or had read the row while it still had
\* that name (user.biz.go:84).
OnlyLateShareNames ==
    \A i, j \in live :
       i # j /\ SameTable(i, j) /\ row[i].name = row[j].name => i \in clashed \/ j \in clashed

\* A user's password is the one that was set last, unless an update that read the
\* row before wrote the older one back (user.biz.go:129).
PasswordKept == \A i \in live : row[i].pass = lastSet[i] \/ i \in reverted

\* No link survives the deletion of its user, its role or the role whose menus it
\* lists.  Links are without a row only if they were written later: by an update of
\* that row that had read it (user.biz.go:148), or, as nobody looks the roles of a
\* form up, by any create or update of a user whose form names a role that has been
\* deleted (user.biz.go:109, user.biz.go:156).
LinksEnd ==
    /\ \A l \in userRoles : /\ l[1] \in live \cup orphaned
                            /\ l[2] \in live \/ l \in unchecked
    /\ roleMenus \subseteq live \cup orphaned

==============================================================================
