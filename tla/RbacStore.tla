------------------------------ MODULE RbacStore ------------------------------
(***************************************************************************)
(* The role and menu tables of the RBAC schema as the policy loader of     *)
(* internal/mods/rbac/casbin.go reads them, and what one committed         *)
(* transaction of biz/role.biz.go and biz/menu.biz.go does to them.        *)
(*                                                                         *)
(* A database is a record of four tables.  A row that does not exist yet   *)
(* is "unborn", a removed one is "deleted": identifiers are fresh xids     *)
(* (util.NewXID), so a removed identifier never comes back.  The tree is   *)
(* fixed here (Parent); moving a menu is the subject of another module.    *)
(***************************************************************************)
EXTENDS Naturals, FiniteSets

CONSTANTS Role,      \* identifiers of roles
          Menu,      \* identifiers of menus
          Resource,  \* the <<path, method>> pairs a menu grants
          Root,      \* the parent of a top level menu
          Parent,    \* menu.parent_id
          Anc        \* the identifiers in menu.parent_path

ASSUME RowsAssumption == Role \cap Menu = {}

ASSUME TreeAssumption ==
    /\ Root \notin Menu
    /\ Parent \in [Menu -> Menu \cup {Root}]
    /\ Anc \in [Menu -> SUBSET Menu]
    /\ \A m \in Menu :
         /\ m \notin Anc[m]
         /\ Parent[m] = Root => Anc[m] = {}
         /\ Parent[m] # Root => Anc[m] = Anc[Parent[m]] \cup {Parent[m]}
         /\ \A a \in Anc[m] : Anc[a] \subseteq Anc[m]

Status == {"enabled", "disabled"}
RowState == Status \cup {"unborn", "deleted"}

DB == [role     : [Role -> RowState],
       roleMenu : [Role -> SUBSET Menu],
       menu     : [Menu -> RowState],
       res      : [Menu -> SUBSET Resource]]

Below(m) == {n \in Menu : m \in Anc[n]}
Live(d, ms) == {m \in ms : d.menu[m] \in Status}

-----------------------------------------------------------------------------
(* What the loader derives from the tables.                                *)

EnabledRoles(d) == {r \in Role : d.role[r] = "enabled"}

\* The granted menus that are enabled, and every identifier of their parent
\* paths, whatever the status of that ancestor.
MenuIDs(d, r) ==
    LET granted == {m \in d.roleMenu[r] : d.menu[m] = "enabled"}
    IN  granted \cup UNION {Anc[m] : m \in granted}

\* MenuResource.Query drops the filter on an empty list of menus and so
\* returns every row.
Resources(d, ms) == UNION {d.res[m] : m \in IF ms = {} THEN Menu ELSE ms}

\* What queryRoleResources returns from one state of the tables.
RoleResources(d, r) ==
    IF MenuIDs(d, r) = {} THEN {} ELSE Resources(d, MenuIDs(d, r))

Policy(d) ==
    {p \in Role \X Resource : p[1] \in EnabledRoles(d) /\ p[2] \in RoleResources(d, p[1])}

-----------------------------------------------------------------------------
(* The effect of a committed transaction.  An UPDATE of a row that is gone *)
(* changes no row and is no error; the rows of the join tables are         *)
(* inserted all the same.                                                  *)

CreateRole(d, o) ==
    [d EXCEPT !.role[o.role] = o.status, !.roleMenu[o.role] = o.menus]

UpdateRole(d, o) ==
    [d EXCEPT !.role[o.role] = IF @ \in Status THEN o.status ELSE @,
              !.roleMenu[o.role] = o.menus]

DeleteRole(d, o) ==
    [d EXCEPT !.role[o.role] = "deleted", !.roleMenu[o.role] = {}]

CreateMenu(d, o) ==
    [d EXCEPT !.menu[o.menu] = o.status, !.res[o.menu] = o.res]

\* The status is pushed to the menus below, then the menu itself is saved
\* and its resources are replaced.
UpdateMenu(d, o) ==
    [d EXCEPT !.menu = [m \in Menu |-> IF m \in Live(d, o.below \cup {o.menu})
                                       THEN o.status ELSE d.menu[m]],
              !.res[o.menu] = o.res]

\* Menu.delete for the menu and for each descendant found beforehand.
DeleteMenu(d, o) ==
    LET gone == o.below \cup {o.menu}
    IN  [d EXCEPT !.menu = [m \in Menu |-> IF m \in gone THEN "deleted" ELSE d.menu[m]],
                  !.res = [m \in Menu |-> IF m \in gone THEN {} ELSE d.res[m]],
                  !.roleMenu = [r \in Role |-> d.roleMenu[r] \ gone]]

\* The menu file: an entry whose menu exists overwrites its status and adds
\* the resources it lacks, an entry without a menu creates it.  An entry of a
\* menu that was removed, or is below one, makes a fresh row that no role is
\* granted; that row is left out.
ApplyMenuFile(d, file) ==
    LET kept == {m \in DOMAIN file : \A n \in Anc[m] \cup {m} : d.menu[n] # "deleted"}
    IN  [d EXCEPT !.menu = [m \in Menu |-> IF m \in kept THEN file[m].status ELSE d.menu[m]],
                  !.res = [m \in Menu |-> IF m \in kept THEN d.res[m] \cup file[m].res
                                         ELSE d.res[m]]]

Effect(d, o) ==
    CASE o.kind = "role.create" -> CreateRole(d, o)
      [] o.kind = "role.update" -> UpdateRole(d, o)
      [] o.kind = "role.delete" -> DeleteRole(d, o)
      [] o.kind = "menu.create" -> CreateMenu(d, o)
      [] o.kind = "menu.update" -> UpdateMenu(d, o)
      [] o.kind = "menu.delete" -> DeleteMenu(d, o)

=============================================================================
