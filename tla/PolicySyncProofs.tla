--------------------------- MODULE PolicySyncProofs ---------------------------
(***************************************************************************)
(* Theorems about PolicySync for every set of writers, roles, menus and    *)
(* resources and every tree of menus: its types, that the enforcer is      *)
(* never silently stale, and that a load gathers only rights that were     *)
(* committed while it ran, and all that were throughout.                   *)
(***************************************************************************)
EXTENDS PolicySync, TLAPS

Ops == RoleOp \cup MenuOp

Active(w) == wpc[w] # "idle"

\* An active writer has an operation, and a role is named while it is read.
TypeInv ==
    /\ TypeOK
    /\ \A w \in Writer : Active(w) => op[w] \in Ops
    /\ pc = "resources" => cur \in Role

\* What the checks before a transaction established of the operation o, as
\* far as it still holds of the tables d: a menu that was there has not
\* become one that never was, and a menu to create is still to be created.
OpSound(o, d) ==
    /\ o.kind \in {"role.create", "role.update"} =>
         \A m \in o.menus : d.menu[m] # "unborn"
    /\ o.kind = "menu.create" =>
         /\ d.menu[o.menu] = "unborn" /\ o.menu \notin DOMAIN MenuFile
         /\ \A a \in Anc[o.menu] : d.menu[a] # "unborn"
    /\ o.kind \in {"menu.update", "menu.delete"} => d.menu[o.menu] # "unborn"
    /\ o.kind = "menu.delete" => \A n \in o.below : d.menu[n] # "unborn"
    /\ o \in MenuOp => o.menu \in o.rows

OpsSound == \A w \in Writer : Active(w) => OpSound(op[w], db)

\* No two writers create the same menu.
CreatesDistinct ==
    \A v, w \in Writer :
        /\ v # w /\ Active(v) /\ Active(w)
        /\ op[v].kind = "menu.create" /\ op[w].kind = "menu.create"
        => op[v].menu # op[w].menu

\* How the second of the signal, of the clock and of the loader compare.
Seconds ==
    /\ stamp <= clock
    /\ lastUpdated <= stamp /\ updated <= stamp
    /\ pc \in Loading /\ updated > 0 => lastUpdated < updated
    /\ pc \in Loading /\ updated = 0 => lastUpdated = 0
    /\ pc \notin Loading => updated = 0

\* The roles of which the buffer has no line yet.
Unread == todo \cup failed \cup (IF pc = "resources" THEN {cur} ELSE {})

\* As long as no newer signal was stored and no commit went unsignalled, the
\* load has read what the tables still hold.
LoadCurrent ==
    pc \in {"menus", "resources", "build"} /\ ~gap /\ stamp <= updated =>
        /\ todo \subseteq EnabledRoles(db)
        /\ todo \cap failed = {}
        /\ pc = "resources" => /\ cur \in EnabledRoles(db)
                               /\ cur \notin todo \cup failed
                               /\ ids = MenuIDs(db, cur) /\ ids # {}
        /\ pc = "build" => todo = {}
        /\ buf = {p \in Policy(db) : p[1] \notin Unread}

\* A load starts with nothing gathered and nobody skipped.
Fresh ==
    /\ pc \notin {"menus", "resources", "build"} => buf = {}
    /\ pc = "roles" => failed = {}

\* The tables of the present are among those the load has seen, and of what it
\* has gathered every line was founded on some of them.
WasEnabled(r) == \E d \in hist : r \in EnabledRoles(d)
Founded(p) == /\ WasEnabled(p[1])
              /\ \E d, e \in hist : \E m \in MenuIDs(d, p[1]) : p[2] \in e.res[m]

\* Every right that r had all along is in the buffer.
Covered(r) ==
    \A m \in Menu, x \in Resource :
        (\A d \in hist : r \in EnabledRoles(d) /\ m \in MenuIDs(d, r) /\ x \in d.res[m])
            => <<r, x>> \in buf

Seen == pc \in Loading => db \in hist
GatherInv ==
    pc \in {"menus", "resources", "build"} =>
        /\ pc = "build" => todo = {}
        /\ \A r \in todo : WasEnabled(r)
        /\ pc = "resources" => /\ WasEnabled(cur)
                               /\ ids # {} /\ \E d \in hist : ids = MenuIDs(d, cur)
        /\ \A p \in buf : Founded(p)
        /\ \A r \in Role \ Unread : Covered(r)

WritersInv == UnbornUnused(db) /\ OpsSound /\ CreatesDistinct
LoaderInv == Seconds /\ Fresh /\ LoadCurrent /\ NoSilentStaleness

\* The inductive invariant, and that of what a load gathers.
IInv == TypeInv /\ WritersInv /\ LoaderInv
LoadInv == Seen /\ GatherInv

-----------------------------------------------------------------------------
(* The tables.                                                             *)

\* Every operation takes tables to tables.
LEMMA EffectType ==
    ASSUME NEW d \in DB, NEW o \in Ops
    PROVE  Effect(d, o) \in DB
<1>. USE DEF DB, RowState, Status
<1>1. CASE o \in RoleOp
  <2>1. o.role \in Role /\ o.status \in Status /\ o.menus \in SUBSET Menu
    BY <1>1 DEF RoleOp
  <2>2. CASE o.kind = "role.create"
    BY <2>1, <2>2 DEF Effect, CreateRole
  <2>3. CASE o.kind = "role.update"
    BY <2>1, <2>3 DEF Effect, UpdateRole
  <2>4. CASE o.kind = "role.delete"
    BY <2>1, <2>4 DEF Effect, DeleteRole
  <2>. QED BY <1>1, <2>2, <2>3, <2>4 DEF RoleOp
<1>2. CASE o \in MenuOp
  <2>1. /\ o.menu \in Menu /\ o.status \in Status
        /\ o.res \in SUBSET Resource /\ o.below \in SUBSET Menu
    BY <1>2 DEF MenuOp
  <2>2. CASE o.kind = "menu.create"
    BY <2>1, <2>2 DEF Effect, CreateMenu
  <2>3. CASE o.kind = "menu.update"
    BY <2>1, <2>3 DEF Effect, UpdateMenu
  <2>4. CASE o.kind = "menu.delete"
    BY <2>1, <2>4 DEF Effect, DeleteMenu
  <2>. QED BY <1>2, <2>2, <2>3, <2>4 DEF MenuOp
<1>. QED BY <1>1, <1>2 DEF Ops

LEMMA MenuFileType ==
    ASSUME NEW d \in DB
    PROVE  ApplyMenuFile(d, MenuFile) \in DB
BY PolicySyncAssumption DEF ApplyMenuFile, DB, RowState, Status

\* What the loader reads has the type of menus, resources and lines.
LEMMA ReadTypes ==
    ASSUME NEW d \in DB, NEW r \in Role
    PROVE  /\ EnabledRoles(d) \subseteq Role
           /\ MenuIDs(d, r) \subseteq Menu
           /\ \A ms \in SUBSET Menu : Resources(d, ms) \subseteq Resource
           /\ Policy(d) \subseteq Rule
<1>1. d.roleMenu[r] \subseteq Menu
  BY DEF DB
<1>2. \A m \in Menu : Anc[m] \subseteq Menu /\ d.res[m] \subseteq Resource
  BY TreeAssumption DEF DB
<1>. QED BY <1>1, <1>2 DEF EnabledRoles, MenuIDs, Resources, Policy, Rule

-----------------------------------------------------------------------------
(* Type correctness.                                                       *)

LEMMA Bounds == MaxOps \in Nat /\ MaxClock \in Nat \ {0} /\ MaxFaults \in Nat
BY PolicySyncAssumption

\* What one step keeps of the writers' types when only w moved, to p with o.
LEMMA WriterTypes ==
    ASSUME TypeInv, NEW w \in Writer,
           NEW p \in {"idle", "ready", "written", "synced"}, NEW o,
           o \in Ops \/ (o = Nil /\ p = "idle"),
           wpc' = [wpc EXCEPT ![w] = p], op' = [op EXCEPT ![w] = o]
    PROVE  /\ wpc' \in [Writer -> {"idle", "ready", "written", "synced"}]
           /\ op' \in [Writer -> RoleOp \cup MenuOp \cup {Nil}]
           /\ \A v \in Writer : wpc'[v] # "idle" => op'[v] \in Ops
BY DEF TypeInv, TypeOK, Active, Ops

LEMMA BeginTypes ==
    ASSUME TypeInv, NEW w \in Writer, NEW o \in Ops, Begin(w, o)
    PROVE  TypeInv'
<1>1. /\ wpc' \in [Writer -> {"idle", "ready", "written", "synced"}]
      /\ op' \in [Writer -> RoleOp \cup MenuOp \cup {Nil}]
      /\ \A v \in Writer : wpc'[v] # "idle" => op'[v] \in Ops
  BY WriterTypes DEF Begin
<1>2. ops' \in 0..MaxOps
  BY Bounds DEF TypeInv, TypeOK, Begin
<1>. QED BY <1>1, <1>2 DEF Begin, TypeInv, TypeOK, Active, storeVars, procVars, loadVars

\* Every operation that a request can begin is well formed.
LEMMA BeginWellFormed ==
    ASSUME TypeInv, NEW w \in Writer,
           \/ RoleCreate(w) \/ RoleUpdate(w) \/ RoleDelete(w)
           \/ MenuCreate(w) \/ MenuUpdate(w) \/ MenuDelete(w)
    PROVE  \E o \in Ops : Begin(w, o)
<1>1. CASE RoleCreate(w) \/ RoleUpdate(w)
  BY <1>1, PolicySyncAssumption DEF RoleCreate, RoleUpdate, BeginRole, Ops, RoleOp
<1>2. CASE RoleDelete(w)
  BY <1>2 DEF RoleDelete, Ops, RoleOp, Status
<1>3. CASE MenuCreate(w)
  BY <1>3, PolicySyncAssumption DEF MenuCreate, Ops, MenuOp
<1>4. CASE MenuUpdate(w)
  BY <1>4, PolicySyncAssumption DEF MenuUpdate, Ops, MenuOp, Below
<1>5. CASE MenuDelete(w)
  BY <1>5 DEF MenuDelete, Ops, MenuOp, Below, Live, Status
<1>. QED BY <1>1, <1>2, <1>3, <1>4, <1>5

LEMMA FinishTypes ==
    ASSUME TypeInv, NEW w \in Writer, Finish(w)
    PROVE  /\ wpc' \in [Writer -> {"idle", "ready", "written", "synced"}]
           /\ op' \in [Writer -> RoleOp \cup MenuOp \cup {Nil}]
           /\ \A v \in Writer : wpc'[v] # "idle" => op'[v] \in Ops
BY WriterTypes DEF Finish

\* A step of a writer keeps the types.
LEMMA WriteTypes ==
    ASSUME TypeInv, NEW w \in Writer, Write(w)
    PROVE  TypeInv'
<1>. USE DEF storeVars, procVars, loadVars
<1>1. CASE \/ RoleCreate(w) \/ RoleUpdate(w) \/ RoleDelete(w)
           \/ MenuCreate(w) \/ MenuUpdate(w) \/ MenuDelete(w)
  BY <1>1, BeginWellFormed, BeginTypes
<1>2. CASE WriteRows(w)
  BY <1>2 DEF WriteRows, TypeInv, TypeOK, Active
<1>3. CASE SyncToCasbin(w)
  BY <1>3 DEF SyncToCasbin, TypeInv, TypeOK, Active
<1>4. CASE Commit(w)
  <2>1. op[w] \in Ops
    BY <1>4 DEF Commit, TypeInv, Active
  <2>2. db' \in DB
    BY <1>4, <2>1, EffectType DEF Commit, TypeInv, TypeOK
  <2>3. hist' \subseteq DB /\ gap' \in BOOLEAN
    BY <1>4, <2>2 DEF Commit, TypeInv, TypeOK
  <2>4. Finish(w)
    BY <1>4 DEF Commit
  <2>. QED BY <1>4, <2>2, <2>3, <2>4, FinishTypes DEF Commit, TypeInv, TypeOK, Active
<1>5. CASE Rollback(w)
  <2>1. Finish(w)
    BY <1>5 DEF Rollback
  <2>2. faults' \in 0..MaxFaults
    BY <1>5, Bounds DEF Rollback, TypeInv, TypeOK
  <2>. QED BY <1>5, <2>1, <2>2, FinishTypes DEF Rollback, TypeInv, TypeOK, Active
<1>. QED BY <1>1, <1>2, <1>3, <1>4, <1>5 DEF Write

\* A step of load that meets no failure keeps the types.
LEMMA LoadTypes ==
    ASSUME TypeInv, Load
    PROVE  TypeInv'
<1>. USE DEF storeVars, procVars, loadVars
<1>0. db \in DB
  BY DEF TypeInv, TypeOK
<1>1. CASE QueryRoles
  <2>1. EnabledRoles(db) \subseteq Role
    BY DEF EnabledRoles
  <2>. QED BY <1>1, <2>1, Bounds
           DEF QueryRoles, Loaded, Return, Loading, TypeInv, TypeOK, Active
<1>2. CASE QueryMenus
  <2>1. \A r \in todo : r \in Role /\ MenuIDs(db, r) \subseteq Menu
    BY <1>0, ReadTypes DEF TypeInv, TypeOK
  <2>2. pc' \in {"menus", "resources"} /\ cur' \in Role \cup {Nil} /\ ids' \subseteq Menu
    BY <1>2, <2>1 DEF QueryMenus, TypeInv, TypeOK
  <2>3. pc' = "resources" => cur' \in Role
    BY <1>2, <2>1 DEF QueryMenus
  <2>4. todo' \subseteq Role
    BY <1>2 DEF QueryMenus, TypeInv, TypeOK
  <2>. QED BY <1>2, <2>2, <2>3, <2>4 DEF QueryMenus, Loading, TypeInv, TypeOK, Active
<1>3. CASE QueryResources
  <2>1. cur \in Role /\ Resources(db, ids) \subseteq Resource
    BY <1>0, <1>3, ReadTypes DEF QueryResources, TypeInv, TypeOK
  <2>2. buf' \subseteq Rule
    BY <1>3, <2>1 DEF QueryResources, Rule, TypeInv, TypeOK
  <2>. QED BY <1>3, <2>2 DEF QueryResources, Loading, TypeInv, TypeOK, Active
<1>4. CASE Gathered
  BY <1>4 DEF Gathered, Loading, TypeInv, TypeOK, Active
<1>5. CASE Store
  BY <1>5, Bounds DEF Store, Loaded, Return, TypeInv, TypeOK, Active
<1>. QED BY <1>1, <1>2, <1>3, <1>4, <1>5 DEF Load

\* Every step keeps the types.
LEMMA NextTypes == TypeInv /\ [Next]_vars => TypeInv'
<1>. SUFFICES ASSUME TypeInv, [Next]_vars PROVE TypeInv'
  OBVIOUS
<1>. USE DEF storeVars, procVars, loadVars
<1>0. faults < MaxFaults => faults + 1 \in 0..MaxFaults
  BY Bounds DEF TypeInv, TypeOK
<1>1. CASE \E w \in Writer : Write(w)
  BY <1>1, WriteTypes
<1>2. CASE Boot \/ Tick
  <2>1. hist' = {db} /\ failed' = {} /\ gap' = FALSE /\ pc' = "roles"
    BY <1>2 DEF Boot, Tick, StartLoad
  <2>2. updated' \in {0, stamp} /\ lastUpdated' \in {0, lastUpdated}
    BY <1>2 DEF Boot, Tick, StartLoad
  <2>3. updated' \in 0..MaxClock /\ lastUpdated' \in 0..MaxClock
    BY <2>2, Bounds DEF TypeInv, TypeOK
  <2>4. fileDone' \in BOOLEAN /\ enforcer' \subseteq Rule
    BY <1>2 DEF Boot, Tick, TypeInv, TypeOK
  <2>5. UNCHANGED <<db, stamp, clock, wpc, op, todo, cur, ids, buf, ops, faults>>
    BY <1>2 DEF Boot, Tick
  <2>. QED BY <2>1, <2>3, <2>4, <2>5 DEF Loading, TypeInv, TypeOK, Active
<1>3. CASE InitFromFile
  <2>1. ApplyMenuFile(db, MenuFile) \in DB
    BY MenuFileType DEF TypeInv, TypeOK
  <2>2. db' \in DB /\ hist' \subseteq DB /\ gap' \in BOOLEAN
    BY <1>3, <2>1 DEF InitFromFile, TypeInv, TypeOK
  <2>3. faults' \in 0..MaxFaults /\ fileDone' \in BOOLEAN
    BY <1>0, <1>3 DEF InitFromFile, TypeInv, TypeOK
  <2>. QED BY <1>3, <2>2, <2>3 DEF InitFromFile, TypeInv, TypeOK, Active
<1>4. CASE Load
  BY <1>4, LoadTypes
<1>5. CASE QueryRolesFails \/ StoreFails
  BY <1>0, <1>5, Bounds
     DEF QueryRolesFails, StoreFails, LoadFailed, Return, TypeInv, TypeOK, Active
<1>6. CASE SkipRole
  <2>1. failed' \subseteq Role /\ todo' \subseteq Role
    BY <1>6 DEF SkipRole, TypeInv, TypeOK
  <2>. QED BY <1>0, <1>6, <2>1 DEF SkipRole, Loading, TypeInv, TypeOK, Active
<1>7. CASE Second
  BY <1>7, Bounds DEF Second, TypeInv, TypeOK, Active
<1>8. CASE Crash
  <2>1. PICK dead \in SUBSET Writer :
          /\ wpc' = [w \in Writer |-> IF w \in dead THEN "idle" ELSE wpc[w]]
          /\ op' = [w \in Writer |-> IF w \in dead THEN Nil ELSE op[w]]
          /\ stamp' \in IF dead = Writer THEN {0, stamp} ELSE {stamp}
    BY <1>8 DEF Crash
  <2>2. stamp' \in 0..MaxClock
    BY <2>1, Bounds DEF TypeInv, TypeOK
  <2>3. /\ wpc' \in [Writer -> {"idle", "ready", "written", "synced"}]
        /\ op' \in [Writer -> RoleOp \cup MenuOp \cup {Nil}]
        /\ \A v \in Writer : wpc'[v] # "idle" => op'[v] \in Ops
    BY <2>1 DEF TypeInv, TypeOK, Active
  <2>4. /\ pc' = "down" /\ enforcer' = {} /\ lastUpdated' = 0 /\ fileDone' = FALSE
        /\ failed' = {} /\ gap' = FALSE /\ updated' = 0 /\ todo' = {}
        /\ cur' = Nil /\ ids' = {} /\ buf' = {} /\ hist' = {}
        /\ UNCHANGED <<db, clock, ops>>
    BY <1>8 DEF Crash, Return
  <2>5. faults' \in 0..MaxFaults
    BY <1>0, <1>8 DEF Crash
  <2>6. 0 \in 0..MaxClock
    BY Bounds
  <2>. QED BY <2>2, <2>3, <2>4, <2>5, <2>6 DEF TypeInv, TypeOK, Active
<1>9. CASE UNCHANGED vars
  BY <1>9 DEF vars, TypeInv, TypeOK, Active
<1>. QED BY <1>1, <1>2, <1>3, <1>4, <1>5, <1>6, <1>7, <1>8, <1>9 DEF Next

LEMMA InitTypes == Init => TypeInv
<1>. SUFFICES ASSUME Init PROVE TypeInv
  OBVIOUS
<1>1. db \in DB
  BY PolicySyncAssumption DEF Init
<1>2. /\ stamp \in 0..MaxClock /\ clock \in 1..MaxClock
      /\ lastUpdated \in 0..MaxClock /\ updated \in 0..MaxClock
      /\ ops \in 0..MaxOps /\ faults \in 0..MaxFaults
  BY Bounds DEF Init
<1>3. /\ wpc \in [Writer -> {"idle", "ready", "written", "synced"}]
      /\ op \in [Writer -> RoleOp \cup MenuOp \cup {Nil}]
      /\ \A w \in Writer : ~Active(w)
  BY DEF Init, Active
<1>. QED BY <1>1, <1>2, <1>3 DEF Init, TypeInv, TypeOK

\* The variables keep their types in every behaviour of the specification.
THEOREM TypeCorrect == Spec => []TypeOK
<1>1. TypeInv => TypeOK
  BY DEF TypeInv
<1>. QED BY InitTypes, NextTypes, <1>1, PTL DEF Spec

-----------------------------------------------------------------------------
(* The tables again: menus that do not exist yet.                          *)

LEMMA BornStays ==
    ASSUME NEW d \in DB, NEW o \in Ops, NEW m \in Menu, d.menu[m] # "unborn"
    PROVE  Effect(d, o).menu[m] # "unborn"
<1>. USE DEF DB, RowState, Status
<1>1. CASE o \in RoleOp
  BY <1>1 DEF RoleOp, Effect, CreateRole, UpdateRole, DeleteRole
<1>2. CASE o \in MenuOp
  <2>1. CASE o.kind = "menu.create"
    BY <1>2, <2>1 DEF MenuOp, Effect, CreateMenu
  <2>2. CASE o.kind = "menu.update"
    BY <1>2, <2>2 DEF MenuOp, Effect, UpdateMenu
  <2>3. CASE o.kind = "menu.delete"
    BY <1>2, <2>3 DEF MenuOp, Effect, DeleteMenu
  <2>. QED BY <1>2, <2>1, <2>2, <2>3 DEF MenuOp
<1>. QED BY <1>1, <1>2 DEF Ops

LEMMA UnbornStays ==
    ASSUME NEW d \in DB, NEW o \in Ops, OpSound(o, d),
           NEW m \in Menu, d.menu[m] = "unborn",
           o.kind = "menu.create" => o.menu # m
    PROVE  Effect(d, o).menu[m] = "unborn"
<1>. USE DEF DB, RowState, Status
<1>1. CASE o \in RoleOp
  BY <1>1 DEF RoleOp, Effect, CreateRole, UpdateRole, DeleteRole
<1>2. CASE o \in MenuOp
  <2>1. CASE o.kind = "menu.create"
    BY <1>2, <2>1 DEF MenuOp, Effect, CreateMenu
  <2>2. CASE o.kind = "menu.update"
    BY <1>2, <2>2 DEF MenuOp, Effect, UpdateMenu, Live
  <2>3. CASE o.kind = "menu.delete"
    BY <1>2, <2>3 DEF MenuOp, Effect, DeleteMenu, OpSound
  <2>. QED BY <1>2, <2>1, <2>2, <2>3 DEF MenuOp
<1>. QED BY <1>1, <1>2 DEF Ops

\* The operation of one writer stays sound when another commits.
LEMMA OpSoundStays ==
    ASSUME NEW d \in DB, NEW o \in Ops, NEW p \in Ops, OpSound(o, d), OpSound(p, d),
           o.kind = "menu.create" /\ p.kind = "menu.create" => o.menu # p.menu
    PROVE  OpSound(p, Effect(d, o))
<1>1. CASE p \in RoleOp
  BY <1>1, BornStays DEF OpSound, RoleOp, MenuOp
<1>2. CASE p \in MenuOp
  <2>1. p.menu \in Menu /\ p.below \subseteq Menu /\ Anc[p.menu] \subseteq Menu
    BY <1>2, TreeAssumption DEF MenuOp
  <2>2. \A m \in Menu : d.menu[m] # "unborn" => Effect(d, o).menu[m] # "unborn"
    BY BornStays
  <2>3. p.kind = "menu.create" => Effect(d, o).menu[p.menu] = "unborn"
    BY <2>1, UnbornStays DEF OpSound
  <2>. QED BY <1>2, <2>1, <2>2, <2>3 DEF OpSound, MenuOp
<1>. QED BY <1>1, <1>2 DEF Ops

LEMMA UnbornUnusedStays ==
    ASSUME NEW d \in DB, NEW o \in Ops, UnbornUnused(d), OpSound(o, d)
    PROVE  UnbornUnused(Effect(d, o))
<1>. DEFINE e == Effect(d, o)
<1>. SUFFICES ASSUME NEW m \in Menu, e.menu[m] = "unborn"
              PROVE  /\ e.res[m] = {}
                     /\ \A r \in Role : m \notin e.roleMenu[r]
                     /\ \A n \in Below(m) : e.menu[n] = "unborn"
  BY DEF UnbornUnused
<1>1. d.menu[m] = "unborn"
  BY BornStays
<1>2. /\ d.res[m] = {}
      /\ \A r \in Role : m \notin d.roleMenu[r]
      /\ \A n \in Below(m) : d.menu[n] = "unborn"
  BY <1>1 DEF UnbornUnused
<1>3. e.res[m] = {}
  <2>1. CASE o \in RoleOp
    BY <1>2, <2>1 DEF RoleOp, Effect, CreateRole, UpdateRole, DeleteRole, DB
  <2>2. CASE o \in MenuOp
    <3>1. CASE o.kind = "menu.create"
      <4>1. e.menu[o.menu] \in Status
        BY <2>2, <3>1 DEF MenuOp, Effect, CreateMenu, DB
      <4>. QED BY <1>2, <2>2, <3>1, <4>1 DEF MenuOp, Effect, CreateMenu, DB, Status
    <3>2. CASE o.kind = "menu.update"
      <4>1. o.menu # m
        BY <1>1, <3>2 DEF OpSound
      <4>. QED BY <1>2, <2>2, <3>2, <4>1 DEF MenuOp, Effect, UpdateMenu, DB
    <3>3. CASE o.kind = "menu.delete"
      BY <1>2, <2>2, <3>3 DEF MenuOp, Effect, DeleteMenu, DB
    <3>. QED BY <2>2, <3>1, <3>2, <3>3 DEF MenuOp
  <2>. QED BY <2>1, <2>2 DEF Ops
<1>4. ASSUME NEW r \in Role PROVE m \notin e.roleMenu[r]
  <2>1. CASE o \in RoleOp
    <3>1. o.kind \in {"role.create", "role.update"} => m \notin o.menus
      BY <1>1 DEF OpSound
    <3>. QED BY <1>2, <2>1, <3>1 DEF RoleOp, Effect, CreateRole, UpdateRole, DeleteRole, DB
  <2>2. CASE o \in MenuOp
    BY <1>2, <2>2 DEF MenuOp, Effect, CreateMenu, UpdateMenu, DeleteMenu, DB
  <2>. QED BY <2>1, <2>2 DEF Ops
<1>5. ASSUME NEW n \in Below(m) PROVE e.menu[n] = "unborn"
  <2>1. n \in Menu /\ d.menu[n] = "unborn" /\ m \in Anc[n]
    BY <1>2 DEF Below
  <2>2. ~(o.kind = "menu.create" /\ o.menu = n)
    BY <1>1, <2>1 DEF OpSound
  <2>. QED BY <2>1, <2>2, UnbornStays
<1>. QED BY <1>3, <1>4, <1>5

\* Creating a menu changes nothing that the loader reads: this is why
\* Menu.Create needs no signal.
LEMMA CreateMenuHarmless ==
    ASSUME NEW d \in DB, NEW o \in Ops, UnbornUnused(d), OpSound(o, d),
           o.kind = "menu.create"
    PROVE  /\ EnabledRoles(Effect(d, o)) = EnabledRoles(d)
           /\ \A r \in Role : MenuIDs(Effect(d, o), r) = MenuIDs(d, r)
           /\ Policy(Effect(d, o)) = Policy(d)
<1>. DEFINE e == Effect(d, o)
<1>1. o.menu \in Menu /\ e = CreateMenu(d, o)
  BY DEF Ops, RoleOp, MenuOp, Effect
<1>2. /\ e.role = d.role /\ e.roleMenu = d.roleMenu
      /\ \A m \in Menu : m # o.menu => e.menu[m] = d.menu[m] /\ e.res[m] = d.res[m]
  BY <1>1 DEF CreateMenu, DB
<1>3. d.menu[o.menu] = "unborn"
  BY DEF OpSound
<1>4. ASSUME NEW r \in Role
      PROVE  MenuIDs(e, r) = MenuIDs(d, r) /\ o.menu \notin MenuIDs(d, r)
  <2>1. d.roleMenu[r] \subseteq Menu /\ o.menu \notin d.roleMenu[r]
    BY <1>1, <1>3 DEF UnbornUnused, DB
  <2>2. MenuIDs(e, r) = MenuIDs(d, r)
    BY <1>2, <2>1 DEF MenuIDs
  <2>3. \A m \in Menu : d.menu[m] = "enabled" => o.menu \notin Anc[m]
    BY <1>1, <1>3 DEF UnbornUnused, Below
  <2>. QED BY <2>1, <2>2, <2>3 DEF MenuIDs
<1>5. EnabledRoles(e) = EnabledRoles(d)
  BY <1>2 DEF EnabledRoles
<1>6. ASSUME NEW r \in Role PROVE RoleResources(e, r) = RoleResources(d, r)
  <2>1. MenuIDs(d, r) \subseteq Menu
    BY ReadTypes
  <2>2. \A m \in MenuIDs(d, r) : e.res[m] = d.res[m]
    BY <1>2, <1>4, <2>1
  <2>. QED BY <1>4, <2>2 DEF RoleResources, Resources
<1>. QED BY <1>4, <1>5, <1>6 DEF Policy

\* The menu file keeps what is known of menus that do not exist.
LEMMA MenuFileUnborn ==
    ASSUME NEW d \in DB, UnbornUnused(d)
    PROVE  /\ UnbornUnused(ApplyMenuFile(d, MenuFile))
           /\ \A o \in Ops : OpSound(o, d) => OpSound(o, ApplyMenuFile(d, MenuFile))
<1>. DEFINE kept == {m \in DOMAIN MenuFile : \A n \in Anc[m] \cup {m} : d.menu[n] # "deleted"}
            e == ApplyMenuFile(d, MenuFile)
<1>1. \A m \in kept : m \in Menu /\ MenuFile[m].status \in Status
  BY PolicySyncAssumption
<1>2. /\ e.roleMenu = d.roleMenu
      /\ \A m \in Menu : m \notin kept => e.menu[m] = d.menu[m] /\ e.res[m] = d.res[m]
      /\ \A m \in kept : e.menu[m] \in Status
  BY <1>1 DEF ApplyMenuFile, DB
<1>3. \A m \in Menu : d.menu[m] # "unborn" => e.menu[m] # "unborn"
  BY <1>2 DEF Status
<1>4. UnbornUnused(e)
  <2>. SUFFICES ASSUME NEW m \in Menu, e.menu[m] = "unborn"
                PROVE  /\ e.res[m] = {}
                       /\ \A r \in Role : m \notin e.roleMenu[r]
                       /\ \A n \in Below(m) : e.menu[n] = "unborn"
    BY DEF UnbornUnused
  <2>1. d.menu[m] = "unborn" /\ m \notin kept
    BY <1>2, <1>3 DEF Status
  <2>2. ASSUME NEW n \in Below(m) PROVE n \notin kept
    <3>. SUFFICES ASSUME n \in kept PROVE FALSE
      OBVIOUS
    <3>1. n \in Menu /\ m \in Anc[n] /\ Anc[m] \subseteq Anc[n]
      BY TreeAssumption DEF Below
    <3>2. m \in DOMAIN MenuFile
      BY <3>1, PolicySyncAssumption
    <3>. QED BY <2>1, <3>1, <3>2
  <2>. QED BY <1>2, <2>1, <2>2 DEF UnbornUnused, Below
<1>5. ASSUME NEW o \in Ops, OpSound(o, d) PROVE OpSound(o, e)
  <2>1. CASE o \in RoleOp
    BY <1>3, <1>5, <2>1 DEF OpSound, RoleOp, MenuOp
  <2>2. CASE o \in MenuOp
    <3>1. o.menu \in Menu /\ o.below \subseteq Menu /\ Anc[o.menu] \subseteq Menu
      BY <2>2, TreeAssumption DEF MenuOp
    <3>2. o.kind = "menu.create" => e.menu[o.menu] = "unborn"
      BY <1>2, <1>5, <3>1 DEF OpSound
    <3>. QED BY <1>3, <1>5, <2>2, <3>1, <3>2 DEF OpSound, MenuOp
  <2>. QED BY <2>1, <2>2 DEF Ops
<1>. QED BY <1>4, <1>5

-----------------------------------------------------------------------------
(* The writers' part of the invariant.                                     *)

\* What a request begins is sound, and a menu to create is nobody else's.
LEMMA BeginSound ==
    ASSUME TypeInv, WritersInv, NEW w \in Writer,
           \/ RoleCreate(w) \/ RoleUpdate(w) \/ RoleDelete(w)
           \/ MenuCreate(w) \/ MenuUpdate(w) \/ MenuDelete(w)
    PROVE  \E o \in Ops : /\ Begin(w, o) /\ OpSound(o, db)
                          /\ o.kind = "menu.create" => Unclaimed(o.menu)
<1>1. CASE RoleCreate(w) \/ RoleUpdate(w)
  <2>1. PICK kind \in {"role.create", "role.update"}, r \in Role : BeginRole(w, kind, r)
    BY <1>1 DEF RoleCreate, RoleUpdate
  <2>2. PICK f \in RoleForms :
          /\ \A m \in f.menus : db.menu[m] # "unborn"
          /\ Begin(w, [kind |-> kind, role |-> r, status |-> f.status,
                       menus |-> f.menus, rows |-> {r}])
    BY <2>1 DEF BeginRole
  <2>. DEFINE o == [kind |-> kind, role |-> r, status |-> f.status,
                    menus |-> f.menus, rows |-> {r}]
  <2>3. o \in RoleOp
    BY PolicySyncAssumption DEF RoleOp
  <2>4. OpSound(o, db)
    BY <2>2 DEF OpSound, MenuOp
  <2>. QED BY <2>2, <2>3, <2>4 DEF Ops
<1>2. CASE RoleDelete(w)
  <2>1. PICK r \in Role :
          Begin(w, [kind |-> "role.delete", role |-> r, status |-> "disabled",
                    menus |-> {}, rows |-> {r}])
    BY <1>2 DEF RoleDelete
  <2>. DEFINE o == [kind |-> "role.delete", role |-> r, status |-> "disabled",
                    menus |-> {}, rows |-> {r}]
  <2>2. o \in RoleOp
    BY DEF RoleOp, Status
  <2>3. OpSound(o, db)
    BY DEF OpSound, MenuOp
  <2>. QED BY <2>1, <2>2, <2>3 DEF Ops
<1>3. CASE MenuCreate(w)
  <2>1. PICK m \in Menu, f \in MenuForms :
          /\ db.menu[m] = "unborn" /\ Unclaimed(m) /\ m \notin DOMAIN MenuFile
          /\ Parent[m] # Root => db.menu[Parent[m]] \in Status
          /\ Begin(w, [kind |-> "menu.create", menu |-> m, status |-> f.status,
                       res |-> f.res, below |-> {}, rows |-> {m}])
    BY <1>3 DEF MenuCreate
  <2>. DEFINE o == [kind |-> "menu.create", menu |-> m, status |-> f.status,
                    res |-> f.res, below |-> {}, rows |-> {m}]
  <2>2. o \in MenuOp
    BY PolicySyncAssumption DEF MenuOp
  <2>3. ASSUME NEW a \in Anc[m] PROVE db.menu[a] # "unborn"
    <3>1. /\ Parent[m] \in Menu /\ a \in Anc[Parent[m]] \cup {Parent[m]}
          /\ a \in Menu /\ db.menu[Parent[m]] \in Status
      BY <2>1, TreeAssumption
    <3>. QED BY <3>1 DEF WritersInv, UnbornUnused, Below, Status
  <2>4. OpSound(o, db)
    BY <2>1, <2>3 DEF OpSound
  <2>. QED BY <2>1, <2>2, <2>4 DEF Ops
<1>4. CASE MenuUpdate(w)
  <2>1. PICK m \in Menu, f \in MenuForms :
          LET spread == IF db.menu[m] # f.status THEN Below(m) ELSE {} IN
          /\ db.menu[m] \in Status
          /\ Begin(w, [kind |-> "menu.update", menu |-> m, status |-> f.status,
                       res |-> f.res, below |-> spread, rows |-> {m} \cup spread])
    BY <1>4 DEF MenuUpdate
  <2>. DEFINE spread == IF db.menu[m] # f.status THEN Below(m) ELSE {}
              o == [kind |-> "menu.update", menu |-> m, status |-> f.status,
                    res |-> f.res, below |-> spread, rows |-> {m} \cup spread]
  <2>2. o \in MenuOp
    BY PolicySyncAssumption DEF MenuOp, Below
  <2>3. OpSound(o, db)
    BY <2>1 DEF OpSound, Status
  <2>. QED BY <2>1, <2>2, <2>3 DEF Ops
<1>5. CASE MenuDelete(w)
  <2>1. PICK m \in Menu :
          LET children == Live(db, Below(m)) IN
          /\ db.menu[m] \in Status
          /\ Begin(w, [kind |-> "menu.delete", menu |-> m, status |-> "disabled",
                       res |-> {}, below |-> children, rows |-> {m} \cup children])
    BY <1>5 DEF MenuDelete
  <2>. DEFINE children == Live(db, Below(m))
              o == [kind |-> "menu.delete", menu |-> m, status |-> "disabled",
                    res |-> {}, below |-> children, rows |-> {m} \cup children]
  <2>2. o \in MenuOp
    BY DEF MenuOp, Below, Live, Status
  <2>3. OpSound(o, db)
    BY <2>1 DEF OpSound, Status, Live
  <2>. QED BY <2>1, <2>2, <2>3 DEF Ops
<1>. QED BY <1>1, <1>2, <1>3, <1>4, <1>5

\* No step makes an operation unsound or lets two writers create one menu.
LEMMA WritersStep == TypeInv /\ WritersInv /\ [Next]_vars => WritersInv'
<1>. SUFFICES ASSUME TypeInv, WritersInv, [Next]_vars PROVE WritersInv'
  OBVIOUS
<1>. USE DEF storeVars, procVars, loadVars
<1>0. /\ db \in DB /\ wpc \in [Writer -> {"idle", "ready", "written", "synced"}]
      /\ op \in [Writer -> RoleOp \cup MenuOp \cup {Nil}]
      /\ \A w \in Writer : wpc[w] # "idle" => op[w] \in Ops
  BY DEF TypeInv, TypeOK, Active
<1>1. ASSUME NEW w \in Writer,
             \/ RoleCreate(w) \/ RoleUpdate(w) \/ RoleDelete(w)
             \/ MenuCreate(w) \/ MenuUpdate(w) \/ MenuDelete(w)
      PROVE  WritersInv'
  <2>1. PICK o \in Ops : /\ Begin(w, o) /\ OpSound(o, db)
                         /\ o.kind = "menu.create" => Unclaimed(o.menu)
    BY <1>1, BeginSound
  <2>2. /\ db' = db /\ wpc' = [wpc EXCEPT ![w] = "ready"] /\ op' = [op EXCEPT ![w] = o]
        /\ wpc[w] = "idle"
    BY <2>1 DEF Begin
  <2>3. OpsSound'
    BY <1>0, <2>1, <2>2 DEF WritersInv, OpsSound, Active
  <2>4. \A v \in Writer : Active(v) /\ op[v].kind = "menu.create" => op[v].menu \in op[v].rows
    BY <1>0 DEF WritersInv, OpsSound, OpSound, Active, Ops, RoleOp
  <2>5. CreatesDistinct'
    BY <1>0, <2>1, <2>2, <2>4 DEF WritersInv, CreatesDistinct, Active, Unclaimed
  <2>. QED BY <2>2, <2>3, <2>5 DEF WritersInv
<1>2. ASSUME NEW w \in Writer, WriteRows(w) \/ SyncToCasbin(w) PROVE WritersInv'
  <2>1. db' = db /\ op' = op /\ \A v \in Writer : Active(v)' => Active(v)
    BY <1>0, <1>2 DEF WriteRows, SyncToCasbin, Active
  <2>. QED BY <2>1 DEF WritersInv, OpsSound, CreatesDistinct
<1>3. ASSUME NEW w \in Writer, Commit(w) PROVE WritersInv'
  <2>1. op[w] \in Ops /\ OpSound(op[w], db) /\ db' = Effect(db, op[w])
    BY <1>0, <1>3 DEF Commit, WritersInv, OpsSound, Active
  <2>2. \A v \in Writer : Active(v)' => v # w /\ Active(v) /\ op'[v] = op[v]
    BY <1>0, <1>3 DEF Commit, Finish, Active
  <2>3. UnbornUnused(db)'
    BY <1>0, <2>1, UnbornUnusedStays DEF WritersInv, UnbornUnused
  <2>4. ASSUME NEW v \in Writer, Active(v)' PROVE OpSound(op'[v], db')
    <3>1. /\ v # w /\ Active(v) /\ op'[v] = op[v] /\ op[v] \in Ops /\ OpSound(op[v], db)
          /\ Active(w)
      BY <1>0, <1>3, <2>2, <2>4 DEF WritersInv, OpsSound, Active, Commit
    <3>2. op[w].kind = "menu.create" /\ op[v].kind = "menu.create" => op[w].menu # op[v].menu
      BY <3>1 DEF WritersInv, CreatesDistinct
    <3>. QED BY <1>0, <2>1, <3>1, <3>2, OpSoundStays
  <2>5. OpsSound'
    BY <2>4 DEF OpsSound, OpSound, Active
  <2>6. CreatesDistinct'
    BY <2>2 DEF WritersInv, CreatesDistinct
  <2>. QED BY <2>3, <2>5, <2>6 DEF WritersInv
<1>4. ASSUME NEW w \in Writer, Rollback(w) PROVE WritersInv'
  <2>1. db' = db /\ \A v \in Writer : Active(v)' => Active(v) /\ op'[v] = op[v]
    BY <1>0, <1>4 DEF Rollback, Finish, Active
  <2>. QED BY <2>1 DEF WritersInv, OpsSound, CreatesDistinct
<1>5. CASE \E w \in Writer : Write(w)
  BY <1>1, <1>2, <1>3, <1>4, <1>5 DEF Write
<1>6. CASE InitFromFile
  <2>1. db' \in {db, ApplyMenuFile(db, MenuFile)} /\ wpc' = wpc /\ op' = op
    BY <1>6 DEF InitFromFile
  <2>2. UnbornUnused(db') /\ \A w \in Writer : Active(w) => OpSound(op[w], db')
    BY <1>0, <2>1, MenuFileUnborn DEF WritersInv, OpsSound, Active
  <2>3. OpsSound'
    BY <2>1, <2>2 DEF OpsSound, OpSound, Active
  <2>4. CreatesDistinct'
    BY <2>1 DEF WritersInv, CreatesDistinct, Active
  <2>. QED BY <2>2, <2>3, <2>4 DEF WritersInv, UnbornUnused
<1>7. CASE Crash
  <2>1. db' = db /\ \A v \in Writer : Active(v)' => Active(v) /\ op'[v] = op[v]
    BY <1>0, <1>7 DEF Crash, Active
  <2>. QED BY <2>1 DEF WritersInv, OpsSound, CreatesDistinct
<1>8. CASE Boot \/ Tick \/ Load \/ QueryRolesFails \/ SkipRole \/ StoreFails \/ Second
  <2>1. db' = db /\ wpc' = wpc /\ op' = op
    BY <1>8 DEF Boot, Tick, Load, QueryRoles, QueryMenus, QueryResources, Gathered,
                Store, QueryRolesFails, SkipRole, StoreFails, LoadFailed, Second
  <2>. QED BY <2>1 DEF WritersInv, OpsSound, CreatesDistinct, Active
<1>9. CASE UNCHANGED vars
  BY <1>9 DEF vars, WritersInv, OpsSound, CreatesDistinct, Active
<1>. QED BY <1>5, <1>6, <1>7, <1>8, <1>9 DEF Next

-----------------------------------------------------------------------------
(* The loader's part of the invariant.                                     *)

LEMMA Numbers ==
    ASSUME TypeInv
    PROVE  /\ stamp \in Nat /\ clock \in Nat /\ clock > 0
           /\ lastUpdated \in Nat /\ updated \in Nat
BY Bounds DEF TypeInv, TypeOK

\* A step that changes nothing the loader reads or keeps, and stores no older
\* second, keeps the invariant.
LEMMA LoaderFrame ==
    ASSUME TypeInv, LoaderInv,
           UNCHANGED <<pc, procVars, loadVars, enforcer, failed, gap>>,
           \/ db' = db
           \/ /\ EnabledRoles(db') = EnabledRoles(db)
              /\ \A r \in Role : MenuIDs(db', r) = MenuIDs(db, r)
              /\ Policy(db') = Policy(db),
           stamp' \in Nat, clock' \in Nat, stamp <= stamp', stamp' <= clock'
    PROVE  LoaderInv'
<1>. USE Numbers DEF procVars, loadVars
<1>0. /\ EnabledRoles(db') = EnabledRoles(db) /\ Policy(db') = Policy(db)
      /\ \A r \in Role : MenuIDs(db', r) = MenuIDs(db, r)
  OBVIOUS
<1>1. Seconds'
  BY DEF LoaderInv, Seconds, Loading
<1>2. Fresh'
  BY DEF LoaderInv, Fresh
<1>3. LoadCurrent'
  <2>1. stamp' <= updated => stamp <= updated
    OBVIOUS
  <2>2. pc = "resources" => cur \in Role
    BY DEF TypeInv
  <2>. QED BY <1>0, <2>1, <2>2 DEF LoaderInv, LoadCurrent, Unread
<1>4. NoSilentStaleness'
  BY <1>0 DEF LoaderInv, NoSilentStaleness
<1>. QED BY <1>1, <1>2, <1>3, <1>4 DEF LoaderInv

\* A step after which the loader is told, or has yet to see, that it is
\* behind keeps the invariant whatever it does to the tables.
LEMMA LoaderBehind ==
    ASSUME TypeInv, LoaderInv,
           UNCHANGED <<stamp, clock, pc, procVars, loadVars, enforcer, failed>>,
           gap' \/ (pc \in Loading /\ stamp > updated)
                \/ (pc \notin Loading /\ stamp > lastUpdated)
    PROVE  LoaderInv'
<1>. USE Numbers DEF procVars, loadVars
<1>1. Seconds'
  BY DEF LoaderInv, Seconds, Loading
<1>2. Fresh'
  BY DEF LoaderInv, Fresh
<1>3. LoadCurrent' /\ NoSilentStaleness'
  BY DEF LoadCurrent, NoSilentStaleness, Loading
<1>. QED BY <1>1, <1>2, <1>3 DEF LoaderInv

LEMMA WriteLoader ==
    ASSUME IInv, NEW w \in Writer, Write(w)
    PROVE  LoaderInv'
<1>. USE Numbers DEF IInv
<1>1. CASE \/ RoleCreate(w) \/ RoleUpdate(w) \/ RoleDelete(w)
           \/ MenuCreate(w) \/ MenuUpdate(w) \/ MenuDelete(w)
  <2>1. UNCHANGED <<storeVars, pc, procVars, loadVars, enforcer, failed, gap>>
    BY <1>1, BeginWellFormed DEF Begin
  <2>. QED BY <2>1, LoaderFrame DEF LoaderInv, Seconds, storeVars
<1>2. CASE WriteRows(w) \/ Rollback(w)
  BY <1>2, LoaderFrame DEF WriteRows, Rollback, LoaderInv, Seconds, storeVars
<1>3. CASE SyncToCasbin(w)
  BY <1>3, LoaderFrame DEF SyncToCasbin, LoaderInv, Seconds
<1>4. CASE Commit(w)
  <2>1. UNCHANGED <<stamp, clock, pc, procVars, loadVars, enforcer, failed>>
    BY <1>4 DEF Commit
  <2>2. CASE Syncs(op[w])
    <3>1. stamp <= Consumed => gap'
      BY <1>4, <2>2, Zenon DEF Commit
    <3>2. Consumed \in Nat
      BY DEF Consumed
    <3>3. stamp <= Consumed \/ stamp > Consumed
      BY <3>2
    <3>4. gap' \/ (pc \in Loading /\ stamp > updated)
               \/ (pc \notin Loading /\ stamp > lastUpdated)
      BY <3>1, <3>3, Zenon DEF Consumed
    <3>. QED BY <2>1, <3>4, LoaderBehind
  <2>3. CASE ~Syncs(op[w])
    <3>1. op[w] \in Ops /\ OpSound(op[w], db) /\ db \in DB /\ UnbornUnused(db)
          /\ db' = Effect(db, op[w])
      BY <1>4 DEF Commit, WritersInv, OpsSound, TypeInv, TypeOK, Active
    <3>2. /\ EnabledRoles(db') = EnabledRoles(db)
          /\ \A r \in Role : MenuIDs(db', r) = MenuIDs(db, r)
          /\ Policy(db') = Policy(db)
      BY <2>3, <3>1, CreateMenuHarmless DEF Syncs
    <3>3. gap' = gap
      BY <1>4, <2>3 DEF Commit, TypeInv, TypeOK
    <3>. QED BY <2>1, <3>2, <3>3, LoaderFrame DEF LoaderInv, Seconds
  <2>. QED BY <2>2, <2>3
<1>. QED BY <1>1, <1>2, <1>3, <1>4 DEF Write

\* The lines of one role in the policy of the tables.
LEMMA RoleLines ==
    ASSUME NEW d \in DB, NEW r \in Role, r \in EnabledRoles(d)
    PROVE  {p \in Policy(d) : p[1] = r} =
             IF MenuIDs(d, r) = {} THEN {} ELSE {r} \X Resources(d, MenuIDs(d, r))
<1>1. MenuIDs(d, r) # {} => Resources(d, MenuIDs(d, r)) \subseteq Resource
  BY ReadTypes
<1>2. \A p \in Role \X Resource : p = <<p[1], p[2]>>
  OBVIOUS
<1>. QED BY <1>1, <1>2 DEF Policy, RoleResources

LEMMA LoadLoader ==
    ASSUME IInv, Load
    PROVE  LoaderInv'
<1>. USE Numbers DEF IInv, procVars, loadVars, storeVars
<1>0. db \in DB
  BY DEF TypeInv, TypeOK
<1>1. CASE QueryRoles
  <2>1. CASE EnabledRoles(db) # {}
    <3>1. /\ pc = "roles" /\ pc' = "menus" /\ todo' = EnabledRoles(db)
          /\ UNCHANGED <<db, stamp, clock, lastUpdated, updated, buf, failed, gap>>
      BY <1>1, <2>1 DEF QueryRoles
    <3>2. buf = {} /\ failed = {}
      BY <3>1 DEF LoaderInv, Fresh
    <3>3. \A p \in Policy(db) : p[1] \in EnabledRoles(db)
      BY DEF Policy
    <3>4. LoadCurrent'
      BY <3>1, <3>2, <3>3 DEF LoadCurrent, Unread
    <3>. QED BY <3>1, <3>4 DEF LoaderInv, Seconds, Fresh, NoSilentStaleness, Loading
  <2>2. CASE EnabledRoles(db) = {}
    <3>1. /\ pc = "roles" /\ pc' = "idle" /\ lastUpdated' = updated /\ updated' = 0 /\ buf' = {}
          /\ UNCHANGED <<db, stamp, clock>>
      BY <1>1, <2>2 DEF QueryRoles, Loaded, Return
    <3>2. Policy(db) = {}
      BY <2>2 DEF Policy
    <3>. QED BY <3>1, <3>2 DEF LoaderInv, Seconds, Fresh, LoadCurrent, NoSilentStaleness, Loading
  <2>. QED BY <2>1, <2>2
<1>2. CASE QueryMenus
  <2>1. PICK r \in todo :
          /\ todo' = todo \ {r}
          /\ IF MenuIDs(db, r) # {}
             THEN pc' = "resources" /\ cur' = r /\ ids' = MenuIDs(db, r)
             ELSE UNCHANGED <<pc, cur, ids>>
    BY <1>2 DEF QueryMenus
  <2>2. /\ pc = "menus" /\ pc' \in {"menus", "resources"} /\ r \in Role
        /\ UNCHANGED <<db, stamp, clock, lastUpdated, updated, buf, failed, gap>>
    BY <1>2, <2>1 DEF QueryMenus, TypeInv, TypeOK
  <2>3. ASSUME ~gap, stamp <= updated
        PROVE  /\ todo \subseteq EnabledRoles(db) /\ todo \cap failed = {}
               /\ buf = {p \in Policy(db) : p[1] \notin todo \cup failed}
    BY <2>2, <2>3 DEF LoaderInv, LoadCurrent, Unread
  <2>4. CASE MenuIDs(db, r) # {}
    BY <2>1, <2>2, <2>3, <2>4
       DEF LoaderInv, Seconds, Fresh, NoSilentStaleness, LoadCurrent, Unread, Loading
  <2>5. CASE MenuIDs(db, r) = {}
    <3>1. \A p \in Policy(db) : p[1] # r
      BY <2>5 DEF Policy, RoleResources
    <3>2. pc' = "menus"
      BY <2>1, <2>2, <2>5
    <3>3. LoadCurrent'
      BY <2>1, <2>2, <2>3, <3>1, <3>2 DEF LoadCurrent, Unread
    <3>. QED BY <2>2, <3>2, <3>3 DEF LoaderInv, Seconds, Fresh, NoSilentStaleness, Loading
  <2>. QED BY <2>4, <2>5
<1>3. CASE QueryResources
  <2>1. /\ pc = "resources" /\ pc' = "menus" /\ buf' = buf \cup ({cur} \X Resources(db, ids))
        /\ cur \in Role
        /\ UNCHANGED <<db, stamp, clock, lastUpdated, updated, todo, failed, gap>>
    BY <1>3 DEF QueryResources, TypeInv
  <2>2. ASSUME ~gap, stamp <= updated
        PROVE  /\ todo \subseteq EnabledRoles(db) /\ todo \cap failed = {}
               /\ cur \in EnabledRoles(db) /\ cur \notin todo \cup failed
               /\ ids = MenuIDs(db, cur) /\ ids # {}
               /\ buf = {p \in Policy(db) : p[1] \notin todo \cup failed \cup {cur}}
    BY <2>1, <2>2 DEF LoaderInv, LoadCurrent, Unread
  <2>3. ASSUME ~gap, stamp <= updated
        PROVE  buf' = {p \in Policy(db) : p[1] \notin todo \cup failed}
    <3>1. {p \in Policy(db) : p[1] = cur} = {cur} \X Resources(db, ids)
      BY <1>0, <2>1, <2>2, <2>3, RoleLines
    <3>. QED BY <2>1, <2>2, <2>3, <3>1
  <2>4. LoadCurrent'
    BY <2>1, <2>2, <2>3 DEF LoadCurrent, Unread
  <2>. QED BY <2>1, <2>4 DEF LoaderInv, Seconds, Fresh, NoSilentStaleness, Loading
<1>4. CASE Gathered
  BY <1>4 DEF Gathered, LoaderInv, Seconds, Fresh, NoSilentStaleness, LoadCurrent, Unread, Loading
<1>5. CASE Store
  <2>1. /\ pc = "build" /\ pc' = "idle" /\ lastUpdated' = updated /\ updated' = 0 /\ buf' = {}
        /\ enforcer' = IF buf # {} THEN buf ELSE enforcer
        /\ UNCHANGED <<db, stamp, clock, failed, gap>>
    BY <1>5 DEF Store, Loaded, Return
  <2>2. ASSUME ~gap, stamp <= updated, failed = {} PROVE buf = Policy(db)
    BY <2>1, <2>2 DEF LoaderInv, LoadCurrent, Unread
  <2>3. NoSilentStaleness'
    BY <2>1, <2>2 DEF NoSilentStaleness
  <2>. QED BY <2>1, <2>3 DEF LoaderInv, Seconds, Fresh, LoadCurrent, Loading
<1>. QED BY <1>1, <1>2, <1>3, <1>4, <1>5 DEF Load

-----------------------------------------------------------------------------
(* The invariant and the theorem.                                          *)

LEMMA LoaderStep == IInv /\ [Next]_vars => LoaderInv'
<1>. SUFFICES ASSUME IInv, [Next]_vars PROVE LoaderInv'
  OBVIOUS
<1>. USE Numbers DEF IInv, procVars, loadVars, storeVars
<1>0. db \in DB /\ UnbornUnused(db)
  BY DEF TypeInv, TypeOK, WritersInv
<1>1. CASE \E w \in Writer : Write(w)
  BY <1>1, WriteLoader
<1>2. CASE Load
  BY <1>2, LoadLoader
<1>3. CASE Boot
  <2>1. /\ pc' = "roles" /\ updated' = 0 /\ lastUpdated' = 0 /\ failed' = {}
        /\ pc = "down" /\ UNCHANGED <<stamp, clock, buf>>
    BY <1>3 DEF Boot, StartLoad
  <2>. QED BY <2>1 DEF LoaderInv, Seconds, Fresh, LoadCurrent, NoSilentStaleness, Loading
<1>4. CASE Tick
  <2>1. /\ pc' = "roles" /\ updated' = stamp /\ lastUpdated < stamp /\ failed' = {}
        /\ pc = "idle" /\ UNCHANGED <<stamp, clock, buf, lastUpdated>>
    BY <1>4 DEF Tick, StartLoad
  <2>. QED BY <2>1 DEF LoaderInv, Seconds, Fresh, LoadCurrent, NoSilentStaleness, Loading
<1>5. CASE QueryRolesFails \/ StoreFails
  <2>1. /\ pc \in Loading /\ pc' = IF updated = 0 THEN "down" ELSE "idle"
        /\ updated' = 0 /\ buf' = {}
        /\ UNCHANGED <<db, stamp, clock, lastUpdated>>
    BY <1>5 DEF QueryRolesFails, StoreFails, LoadFailed, Return, Loading
  <2>2. pc' = "idle" => lastUpdated < stamp
    BY <2>1 DEF LoaderInv, Seconds
  <2>. QED BY <2>1, <2>2
           DEF LoaderInv, Seconds, Fresh, LoadCurrent, NoSilentStaleness, Loading
<1>6. CASE SkipRole
  <2>1. /\ pc' = "menus" /\ cur' = Nil
        /\ UNCHANGED <<db, stamp, clock, lastUpdated, updated, buf, gap>>
        /\ \/ /\ pc = "menus"
              /\ \E r \in todo : todo' = todo \ {r} /\ failed' = failed \cup {r}
           \/ /\ pc = "resources" /\ failed' = failed \cup {cur} /\ todo' = todo
    BY <1>6 DEF SkipRole
  <2>2. LoadCurrent'
    BY <2>1 DEF LoaderInv, LoadCurrent, Unread
  <2>. QED BY <2>1, <2>2 DEF LoaderInv, Seconds, Fresh, NoSilentStaleness, Loading
<1>7. CASE InitFromFile
  <2>1. UNCHANGED <<stamp, clock, pc, lastUpdated, updated, loadVars, enforcer, failed>>
    BY <1>7 DEF InitFromFile
  <2>2. db' # db => gap'
    BY <1>7, Zenon DEF InitFromFile
  <2>3. gap => gap'
    BY <1>7, Zenon DEF InitFromFile
  <2>4. Seconds' /\ Fresh'
    BY <2>1 DEF LoaderInv, Seconds, Fresh, Loading
  <2>5. LoadCurrent'
    BY <2>1, <2>2, <2>3 DEF LoaderInv, LoadCurrent, Unread
  <2>6. NoSilentStaleness'
    BY <2>1, <2>2, <2>3 DEF LoaderInv, NoSilentStaleness
  <2>. QED BY <2>4, <2>5, <2>6 DEF LoaderInv
<1>8. CASE Second
  <2>1. UNCHANGED <<pc, procVars, loadVars, enforcer, failed, gap, db, stamp>>
        /\ clock' = clock + 1
    BY <1>8 DEF Second
  <2>. QED BY <2>1, LoaderFrame DEF LoaderInv, Seconds
<1>9. CASE Crash
  <2>1. /\ pc' = "down" /\ updated' = 0 /\ lastUpdated' = 0 /\ buf' = {}
        /\ stamp' \in {0, stamp} /\ clock' = clock
    BY <1>9 DEF Crash, Return
  <2>. QED BY <2>1 DEF LoaderInv, Seconds, Fresh, LoadCurrent, NoSilentStaleness, Loading
<1>10. CASE UNCHANGED vars
  BY <1>10, LoaderFrame DEF vars, LoaderInv, Seconds
<1>. QED BY <1>1, <1>2, <1>3, <1>4, <1>5, <1>6, <1>7, <1>8, <1>9, <1>10 DEF Next

LEMMA InitInv == Init => IInv
<1>. SUFFICES ASSUME Init PROVE IInv
  OBVIOUS
<1>1. WritersInv
  BY PolicySyncAssumption DEF Init, WritersInv, OpsSound, CreatesDistinct, Active
<1>2. LoaderInv
  BY DEF Init, LoaderInv, Seconds, Fresh, LoadCurrent, NoSilentStaleness, Loading
<1>. QED BY InitTypes, <1>1, <1>2 DEF IInv

\* Between two loads, with no signal waiting, no commit that overtook its
\* signal and no role skipped, the enforcer is the policy of the tables.
THEOREM NeverSilentlyStale == Spec => []NoSilentStaleness
<1>1. IInv /\ [Next]_vars => IInv'
  BY NextTypes, WritersStep, LoaderStep DEF IInv
<1>2. IInv => NoSilentStaleness
  BY DEF IInv, LoaderInv
<1>. QED BY InitInv, <1>1, <1>2, PTL DEF Spec

-----------------------------------------------------------------------------
(* What a load gathers.                                                    *)

\* Tables committed meanwhile take nothing from what was found so far.
LEMMA GatherFrame ==
    ASSUME TypeInv, LoadInv, UNCHANGED <<pc, loadVars, failed>>,
           pc \in Loading => hist \subseteq hist' /\ db' \in hist'
    PROVE  LoadInv'
<1>. USE DEF loadVars, Loading, LoadInv
<1>1. Seen'
  BY DEF Seen
<1>2. ASSUME pc \in {"menus", "resources", "build"} PROVE GatherInv'
  <2>1. hist \subseteq hist' /\ Unread' = Unread
    BY <1>2 DEF Unread
  <2>2. \A r : WasEnabled(r) => WasEnabled(r)'
    BY <2>1 DEF WasEnabled
  <2>3. \A p : Founded(p) => Founded(p)'
    BY <2>1, <2>2 DEF Founded
  <2>4. \A r : Covered(r) => Covered(r)'
    BY <2>1 DEF Covered
  <2>. QED BY <1>2, <2>1, <2>2, <2>3, <2>4 DEF GatherInv
<1>. QED BY <1>1, <1>2 DEF GatherInv

\* The three reads of a load.
LEMMA ReadsGather ==
    ASSUME TypeInv, Fresh, LoadInv, QueryRoles \/ QueryMenus \/ QueryResources
    PROVE  LoadInv'
<1>. USE DEF loadVars, storeVars, procVars, LoadInv, Loading
<1>0. db \in DB
  BY DEF TypeInv, TypeOK
<1>1. CASE QueryRoles
  <2>1. CASE EnabledRoles(db) = {}
    BY <1>1, <2>1 DEF QueryRoles, Loaded, Seen, GatherInv
  <2>2. CASE EnabledRoles(db) # {}
    <3>1. /\ pc = "roles" /\ pc' = "menus" /\ todo' = EnabledRoles(db)
          /\ UNCHANGED <<db, buf, hist, failed>> /\ db \in hist /\ buf = {} /\ failed = {}
      BY <1>1, <2>2 DEF QueryRoles, Seen, Fresh
    <3>2. \A r : r \notin EnabledRoles(db) => Covered(r)'
      BY <3>1 DEF Covered
    <3>. QED BY <3>1, <3>2 DEF Seen, GatherInv, WasEnabled, Unread
  <2>. QED BY <2>1, <2>2
<1>2. CASE QueryMenus
  <2>1. PICK r \in todo :
          /\ todo' = todo \ {r}
          /\ IF MenuIDs(db, r) # {}
             THEN pc' = "resources" /\ cur' = r /\ ids' = MenuIDs(db, r)
             ELSE UNCHANGED <<pc, cur, ids>>
    BY <1>2 DEF QueryMenus
  <2>2. pc = "menus" /\ UNCHANGED <<db, buf, hist, failed>> /\ db \in hist
    BY <1>2 DEF QueryMenus, Seen
  <2>3. /\ \A q : WasEnabled(q)' <=> WasEnabled(q)
        /\ \A p : Founded(p)' <=> Founded(p)
        /\ \A q : Covered(q)' <=> Covered(q)
    BY <2>2 DEF WasEnabled, Founded, Covered
  <2>4. CASE MenuIDs(db, r) # {}
    <3>1. pc' = "resources" /\ cur' = r /\ ids' = MenuIDs(db, r) /\ Unread' = Unread
      BY <2>1, <2>2, <2>4 DEF Unread
    <3>. QED BY <2>1, <2>2, <2>3, <2>4, <3>1 DEF Seen, GatherInv
  <2>5. CASE MenuIDs(db, r) = {}
    <3>1. pc' = "menus" /\ Unread \subseteq Unread' \cup {r}
      BY <2>1, <2>2, <2>5 DEF Unread
    <3>2. Covered(r)
      BY <2>2, <2>5 DEF Covered
    <3>. QED BY <2>1, <2>2, <2>3, <3>1, <3>2 DEF Seen, GatherInv
  <2>. QED BY <2>4, <2>5
<1>3. CASE QueryResources
  <2>1. /\ pc = "resources" /\ pc' = "menus" /\ cur \in Role
        /\ buf' = buf \cup ({cur} \X Resources(db, ids))
        /\ UNCHANGED <<db, todo, hist, failed>> /\ db \in hist
    BY <1>3 DEF QueryResources, Seen, TypeInv
  <2>2. /\ WasEnabled(cur) /\ ids # {}
        /\ \A q : WasEnabled(q)' <=> WasEnabled(q)
        /\ \A p : Founded(p)' <=> Founded(p)
    BY <2>1 DEF GatherInv, WasEnabled, Founded
  <2>3. PICK d \in hist : ids = MenuIDs(d, cur)
    BY <2>1 DEF GatherInv
  <2>4. Resources(db, ids) = UNION {db.res[m] : m \in ids}
    BY <2>2 DEF Resources
  <2>5. ASSUME NEW p \in {cur} \X Resources(db, ids) PROVE Founded(p)
    <3>1. PICK m \in ids : p[2] \in db.res[m]
      BY <2>4, <2>5
    <3>. QED BY <2>1, <2>2, <2>3, <2>5, <3>1 DEF Founded
  <2>6. ASSUME NEW r, r = cur PROVE Covered(r)'
    <3>1. ASSUME NEW m \in Menu, NEW x \in Resource,
                 \A e \in hist : m \in MenuIDs(e, r) /\ x \in e.res[m]
          PROVE  <<r, x>> \in buf'
      <4>1. m \in ids /\ x \in db.res[m]
        BY <2>1, <2>3, <2>6, <3>1
      <4>. QED BY <2>1, <2>4, <2>6, <4>1
    <3>. QED BY <2>1, <3>1 DEF Covered
  <2>7. \A r : Covered(r) => Covered(r)'
    BY <2>1 DEF Covered
  <2>8. Unread \subseteq Unread' \cup {cur}
    BY <2>1 DEF Unread
  <2>9. \A p \in buf' : Founded(p)'
    BY <2>1, <2>2, <2>5 DEF GatherInv
  <2>10. \A r \in Role \ Unread' : Covered(r)'
    BY <2>1, <2>6, <2>7, <2>8 DEF GatherInv
  <2>. QED BY <2>1, <2>2, <2>9, <2>10 DEF Seen, GatherInv
<1>. QED BY <1>1, <1>2, <1>3

LEMMA GatherStep == IInv /\ LoadInv /\ [Next]_vars => LoadInv'
<1>. SUFFICES ASSUME IInv, LoadInv, [Next]_vars PROVE LoadInv'
  OBVIOUS
<1>. USE DEF IInv, loadVars, storeVars, procVars, Loading
<1>1. ASSUME NEW w \in Writer, Write(w) PROVE LoadInv'
  <2>1. CASE \/ RoleCreate(w) \/ RoleUpdate(w) \/ RoleDelete(w)
             \/ MenuCreate(w) \/ MenuUpdate(w) \/ MenuDelete(w)
    BY <2>1, BeginWellFormed, GatherFrame DEF Begin, LoadInv, Seen
  <2>2. CASE WriteRows(w) \/ SyncToCasbin(w) \/ Rollback(w)
    BY <2>2, GatherFrame DEF WriteRows, SyncToCasbin, Rollback, LoadInv, Seen
  <2>3. CASE Commit(w)
    <3>1. UNCHANGED <<pc, loadVars, failed>> /\ (pc \in Loading => hist' = hist \cup {db'})
      BY <2>3 DEF Commit
    <3>. QED BY <3>1, GatherFrame
  <2>. QED BY <1>1, <2>1, <2>2, <2>3 DEF Write
<1>2. CASE QueryRoles \/ QueryMenus \/ QueryResources
  BY <1>2, ReadsGather DEF LoaderInv
<1>3. CASE Gathered
  BY <1>3 DEF Gathered, LoadInv, Seen, GatherInv, WasEnabled, Founded, Covered, Unread
<1>4. CASE Boot \/ Tick
  BY <1>4 DEF Boot, Tick, StartLoad, LoadInv, Seen, GatherInv
<1>5. CASE Store \/ QueryRolesFails \/ StoreFails \/ Crash
  <2>1. pc' \in {"idle", "down"}
    BY <1>5 DEF Store, Loaded, QueryRolesFails, StoreFails, LoadFailed, Crash
  <2>. QED BY <2>1 DEF LoadInv, Seen, GatherInv
<1>6. CASE SkipRole
  <2>1. /\ pc \in {"menus", "resources"} /\ pc' = "menus"
        /\ UNCHANGED <<db, buf, hist>> /\ todo' \subseteq todo /\ Unread' = Unread
    BY <1>6 DEF SkipRole, Unread
  <2>. QED BY <2>1 DEF LoadInv, Seen, GatherInv, WasEnabled, Founded, Covered
<1>7. CASE InitFromFile
  <2>1. UNCHANGED <<pc, loadVars, failed>>
    BY <1>7 DEF InitFromFile
  <2>2. pc \in Loading => hist \subseteq hist' /\ db' \in hist'
    BY <1>7 DEF InitFromFile, LoadInv, Seen
  <2>. QED BY <2>1, <2>2, GatherFrame
<1>8. CASE Second \/ UNCHANGED vars
  BY <1>8, GatherFrame DEF Second, vars, LoadInv, Seen
<1>. QED BY <1>1, <1>2, <1>3, <1>4, <1>5, <1>6, <1>7, <1>8 DEF Next, Load

LEMMA Inductive == Spec => [](IInv /\ LoadInv)
<1>1. Init => LoadInv
  BY DEF Init, LoadInv, Seen, GatherInv, Loading
<1>2. IInv /\ LoadInv /\ [Next]_vars => (IInv /\ LoadInv)'
  BY NextTypes, WritersStep, LoaderStep, GatherStep DEF IInv
<1>. QED BY InitInv, <1>1, <1>2, PTL DEF Spec

\* Each line a load gathers rests on rows committed while it ran.
THEOREM LoadsAreSound == Spec => []LoadSound
<1>1. LoadInv => LoadSound
  BY DEF LoadInv, GatherInv, LoadSound, Founded, WasEnabled
<1>. QED BY Inductive, <1>1, PTL

\* A right that held all through a load is gathered, unless its role was skipped.
THEOREM LoadsAreComplete == Spec => []LoadComplete
<1>1. LoadInv => LoadComplete
  <2>. SUFFICES ASSUME LoadInv, pc = "build", NEW r \in Role \ failed PROVE Covered(r)
    BY DEF LoadComplete, Covered
  <2>1. r \notin Unread
    BY DEF LoadInv, GatherInv, Unread
  <2>. QED BY <2>1 DEF LoadInv, GatherInv
<1>. QED BY Inductive, <1>1, PTL

=============================================================================
