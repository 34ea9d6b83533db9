------------------------------ MODULE PolicySync ------------------------------
(***************************************************************************)
(* How a change of roles and menus reaches the Casbin enforcer.            *)
(*                                                                         *)
(* Writers are the request goroutines of biz/role.biz.go and               *)
(* biz/menu.biz.go.  Each reads what its checks need, opens a transaction, *)
(* writes its rows, stores the current second under "sync:casbin" in the   *)
(* cache while the transaction is still open, and commits.                 *)
(*                                                                         *)
(* The loader is the Casbinx of one process (casbin.go): Load builds the   *)
(* first enforcer at boot, then the autoLoad goroutine compares the cached *)
(* second with the last one it has handled and rebuilds the enforcer from  *)
(* several separate reads of the committed tables.  A load error of one    *)
(* role skips that role, any other error abandons the load.                *)
(***************************************************************************)
EXTENDS RbacStore

CONSTANTS Writer,           \* request goroutines that change roles and menus
          Nil,              \* no operation, no role
          InitDBs,          \* the tables found at start up
          RoleForms,        \* role forms: [status, menus]
          MenuForms,        \* menu forms: [status, res]
          MenuFile,         \* the entries of General.MenuFile
          DenyOperateMenu,  \* General.DenyOperateMenu
          MaxOps,           \* bound: operations begun
          MaxClock,         \* bound: seconds that pass
          MaxFaults         \* bound: failed reads, failed writes and crashes

VARIABLES
    db,           \* the committed tables
    stamp,        \* the cached value of "sync:casbin", 0 when there is none
    clock,        \* time.Now().Unix()
    wpc, op,      \* each writer's program counter and operation
    pc,           \* where the loader is
    fileDone,     \* this process has been through InitFromFile
    lastUpdated,  \* the last second autoLoad has handled
    updated,      \* the second that started the present load, 0 at boot
    todo,         \* enabled roles not yet read by the present load
    cur, ids,     \* the role being read and its menu identifiers
    buf,          \* the policy lines gathered so far
    enforcer,     \* the policy of the stored enforcer, {} when it is nil
    failed,       \* history: roles the last load skipped
    gap,          \* history: see Commit and InitFromFile
    hist,         \* history: the committed tables since the load began
    ops, faults   \* counters of the bounds

storeVars == <<db, stamp, clock>>
procVars == <<fileDone, lastUpdated, updated>>
loadVars == <<todo, cur, ids, buf>>
vars == <<db, stamp, clock, wpc, op, pc, fileDone, lastUpdated, updated,
          todo, cur, ids, buf, enforcer, failed, gap, hist, ops, faults>>

Rule == Role \X Resource
Loading == {"roles", "menus", "resources", "build"}

\* The operation of a request, with the outcome of the reads made before its
\* transaction and the rows it will lock.
RoleOp == [kind : {"role.create", "role.update", "role.delete"}, role : Role,
           status : Status, menus : SUBSET Menu, rows : SUBSET (Role \cup Menu)]
MenuOp == [kind : {"menu.create", "menu.update", "menu.delete"}, menu : Menu,
           status : Status, res : SUBSET Resource, below : SUBSET Menu,
           rows : SUBSET (Role \cup Menu)]

\* No row refers to a menu before it exists.
UnbornUnused(d) ==
    \A m \in Menu : d.menu[m] = "unborn" =>
        /\ d.res[m] = {}
        /\ \A r \in Role : m \notin d.roleMenu[r]
        /\ \A n \in Below(m) : d.menu[n] = "unborn"

ASSUME PolicySyncAssumption ==
    /\ InitDBs \subseteq DB
    /\ RoleForms \subseteq [status : Status, menus : SUBSET Menu]
    /\ MenuForms \subseteq [status : Status, res : SUBSET Resource]
    /\ DOMAIN MenuFile \subseteq Menu
    /\ \A m \in DOMAIN MenuFile : MenuFile[m] \in [status : Status, res : SUBSET Resource]
    /\ \A m \in DOMAIN MenuFile : Anc[m] \subseteq DOMAIN MenuFile
    /\ DenyOperateMenu \in BOOLEAN
    /\ MaxOps \in Nat /\ MaxClock \in Nat \ {0} /\ MaxFaults \in Nat
    /\ \A d \in InitDBs : UnbornUnused(d)

-----------------------------------------------------------------------------

Init ==
    /\ db \in InitDBs
    /\ stamp = 0 /\ clock = 1
    /\ wpc = [w \in Writer |-> "idle"]
    /\ op = [w \in Writer |-> Nil]
    /\ pc = "down" /\ fileDone = FALSE /\ lastUpdated = 0 /\ updated = 0
    /\ todo = {} /\ cur = Nil /\ ids = {} /\ buf = {}
    /\ enforcer = {} /\ failed = {}
    /\ gap = FALSE /\ hist = {}
    /\ ops = 0 /\ faults = 0

-----------------------------------------------------------------------------
(* Writers.                                                                *)

\* No open transaction is about to insert the row x: identifiers are fresh.
Unclaimed(x) == \A v \in Writer : wpc[v] # "idle" => x \notin op[v].rows

\* The checks before the transaction passed; o is what they decided.
Begin(w, o) ==
    /\ wpc[w] = "idle"
    /\ ops < MaxOps
    /\ ops' = ops + 1
    /\ wpc' = [wpc EXCEPT ![w] = "ready"]
    /\ op' = [op EXCEPT ![w] = o]
    /\ UNCHANGED <<storeVars, pc, procVars, loadVars,
                   enforcer, failed, gap, hist, faults>>

BeginRole(w, kind, r) ==
    \E f \in RoleForms :
        /\ \A m \in f.menus : db.menu[m] # "unborn"
        /\ Begin(w, [kind |-> kind, role |-> r, status |-> f.status,
                     menus |-> f.menus, rows |-> {r}])

RoleCreate(w) ==
    \E r \in Role : /\ db.role[r] = "unborn" /\ Unclaimed(r)
                    /\ BeginRole(w, "role.create", r)

RoleUpdate(w) ==
    \E r \in Role : db.role[r] \in Status /\ BeginRole(w, "role.update", r)

RoleDelete(w) ==
    \E r \in Role :
        /\ db.role[r] \in Status
        /\ Begin(w, [kind |-> "role.delete", role |-> r, status |-> "disabled",
                     menus |-> {}, rows |-> {r}])

\* The parent is looked up before the transaction.  The rows of the menu file
\* are InitFromFile's to make.
MenuCreate(w) ==
    /\ ~DenyOperateMenu
    /\ \E m \in Menu, f \in MenuForms :
         /\ db.menu[m] = "unborn" /\ Unclaimed(m) /\ m \notin DOMAIN MenuFile
         /\ Parent[m] # Root => db.menu[Parent[m]] \in Status
         /\ Begin(w, [kind |-> "menu.create", menu |-> m, status |-> f.status,
                      res |-> f.res, below |-> {}, rows |-> {m}])

\* Whether the status changes, and so spreads to the menus below, is decided
\* from the row read before the transaction.
MenuUpdate(w) ==
    /\ ~DenyOperateMenu
    /\ \E m \in Menu, f \in MenuForms :
         LET spread == IF db.menu[m] # f.status THEN Below(m) ELSE {} IN
         /\ db.menu[m] \in Status
         /\ Begin(w, [kind |-> "menu.update", menu |-> m, status |-> f.status,
                      res |-> f.res, below |-> spread, rows |-> {m} \cup spread])

\* The descendants to delete are listed before the transaction.
MenuDelete(w) ==
    /\ ~DenyOperateMenu
    /\ \E m \in Menu :
         LET children == Live(db, Below(m)) IN
         /\ db.menu[m] \in Status
         /\ Begin(w, [kind |-> "menu.delete", menu |-> m, status |-> "disabled",
                      res |-> {}, below |-> children, rows |-> {m} \cup children])

\* The statements of the transaction; a row another open transaction has
\* written is locked until that transaction ends.
WriteRows(w) ==
    /\ wpc[w] = "ready"
    /\ \A v \in Writer \ {w} :
         wpc[v] \in {"written", "synced"} => op[v].rows \cap op[w].rows = {}
    /\ wpc' = [wpc EXCEPT ![w] = "written"]
    /\ UNCHANGED <<storeVars, op, pc, procVars, loadVars,
                   enforcer, failed, gap, hist, ops, faults>>

\* Mutant: Role.Delete without its call of syncToCasbin.
SyncsExceptRoleDelete(o) == o.kind \notin {"menu.create", "role.delete"}

\* Every operation but Menu.Create ends with syncToCasbin.
Syncs(o) == o.kind # "menu.create"

\* Mutant: another unit than the clock the loader's bound is read in.
SyncToCasbinInMillis(w) ==
    /\ wpc[w] = "written"
    /\ Syncs(op[w])
    /\ stamp' = clock * 1000
    /\ wpc' = [wpc EXCEPT ![w] = "synced"]
    /\ UNCHANGED <<db, clock, op, pc, procVars, loadVars,
                   enforcer, failed, gap, hist, ops, faults>>

\* Role.syncToCasbin and Menu.syncToCasbin, inside the open transaction.
SyncToCasbin(w) ==
    /\ wpc[w] = "written"
    /\ Syncs(op[w])
    /\ stamp' = clock
    /\ wpc' = [wpc EXCEPT ![w] = "synced"]
    /\ UNCHANGED <<db, clock, op, pc, procVars, loadVars,
                   enforcer, failed, gap, hist, ops, faults>>

\* The second up to which the loader takes signals for handled.
Consumed == IF pc \in Loading THEN updated ELSE lastUpdated

Finish(w) ==
    /\ wpc' = [wpc EXCEPT ![w] = "idle"]
    /\ op' = [op EXCEPT ![w] = Nil]

\* The transaction commits.  gap records that this happened although the
\* signal it had sent was taken for handled already, or (InitFromFile)
\* that no signal was sent.
Commit(w) ==
    /\ wpc[w] = "synced" \/ (wpc[w] = "written" /\ ~Syncs(op[w]))
    /\ db' = Effect(db, op[w])
    /\ gap' = (gap \/ (Syncs(op[w]) /\ stamp <= Consumed))
    /\ hist' = IF pc \in Loading THEN hist \cup {db'} ELSE hist
    /\ Finish(w)
    /\ UNCHANGED <<stamp, clock, pc, procVars, loadVars,
                   enforcer, failed, ops, faults>>

\* Any statement, the cache or the commit itself may fail.
Rollback(w) ==
    /\ wpc[w] # "idle"
    /\ faults < MaxFaults
    /\ faults' = faults + 1
    /\ Finish(w)
    /\ UNCHANGED <<storeVars, pc, procVars, loadVars,
                   enforcer, failed, gap, hist, ops>>

-----------------------------------------------------------------------------
(* The loader.  Load runs at boot (updated = 0), then autoLoad runs load   *)
(* each time it finds a newer second.                                      *)

StartLoad(second) ==
    /\ pc' = "roles"
    /\ updated' = second
    /\ failed' = {}
    /\ gap' = FALSE
    /\ hist' = {db}

\* A process starts with a nil enforcer and has handled no signal.
Boot ==
    /\ pc = "down"
    /\ StartLoad(0)
    /\ lastUpdated' = 0
    /\ fileDone' = FALSE
    /\ enforcer' = {}
    /\ UNCHANGED <<storeVars, wpc, op, loadVars, ops, faults>>

\* A tick that finds no value, or one already handled, changes nothing.
Tick ==
    /\ pc = "idle"
    /\ lastUpdated < stamp
    /\ StartLoad(stamp)
    /\ UNCHANGED <<storeVars, wpc, op, fileDone, lastUpdated, loadVars, enforcer, ops, faults>>

\* The variables of load are gone when it returns.
Return ==
    /\ updated' = 0
    /\ todo' = {} /\ cur' = Nil /\ ids' = {} /\ buf' = {}
    /\ hist' = {}

\* Mutant: the second is read again after the load.
LoadedWithLatest ==
    /\ pc' = "idle"
    /\ lastUpdated' = stamp
    /\ Return

\* load returned nil: autoLoad remembers the second it had read before.
Loaded ==
    /\ pc' = "idle"
    /\ lastUpdated' = updated
    /\ Return

\* load returned an error: at boot the process exits, later autoLoad will
\* try again at the next tick.
LoadFailed ==
    /\ faults < MaxFaults
    /\ faults' = faults + 1
    /\ pc' = IF updated = 0 THEN "down" ELSE "idle"
    /\ Return
    /\ UNCHANGED <<storeVars, wpc, op, fileDone, lastUpdated,
                   enforcer, failed, gap, ops>>

\* The first query; without an enabled role load returns at once and the
\* enforcer stays what it was.
QueryRoles ==
    /\ pc = "roles"
    /\ \/ /\ EnabledRoles(db) # {}
          /\ todo' = EnabledRoles(db)
          /\ pc' = "menus"
          /\ UNCHANGED <<lastUpdated, updated, cur, ids, buf, hist>>
       \/ /\ EnabledRoles(db) = {}
          /\ Loaded
    /\ UNCHANGED <<storeVars, wpc, op, fileDone, enforcer, failed, gap, ops, faults>>

QueryRolesFails == pc = "roles" /\ LoadFailed

\* Mutant: without the early return for a role that reaches no menu.
QueryMenusUnguarded ==
    /\ pc = "menus"
    /\ \E r \in todo :
         /\ todo' = todo \ {r}
         /\ pc' = "resources" /\ cur' = r /\ ids' = MenuIDs(db, r)
    /\ UNCHANGED <<storeVars, wpc, op, procVars, buf, enforcer,
                   failed, gap, hist, ops, faults>>

\* Mutant: the parent paths of the granted menus are forgotten.
QueryMenusWithoutParents ==
    /\ pc = "menus"
    /\ \E r \in todo :
         /\ todo' = todo \ {r}
         /\ IF MenuIDs(db, r) # {}
            THEN /\ pc' = "resources" /\ cur' = r
                 /\ ids' = MenuIDs(db, r) \cap db.roleMenu[r]
            ELSE UNCHANGED <<pc, cur, ids>>
    /\ UNCHANGED <<storeVars, wpc, op, procVars, buf, enforcer,
                   failed, gap, hist, ops, faults>>

\* queryRoleResources, first query: the menus of the next role.
QueryMenus ==
    /\ pc = "menus"
    /\ \E r \in todo :
         /\ todo' = todo \ {r}
         /\ IF MenuIDs(db, r) # {}
            THEN pc' = "resources" /\ cur' = r /\ ids' = MenuIDs(db, r)
            ELSE UNCHANGED <<pc, cur, ids>>
    /\ UNCHANGED <<storeVars, wpc, op, procVars, buf, enforcer,
                   failed, gap, hist, ops, faults>>

\* queryRoleResources, second query: the resources of those menus; the
\* worker pool adds one line for each to the buffer.
QueryResources ==
    /\ pc = "resources"
    /\ buf' = buf \cup ({cur} \X Resources(db, ids))
    /\ pc' = "menus" /\ cur' = Nil /\ ids' = {}
    /\ UNCHANGED <<storeVars, wpc, op, procVars, todo, enforcer, failed, gap, hist, ops, faults>>

\* An error of either query is logged and the role is skipped.
SkipRole ==
    /\ faults < MaxFaults
    /\ faults' = faults + 1
    /\ \/ /\ pc = "menus"
          /\ \E r \in todo : todo' = todo \ {r} /\ failed' = failed \cup {r}
       \/ /\ pc = "resources"
          /\ failed' = failed \cup {cur}
          /\ UNCHANGED todo
    /\ pc' = "menus" /\ cur' = Nil /\ ids' = {}
    /\ UNCHANGED <<storeVars, wpc, op, procVars, buf, enforcer, gap, hist, ops>>

\* Every role is read and the workers are done.
Gathered ==
    /\ pc = "menus" /\ todo = {}
    /\ pc' = "build"
    /\ UNCHANGED <<storeVars, wpc, op, procVars, loadVars, enforcer,
                   failed, gap, hist, ops, faults>>

\* Without a single line no file is written and the enforcer stays.
Store ==
    /\ pc = "build"
    /\ enforcer' = IF buf # {} THEN buf ELSE enforcer
    /\ Loaded
    /\ UNCHANGED <<storeVars, wpc, op, fileDone, failed, gap, ops, faults>>

\* The file cannot be written or the enforcer not be made from it.
StoreFails == pc = "build" /\ buf # {} /\ LoadFailed

\* RBAC.Init goes on with the menu file when Load has returned.  One
\* transaction, and no signal after it; a failure is logged and forgotten.
InitFromFile ==
    /\ ~fileDone
    /\ pc = "idle" \/ (pc \in Loading /\ updated > 0)
    /\ fileDone' = TRUE
    /\ \/ /\ \A w \in Writer : wpc[w] \in {"written", "synced"} =>
                                op[w].rows \cap DOMAIN MenuFile = {}
          /\ db' = ApplyMenuFile(db, MenuFile)
          /\ gap' = (gap \/ db' # db)
          /\ hist' = IF pc \in Loading THEN hist \cup {db'} ELSE hist
          /\ UNCHANGED faults
       \/ /\ faults < MaxFaults
          /\ faults' = faults + 1
          /\ UNCHANGED <<db, gap, hist>>
    /\ UNCHANGED <<stamp, clock, wpc, op, pc, lastUpdated, updated, loadVars,
                   enforcer, failed, ops>>

-----------------------------------------------------------------------------
(* The environment.                                                        *)

Second ==
    /\ clock < MaxClock
    /\ clock' = clock + 1
    /\ UNCHANGED <<db, stamp, wpc, op, pc, procVars, loadVars,
                   enforcer, failed, gap, hist, ops, faults>>

\* The process dies: its open transactions roll back.  With the memory
\* store the cache is gone and every writer was in this process; with
\* redis the cache stays and other processes' writers live on.
Crash ==
    /\ pc # "down"
    /\ faults < MaxFaults
    /\ faults' = faults + 1
    /\ pc' = "down"
    /\ enforcer' = {} /\ lastUpdated' = 0 /\ fileDone' = FALSE
    /\ failed' = {} /\ gap' = FALSE
    /\ Return
    /\ \E dead \in SUBSET Writer :
         /\ wpc' = [w \in Writer |-> IF w \in dead THEN "idle" ELSE wpc[w]]
         /\ op' = [w \in Writer |-> IF w \in dead THEN Nil ELSE op[w]]
         /\ stamp' \in IF dead = Writer THEN {0, stamp} ELSE {stamp}
    /\ UNCHANGED <<db, clock, ops>>

-----------------------------------------------------------------------------

Write(w) ==
    \/ RoleCreate(w) \/ RoleUpdate(w) \/ RoleDelete(w)
    \/ MenuCreate(w) \/ MenuUpdate(w) \/ MenuDelete(w)
    \/ WriteRows(w) \/ SyncToCasbin(w) \/ Commit(w) \/ Rollback(w)

\* The steps of load that need no failure.
Load == QueryRoles \/ QueryMenus \/ QueryResources \/ Gathered \/ Store

Next ==
    \/ \E w \in Writer : Write(w)
    \/ Boot \/ InitFromFile \/ Tick \/ Load
    \/ QueryRolesFails \/ SkipRole \/ StoreFails
    \/ Second \/ Crash

Spec == Init /\ [][Next]_vars

\* The ticker fires again and again and a started load goes on; nothing is
\* assumed of the writers, the clock or whoever restarts the process.
FairSpec == Spec /\ WF_vars(Tick) /\ WF_vars(Load)

-----------------------------------------------------------------------------
(* Properties.                                                             *)

TypeOK ==
    /\ db \in DB
    /\ stamp \in 0..MaxClock /\ clock \in 1..MaxClock
    /\ wpc \in [Writer -> {"idle", "ready", "written", "synced"}]
    /\ op \in [Writer -> RoleOp \cup MenuOp \cup {Nil}]
    /\ pc \in Loading \cup {"down", "idle"}
    /\ fileDone \in BOOLEAN
    /\ lastUpdated \in 0..MaxClock /\ updated \in 0..MaxClock
    /\ todo \subseteq Role /\ cur \in Role \cup {Nil} /\ ids \subseteq Menu
    /\ buf \subseteq Rule /\ enforcer \subseteq Rule
    /\ failed \subseteq Role
    /\ gap \in BOOLEAN
    /\ hist \subseteq DB
    /\ ops \in 0..MaxOps /\ faults \in 0..MaxFaults

\* Between loads, with no signal waiting, the stored enforcer is exactly the
\* policy of the committed tables: a change is never silently missed.  The
\* code fails to give this in three cases only, which the model tells apart:
\* a transaction that committed after its signal was handled or a menu file
\* applied without one (gap), a role skipped by the last load (failed), and
\* tables that grant nothing, which leave the old enforcer in place.
NoSilentStaleness ==
    pc = "idle" /\ stamp <= lastUpdated /\ ~gap /\ failed = {} =>
        enforcer = Policy(db) \/ Policy(db) = {}

\* The several reads of one load are not a snapshot, but each line they
\* give rests on rows that were committed while the load ran: the role was
\* enabled, the menu was reachable for it, and the menu had the resource.
LoadSound ==
    pc = "build" => \A p \in buf :
        /\ \E d \in hist : p[1] \in EnabledRoles(d)
        /\ \E d, e \in hist : \E m \in MenuIDs(d, p[1]) : p[2] \in e.res[m]

\* A right that holds all through a load is in the policy it makes, unless
\* a query of that role failed.
LoadComplete ==
    pc = "build" => \A r \in Role \ failed, m \in Menu, x \in Resource :
        (\A d \in hist : r \in EnabledRoles(d) /\ m \in MenuIDs(d, r) /\ x \in d.res[m])
            => <<r, x>> \in buf

\* When the changes stop, the enforcer settles on the policy of the tables,
\* with the same three exceptions.
EventuallyEnforced ==
    <>[](\/ pc = "down" \/ gap \/ failed # {} \/ Policy(db) = {}
         \/ enforcer = Policy(db))

\* The same for the tables that grant nothing: what is revoked is revoked.
RevocationsReachEnforcer ==
    <>[](pc = "down" \/ gap \/ failed # {} \/ enforcer \subseteq Policy(db))

\* What "dynamic permission management" (README_EN.md:26) asks of a change
\* that leaves something granted: it reaches the enforcer in the end.
ChangesReachEnforcer ==
    <>[](pc = "down" \/ Policy(db) = {} \/ enforcer = Policy(db))

=============================================================================
