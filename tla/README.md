# Formal verification of gin-admin

TLA+ models of the parts of gin-admin that keep state which several goroutines,
processes or requests share, TLC configurations that check them on small
instances, and TLAPS proofs of the most important results for instances of any
size. The models are translated from the Go source; `PROJECT.json` maps each
definition to the lines it stands for and lists components, runs, hazards,
findings and theorems.

```
tlc -workers 2 -config MCPolicySync.cfg MCPolicySync.tla     # model checking
tlapm PolicySyncProofs.tla                                   # proofs
```

## 1. Inventory

gin-admin is an RBAC administration server: menus carry the HTTP resources they
grant, roles are granted menus, users have roles. Casbin decides each request by
a policy derived from those tables.

| Component | State it keeps | Operations | Talks to | What is hard | What makes it correct |
|---|---|---|---|---|---|
| Casbin policy loader (`internal/mods/rbac/casbin.go`) | the stored enforcer, `lastUpdated` | `Load`, `load`, `queryRoleResources`, `autoLoad`, `Release` | role and menu tables, the cache (`sync:casbin`) | several reads without a snapshot, signals in whole seconds, loads that fail in part, restart | the enforcer becomes the policy of the committed tables, and never claims to be when it is not |
| Role management (`biz/role.biz.go`, `dal/role*.go`) | role and grant rows | `Create`, `Update`, `Delete`, queries | transactions, cache | signal before commit, rows deleted meanwhile | each change is signalled; grants end with their role |
| Menu management (`biz/menu.biz.go`, `dal/menu*.go`) | menu and resource rows, parents and paths | `InitFromFile`, `Create`, `Update`, `Delete`, queries | transactions, cache | reads before the transaction, paths kept twice (parent and full path), whole subtrees | the path is that of the parent, codes are unique on a level, a status reaches all menus below |
| Login and tokens (`biz/login.biz.go`, `pkg/jwtx`) | destroyed tokens | `ParseUserID`, `Login`, `RefreshToken`, `Logout`, `UpdatePassword`, ... | user rows, user cache, token store | reads that fill a cache while a change commits, expiry, restart | logged out means refused; nobody is let in on rights he never had |
| User management (`biz/user.biz.go`, `dal/user*.go`) | user rows, roles of a user, cache entries | `Create`, `Update`, `Delete`, `ResetPassword`, queries | transactions, cache | invalidation before commit, whole rows written back | a cached user is activated and has the cached roles |
| Caches (`pkg/cachex`, `pkg/jwtx`) | keys with an expiry | `Set`, `Get`, `GetAndDelete`, `Exists`, `Delete`, `Iterator`, `Close` | used by all of the above | three implementations, calls of several round trips, expiry | all three keep the promise of one interface |
| Transactions (`pkg/util/db.go`) | the open transaction of a context | `Trans.Exec` | database | early signals, rollback | all or nothing |
| Log hook (`pkg/logging/hook.go`) | buffered channel, workers, the flag `closed` | `Write`, `dispatch`, `Flush` | every goroutine that logs, the log table | sends that overlap the close, dead workers, full channel | nothing accepted is lost, nobody waits for ever |
| Bootstrap and shutdown (`internal/bootstrap`, `internal/wirex`, `cmd`, `pkg/util/command.go`) | the running server, open stores, port, lock file | `start`, `stop`, `Run`, `startHTTPServer`, clean-ups | all, and other processes | handlers that outlive the shutdown timeout, two processes at once | resources close after their users, `stop` ends the process |
| Rate limiter (`pkg/middleware/ratelimiter.go`) | a limiter per client | `Allow` | cache or redis | look-up and insert in two steps, integer rates | no more requests than allowed, but for the two cases it does not count |
| Permission check (`pkg/middleware/casbin.go`) | the enforcer it took | per request | enforcer, roles of the request | the enforcer is replaced meanwhile | one policy decides about all roles |
| Other middleware and handlers (`internal/bootstrap/http.go`, `pkg/middleware`, `internal/mods/rbac/api`, `pkg/util/gin.go`) | the request's context and reply | per request | each other, in order | panics, early answers, the way back | one reply, logged for the right user |
| Captcha, log queries, configuration, injection, metrics, mail, object storage, crypto, API documents | none that is shared, or held by a library | | | | |

How they interact: a request passes the auth middleware (token, `ParseUserID`,
user cache), the rate limiter and the Casbin middleware, and then one handler
calls one `biz` operation. An operation reads what its checks need, and then
writes its rows in `Trans.Exec`. Inside that transaction, before it commits,
changes of roles and menus store a second under `sync:casbin`, and changes of
users delete the user's cache entry. Every process has an `autoLoad` goroutine
that compares that second with the last it has handled. At boot the policy is
loaded first, and the menu file is applied after that.

## 2. Modules

| Module | Models | Checked by | Proofs |
|---|---|---|---|
| `RbacStore` | the four RBAC tables, what a commit does to them, the policy they mean | through `PolicySync` | lemmas in `PolicySyncProofs` |
| `PolicySync` | writers, signal, loader, restart | `MCPolicySync` and three configurations | `PolicySyncProofs` |
| `PolicyGather` | abstract: gathering the policy is one step | `PolicyLoad` refines it | |
| `PolicyLoad` | the worker pool inside `load` | `MCPolicyLoad` | `PolicyLoadProofs` |
| `UserSession` | tokens, user cache, changes of users | `MCUserSession` and one violation | `UserSessionProofs` |
| `Accounts` | names, passwords and links of users and roles | `MCAccounts` | `AccountsProofs` |
| `MenuTree` | parents, paths, codes and status of menus; the menu file | `MCMenuTree` and one violation | `MenuTreeProofs` |
| `MenuQuery` | what the queries for menus answer | the same | `MenuTreeProofs` |
| `Cacher` | abstract: what the program asks of a cache | `CacheStore` refines it | |
| `CacheStore` | the caches in memory, redis and badger, with their iterators | `MCCacheStore` | `CacheStoreProofs` |
| `RateLimiter` | the buckets of clients in memory, the rate of the redis store | through `Pipeline` | `PipelineProofs` |
| `Routes` | the routes, their handlers, the codes of errors | through `Pipeline` | |
| `Pipeline` | a request through all middlewares to its handler and back | `MCPipeline` | `PipelineProofs` |
| `LogHook` | channel, workers and flush of the log | through `Lifecycle` | `LifecycleProofs` |
| `Lifecycle` | processes from start to exit, their stores, requests at the shutdown | `MCLifecycle` | `LifecycleProofs` |

`MenuQuery` extends `MenuTree`, `Pipeline` extends `RateLimiter` and `Routes`,
and `Lifecycle` extends `LogHook`: the same variables, so that what the one part
does meets what the other does at every interleaving.

`PolicySync` extends `RbacStore` and takes the gathering done by the worker pool
as part of the step `QueryResources`. `PolicyLoad` has the workers, the channel
and the lock instead of the tables, and is shown to implement `PolicyGather`,
which is all that `PolicySync` assumes of the pool: afterwards the buffer has
exactly the lines of the roles whose queries succeeded.

### RbacStore and PolicySync

`db` is the committed content of the tables; `Policy(db)` is what the Casbin
policy file would be, built as `queryRoleResources` does: enabled granted menus,
the identifiers on their parent paths whatever *their* status, and the resources
of all these. The empty-list case of the resource query (no filter, hence every
row) is in `Resources`, and the early return that prevents it in `RoleResources`
and `QueryMenus`.

A writer goes `idle`, `ready` (checks done, operation fixed), `written` (rows
locked), `synced` (signal stored), and commits or rolls back at any of them.
The loader is `down`, at one of the steps of `load` (`roles`, `menus`,
`resources`, `build`) or `idle` between two ticks. Each query of `load` is an
action, so commits fall between them. `SkipRole` is the logged error of one role,
`QueryRolesFails` and `StoreFails` abandon the load; at boot that ends the
process. `Crash` loses the enforcer; the signal is lost too when the cache was in
memory, in which case all writers were in that process.

`gap`, `failed` and `hist` are history: they record that a commit came after its
signal was taken for handled (or the menu file was applied without one), which
roles the last load skipped, and which tables were committed during it. Nothing
in the code's part of a guard reads them.

Abstractions: identifiers are fresh (`util.NewXID`), so a removed row stays
`"deleted"`; entries of the menu file are found by their code in the source,
here by their identifier; the tree of menus is fixed (moving is in `MenuTree`);
resources are model values; rows have the columns the loader reads.

### UserSession

`ParseSubject`, `CacheHit`, `CacheMiss`, `CheckStatus`, `ReadRoles`, `Fill` are
the steps of `ParseJWT` and `ParseUserID`; `Login`, `RefreshToken`,
`GenerateToken`, `DestroyToken` and `ForgetUser` those of the login operations.
Admins change users as writers do in `PolicySync`, with `CacheDelete` inside the
transaction. Removing a role takes it from all users and clears nothing.

A token is its subject and the seconds in which it is still accepted, the present
one included, which gives the code's identity of tokens: two issued to one subject
in one second are the same string. A tick is the begin of a second. The library
compares whole seconds, so a token is accepted through the second it expires in;
the record of its logout is stored for the time until that second begins
(`jwt.go:156`). In its last second, therefore, a token that was logged out is let in
again: `Elapse` ends records one tick before it ends tokens, and `DestroyToken`
of a token in its last second may leave no record at all. `left = 0` of a
cache entry is "no expiry", which is what `ParseUserID` passes. The exists-then-
delete of the redis and badger caches is one step: it cannot be told from a
delete at the moment of its second call. `raced` is history, set while a fill of
the cache overlaps a change between its invalidation and its commit.
The root user needs no row and no cache.

### MenuTree

Each query that `Create`, `Update` and `Delete` make before their transaction is
a step: the row itself, the new parent, the menus below, the code. The
transaction is one step, as its row locks serialise it. Paths are real
sequences, and `Under` is the prefix search the code makes with `LIKE`. `Saved`
keeps the code's order of writes: status along the old path, then the paths of
the listed menus, then the row as a whole.

`late`, `lateCode` and `slips` are history. A slip is named when an operation
commits although the tree it relies on, or its check of the code, is out of date
(`"late"`, `"late code"`), when it hangs a menu below itself, or when it takes a
code along to another level without a check (`"code kept"`).

The menu file is a sequence of items, each with its code, its status and the
item it is under. As in both files of the repository an item has a code and no id:
of the three ways in which the code looks for an item (`menu.biz.go:75`) the model
has the one by code and parent, and not those by id and by name. (An item
with an id would not be looked for by its code, and one without a code has none to
be unique.) `StartLoad` takes the table as it is when the transaction
opens and `CommitLoad` applies `Loaded`: what is missing is created, what is
there is written back whole, as read, if any column differs from the file. The
whole file is thus read from one snapshot. Columns that are left out (name,
path, sequence) are the choice `differ`. Facts that need no state: a later run
of the file sets a sequence that the file leaves out to zero, and enables
whatever was disabled unless the file says otherwise; it does not push a status
down, as `Update` does.

### MenuQuery

The answers of `Query` and `QueryMenus` are operators on the committed table,
translated query by query (`AppendChildren`, `SplitParentIDs`, `ToTree`), and
compared with what the parents alone say should be shown (`TreeOf`, `Above`,
`Below`). The order `sequence DESC, created_at DESC` is any of `Orders`; where two
rows tie, what comes last in an answer, its query or its sort, decides for the
whole answer. The several queries of one answer see one table.

The code finds what is above and below by paths and loops over lists of rows; the
loops are functions on the places of a list (`Pick`, `Sort`, `SplitParentIDs`,
`AppendChildren`), which can be reasoned about. What should be shown knows neither
paths nor loops: `Above` and `Drawn` are least sets that the parents, or the
lists of a tree, do not lead out of.

The run compares them on every table nobody is about to change and nothing has
broken (`Settled`); the proofs do so on every table nothing has broken (`Intact`),
also between the reads and the commit of a writer.

What the code does that one might not expect, and the properties are worded for:
a code path of two or more codes looks for all of them at the top
(`menu.biz.go:227`), so only paths of one code are promised to work; a code that
is not found is an error (`NotFound`), not an empty tree; a menu found by a code path is shown only if there is something below it; a user is
shown a disabled menu above an enabled one of his, while from the tree of the
root user everything below a disabled menu is missing.

### Accounts

One step reads and checks, a later one writes. `Save` writes every column of
the row as it was read, filled from the form; a row that was deleted meanwhile
is no error, and the links are written in either case. `WritePassword` is
`UpdatePasswordByID` and `WriteProfile` an update of four named columns. Users
and roles are two tables with the same operations, of which only users have a
password. A hash compares with its password and no other.

`userRoles` is the table of pairs of a user and a role, `roleMenus` the roles with
grants. The form of a user names any roles that are or were there, which nobody
looks up (`WriteLinks`); `Remove` takes a user's own pairs with him, and with a role
its grants and its pairs with users (`role.biz.go:169`). `late`, `stale` and
`missed` are history about requests under way, `clashed`, `reverted` and `orphaned`
about what they did, and `unchecked` has the pairs that were written when the role was
gone: the properties say that nothing goes wrong in another way.

### Cacher and CacheStore

`Cacher` is the interface as its callers may rely on it. Its one weakness is
named: `GetAndDelete` reads and removes at two moments, so two callers may be
given one value. `CacheStore` has the three implementations: one call of the
map, one round trip or one transaction is a step. `Delete` of redis and badger
looks first. `Iterator` runs on a copy in memory, on a snapshot in badger, and
in redis on pages of keys whose values are asked for one by one; of `SCAN` is
assumed what redis documents, that keys present throughout are returned at
least once. A failed round trip may have done its work or not. The store of
destroyed tokens (`pkg/jwtx/store.go`) is such a cache with a namespace.
What a call has come to keeps its operation, its key and its value in the mapping
(`AnswerOf`), so that each operation is matched by that operation of the interface.

Facts: badger stores an entry of expiration zero as one that has expired, the
others as one that never does; a closed memory cache forgets everything and
works on, the others then fail.

### Pipeline, RateLimiter and Routes

`pc` names the place of a request: `auth`, `limit`, `casbin`, `enforce` (one
step for each role), `endpoint`, `back`, `done`. `Arrive` is what precedes the
token: the health route, CORS, which answers a preflight request (204) and a
foreign origin (403) before either is logged, a body that is too long. `q` is the
context: the user, the roles, the enforcer that Casbin took, and the replies that
were written. `Handle` covers all handlers by their shape in `Routes` (what is
parsed, whether it is validated, what is answered). `Recover` is a panic, of a
handler before or after its reply, of Prometheus or of the log on the way back,
which skips the rest of it. `LoggerSkips` are the paths under
`Logger.SkippedPathPrefixes`, which are not logged (`Logged`). What
`ParseUserID` returns is a choice; `UserSession` says which it may be.

One limit stands for that of users and that of addresses. `Allow` of the memory
store is three steps without a lock (`Look`, `Use` or
`Create`, `Put`), the redis store is one call. In memory a tick is a second and
a request costs `period` units of a bucket, so that everything is an integer. The
redis store is the generic cell rate algorithm of redis_rate: with n the quotient
of limit and period, up to n requests pass at once and one more each 1/n of a
second. There a tick is that 1/n of a second, and `bucket` counts what a client
has used of his n. `Before` is what he had used when the process started, as redis
outlives it. `client` is for whom a request asks, and it counts as served when its answer is decided
(`Answer`). `forked` is history: clients for whom a bucket was put in place while
they had another, in place or in the hands of a request (first requests that each
make one, or a late request that puts an expired one back).
`Routes` has the routes by their groups (`Groups`), with one shape for each handler.

Facts: the memory store grants a burst of the limit and then one request *each
period*; the redis store with n, the limit divided by the period and rounded
down, a burst of n and then n *each second*, so that up to 2n - 1 may pass within
one second, or, if n is zero, whatever the script makes of it
(`ratelimiter.go:139`). The file middleware is
registered after the routes and reached only by requests without one. The
`NoMethod` handler never runs, as gin is not told to handle such requests.

### PolicyLoad and LogHook

`PolicyLoad` has a step for each channel operation, for taking the lock, the
write and the release, and for `wg.Done`. The write is split at the end of the
shared buffer as the writer sees it (`base`), so that two workers without the
lock would overwrite each other.

`LogHook` splits `Write` at the look at the flag, the look at the room and the
send, as the code does without a lock. A send on the full channel waits, and on
the closed one panics (`SendPanics`, which unwinds the caller). A panic of `Exec`
ends the worker (`dead`); an error is only printed. `Flush` sets the flag, closes
the channel, waits. `Flush` is called once, by the clean-up at exit.

### Lifecycle

`stage` is how far a process has come, `dir` who has the directories of badger,
`port` who listens, `lockfile` whose pid the lock file has. `Boots` is the way to
serving, `Cleans` the way from the signal to the exit, in the order of the
code: release, shutdown with its timeout, token store, cache, database, log, the
last words. `ShutdownTimesOut` lets requests live on while everything is closed;
`strayed` remembers who used a closed store. The log of the first process is
`LogHook`, whose writers are the main goroutine and the requests; a second
process may be started at any moment after it. All requests carry one token, so
that `breaches` can relate a logout to a later admission, in another process
too. `MetricsFatal` is the listener of the metrics, which ends the process by
`log.Fatal` when its port is taken, from `prom.Init` on and also in the midst of
a shutdown. Writing the pid is part of `Start`.

Facts the model has: errors before `util.Run` end the process without any
clean-up; a signal before it kills on the spot; a taken port is only logged and
the process goes on without a listener; `stop` removes the lock file and waits
for nobody; a restart that is too fast panics on a directory of badger that the
old process still has; a closed or restarted memory store has forgotten the
logouts. Facts it leaves out: SIGHUP is ignored; the deferred `Sync` of zap never
runs, since `os.Exit` ends the process.

## 3. Runs

| Run | Question | Size |
|---|---|---|
| `policy_sync` | Is the enforcer ever silently stale, does a load mix only what was committed meanwhile, is it complete, does the enforcer settle? | 1,031,336 states |
| `policy_lost_signal` | *violation*: one update, no fault. Its second is stored before its commit; a tick between the two handles it; the change is never loaded. | - |
| `policy_revoke_all` | *violation*: revoking the last right leaves a load without lines, which keeps the old enforcer. | - |
| `policy_load` | Does the pool do what one atomic gathering would, and does `load` return? | 7,518 states |
| `user_session` | Is a cached user activated, do tokens go only to activated users, does a logout last until the token expires, is nobody admitted on roles he did not have? | 1,097,424 states |
| `user_frozen` | *violation*: a request reads the user before a freeze commits and fills the cache after the freeze cleared it, without an expiry. | - |
| `accounts` | Are passwords the last that were set, do links end with their user and their role? | 790,210 states |
| `menu_tree` | Do paths follow parents, are codes unique, does a status reach all below, unless a named slip happened; is the menu file installed; do the queries draw the tree? | 297,745 states |
| `menu_code` | *violation*: moving a menu with its code puts two of one code on one level. | - |
| `cache_store` | Do the caches keep the promise of their interface, and does an iteration miss nothing and invent nothing? | 134,169 states |
| `pipeline` | Is each request admitted or refused by one policy, limited, answered once, logged for its user where it is logged, and does it end? | 703,296 states |
| `lifecycle` | Does anything use a store after its close, do logouts hold, does the log lose an entry, does `stop` end the process? | 719,648 states |

### What the properties say

* `NoSilentStaleness`: with no load running and no signal waiting, the enforcer
  is `Policy(db)`, except in three named cases: `gap`, `failed`, and tables that
  grant nothing. The violations show the first and the last; `gap` also covers the
  menu file, which is applied after the first load and sends no signal
  (`main.go:44`); `failed` is an error the code reports.
* `LoadSound`, `LoadComplete`: a load is not a snapshot. Each line rests on rows
  committed while it ran, and a right held throughout is never missed.
* `EventuallyEnforced`: when changes stop, the enforcer stays at the policy.
* `CacheCoherent`, `AdmissionSound`: the cache and admission, but for a user whose
  cache fill raced a change. Roles removed since do not count: no policy line
  names them (that is `PolicySync`'s subject).
* `TokensToActivated`, `LogoutLasts`: unconditional, races or not. A logged-out
  token is refused until the second it expires in begins; the property says no more,
  as in that second it is accepted again.
* `PathsFollowParents`, `CodesUniqueUnlessSlipped`, `StatusSpreads`: what the
  tree keeps when no operation slipped.
* `FileInstalled`: after a start every item of the menu file is there once, unless
  the table changed while it ran.
* `SearchShowsBranches`, `LoginShowsMenus`: on every settled
  table that the run reaches, for every choice of matching or granted menus, the
  answer is the tree that the parents make.
* `PasswordKept`: nothing but an update that read the row before the password was
  set restores an older one. `LinksEnd`: a link without its user or its role was
  written after that was deleted, by an update of the deleted row or by the form
  of a user that names the deleted role. That names are *not* unique is in section 5.
* `KeepsPromise` is the specification of `Cacher` under the mapping of values and
  answers, which keeps operation, key and value of a call; `IterationFaithful` bounds what an iteration between changes delivers
  from both sides.
* `BurstHolds`: what a client was granted fits what the bucket can have given, a
  burst and what came since, in memory and in redis, but for a client who got a second bucket, a bucket that is forgotten before it is
  full again, and a quotient of zero.
* `AdmissionJustified`, `RefusalJustified`: some one policy in force during the
  request justifies the outcome. `OneReply`: also when a middleware answers; only
  a panic after the reply adds a second one. `Accounted`: a request that is done was
  logged once, for the user it was let in as, unless its prefix is skipped, CORS
  answered it or a panic cut its way back short; and counted likewise.
* `RequestsEnd`: a request that arrived ends.
* `FlushHandsOverAll`, `LateWritesHarmless`: the promise "Waits for the log queue
  to be empty" (`hook.go:113`), as long as a worker lives; and that only writes
  which `Flush` overtook can panic.
* `NoUseAfterClose`, `LogoutHolds`, `SecondDirFree`: only requests that outlive the
  shutdown timeout meet closed stores; a logout is forgotten only by a store in
  memory; a process that gets one directory of badger gets the other.
* `StopEnds`: a signalled process exits, whatever requests do; the one thing that
  can hold it up is a log whose workers have all died.
* `PoolGathers` is `PolicyGather`'s specification under the mapping
  `result <- buf` once the loader is done; `LoadReturns` its progress.

### Bounds, and why they are enough

`MaxOps`, `MaxWrites`, `MaxFaults` and `MaxClock` bound operations, failures and
seconds; they appear in guards and nowhere else.

* `policy_sync`: two writers of two operations, two seconds, one fault. Two
  operations are a change and one that overtakes or undoes it. Two seconds give
  "the same second" and "the next". One fault is a failed query, a rollback or a
  crash at any step. A chain of two menus is the smallest tree with ancestors,
  and the two initial databases have rows to create, to change and to miss.
* `user_session`: two requests and one admin: the races are of one fill and one
  change, and a second request fills behind the back of the first. Tokens live
  two ticks so that an old and a new one exist at once; three operations are a
  login, a change and a refresh.
* `menu_tree`: two writers, two operations, four identifiers: a chain of three or
  a chain of two with another menu beside it, and one to create. Two codes are
  enough for a clash and its absence.
* `policy_load`: three workers and three roles, so that a worker can get two
  roles, one or none, with one that waits for the lock of another.
* `menu_tree` also has a menu file of two items, one under the other, and starts
  from empty tables too: two processes may run the file at once.
* `accounts`: two requests, four operations; a user and a role with a row and one
  of each without; two names, two passwords; a form of a user may name a role that
  is there, was deleted meanwhile, or none. Every overlap is of two requests.
* `cache_store`: two clients, so that one changes what the other iterates over;
  lives of one tick or none; one failed round trip.
* `pipeline`: two requests of few users on few paths, which differ in what skips
  them; a limit of one or two, two ticks, one new policy, one fault: a second
  policy during a request, and a second request at a bucket, are all that any of
  the properties can be broken by. Configurations with memory, redis and no
  limiter; the quotient of redis is two, so that its burst and its refill differ,
  and a client may come with up to two units used. One path is skipped by the log.
* `lifecycle`: two processes, the second one started after or next to the first;
  one client that makes two requests, one after the other; room for one entry and
  one worker that may die; configurations of the stores that differ in what they share.

Two runs use symmetry, `user_session` (of the requests) and `cache_store` (of
clients and keys). Both check invariants and properties of single steps only, for
which it is sound: specification and properties treat these values alike. The
other runs do without it, as most of them check what must eventually happen.
Deadlock is not checked: each model stops when its bounds are used up, and
processes, requests and the loader really do end.

### Fairness

`PolicySync` assumes that the ticker fires again (`WF(Tick)`) and that a load
that has begun goes on (`WF(Load)`); faults are bounded, so a failed load is
tried again at the next tick. Nothing is assumed of writers, clock or restart.
`UserSession` assumes for `FrozenForcedOut` only that time passes. `PolicyLoad`
assumes weak fairness for each goroutine that has begun: the Go scheduler runs
what can run, and the database answers. `Pipeline` assumes the same of a request
that has arrived. `Lifecycle` assumes it of the start and the end of a process
(the shutdown has its timeout), of the workers of the log and of what the main
goroutine logs, and of no request: one may wait for its body for ever, and nobody
has to call `stop`.

## 4. Proofs

Every theorem is for arbitrary sets of writers, requests, users, roles, menus,
keys, workers, processes and so on, and for arbitrary values of the bounds.

### Assumptions

They are named in the module that declares the constants, and TLC evaluates
each in the run of that module.

| Assumption | Says |
|---|---|
| `RowsAssumption`, `TreeAssumption` | identifiers are distinct; the ancestors of a menu are its parent and that one's ancestors |
| `PolicySyncAssumption` | forms and initial tables have their types, no row refers to a menu yet to be created, the menu file lists parents of its entries |
| `PolicyLoadAssumption` | there is a worker (the default of `LoadThread` is 2) |
| `MenuTreeAssumption` | identifiers are no empty parents; each item of the menu file comes after the one it is under, and no two items under one have the same code; the initial tables hang together and have distinct codes |
| `MenuQueryAssumption` | an order has each menu once, so there are finitely many menus |
| `UserSessionAssumption` | the root user has no row, initial rows have their types, a token and an entry live for at least a tick |
| `AccountsAssumption` | users and roles are two tables, initial names of a table differ, users and only they have a password, forms name sets of roles, the empty one among them |
| `CacheStoreAssumption` | a value is not confused with "nothing" |
| `LimiterAssumption`, `PipelineAssumption` | whom the limiter counts are the users, the root user and the addresses; each list of roles is finite; what was used of the buckets in redis before the start is a number for each client |
| `LogHookAssumption`, `LifecycleAssumption` | the bounds are numbers; the first process is one and its main goroutine a writer |

### What is proved, and along which argument

An invariant of the runs is seldom inductive. For each module the strengthened
one (`IInv`, or the name given here) was checked by TLC on the module's run first.

* `PolicySyncProofs`
  * `TypeCorrect`: `TypeOK` is invariant.
  * `NeverSilentlyStale`: `NoSilentStaleness` is invariant.
    `IInv` adds three things. `WritersInv`: what a writer's checks
    established and is still true at its commit, that no two writers create one
    menu and that nothing refers to a menu yet to be created; without this
    `Menu.Create`, which sends no signal, could change the policy.
    `Seconds`: how `stamp`, `clock`, `lastUpdated` and `updated` compare.
    `LoadCurrent`: while no newer signal came and no commit went unsignalled, the
    roles still to read, the role being read and the buffer are what the tables
    *now* give, so that the last step stores the present policy.
  * `CreateMenuHarmless`: creating a menu that nothing refers to leaves the policy
    as it is. This is why the missing signal is right.
  * `LoadsAreSound`, `LoadsAreComplete`: `LoadSound` and `LoadComplete` are
    invariant. `GatherInv` says of a load half way that every line of the buffer
    is `Founded` on tables it has seen and that of each role it has done, all
    rights that held throughout are there; `Seen` that the present tables are
    among those it has seen, in particular between two of its queries.
* `PolicyLoadProofs`
  * `LoadTypeCorrect`: `TypeOK` is invariant.
  * `PoolImplementsGather`: each step of the pool is a stutter of `PolicyGather`
    but the last, which is its one step. The invariant says where every line of a
    pushed role is (channel, a worker's buffer, shared buffer), that only the
    holder of the lock is between lock and unlock and sees the buffer's true end,
    and how program counters, channel and wait group go together.
* `UserSessionProofs`
  * `SessionTypeCorrect`: `TypeOK` is invariant.
  * `CacheStaysCoherent` and, as an action property, `AdmissionStaysSound`. What
    carries them is `Unraced`: for a user whom no fill has raced, no reader is
    under way while a change is between its invalidation and its commit, the
    cache is empty there, and what a reader has read is what the rows say now.
    `ChangesInv` keeps two creations of one row, and changes of a missing one, out
    of it. `ObsInv`: the rows of the present are among what a request under way
    can have observed.
  * `TokensStayWithActivated`, `LogoutsLast`: without exception for races.
    The second says that nothing but time removes the record of a logout, and
    time does not before the last second of its token.
* `MenuTreeProofs`
  * `MenuTypeCorrect`: `TypeOK` is invariant.
  * `PathsAlwaysFollow`: `PathsFollowParents` is invariant. `TreeInv` adds what a
    writer that is not `late` has read (`View`): the place of its menu, the path of
    the new parent, the menus below with their paths are still those of the table,
    and the rows that a start has found in the file stand where they stood. Then
    `RemoveTree`, `MoveTree` and `LoadTree` say that taking away a subtree, moving
    one and going through the file leave a tree; `NewPathIs`, that the rewritten
    path of a menu below is the one that its parent's new path gives.
  * `CodesStayUnique`: `CodesUniqueUnlessSlipped` is invariant. `CodeInv` adds that
    nobody has the level which a writer that is not `lateCode` found free or keeps,
    and only the menu found for an item has the level of the item (`CodeView`).
  * `StatusAlwaysSpreads`, an action property: in a tree, who has a menu
    on its path has that menu's own path before it (`OnPath`); so what was below had
    the status pushed down before the paths were rewritten, and nothing else comes
    to be below (`StatusPushed`).
  * `FileAlwaysInstalled`, an action property: from the distinct codes, each item
    stands for one menu or none before the start (`NamedOnce`), and for exactly one
    after it (`Installed`). It holds of files whose items have a code and no id.
  * Paths and the functions along the file (`FileMenu`, `FilePath`, `Named`) are
    recursive. They are functions on a finite domain, so that the induction can be
    had from the least-number principle: `LeastNumber`, `SetInduction` and
    `TreeRecursion` take a set in place of a predicate.
  * `LoginAlwaysShowsMenus`, `SearchAlwaysShowsBranches`: `LoginShowsMenus` and
    `SearchShowsBranches` are invariant, and what they promise holds on every
    `Intact` table. `PathsAlwaysFollow` carries them: on such a table the path of a
    row is the set of those above it (`AboveIs`, by induction on the length of the
    path) and what is found by the path is what is below (`BelowIs`). A loop over a
    list is a `Folded` value, of which the empty list and one more menu are settled
    once (`FoldedIs`) and any function that takes the steps is the same (`StepsFold`).
    So, by `ListInduction`: `PickSet`, which menus are picked; `AddedIs`, none is lost
    or doubled; `SortIs`, a list in which each menu stands once is, sorted, the order
    restricted to its members; `SplitIs`, what is asked for and what is there
    are together all above; `AllBelowIs`, what was appended is all below. The
    answer thus depends on a set of rows alone (`AppendChildrenIs`, `FilledIs`) and
    `TreeIs` draws it. `RootDrawn` goes down from the top by the length of the path.
* `AccountsProofs`
  * `AccountsTypeCorrect`, `OnlyLateRequestsShareNames` (names are not unique; two
    rows share one only if one of them was written by a request whose look at the
    names was out of date), `PasswordsAreKept`, `LinksEndWithRows`. An invariant of the tables alone is not inductive. `NameFree`,
    `PasswordRead` and `RowRead` say what the check of a request that is not `late`,
    `stale` or `missed` is still worth when it writes, and `Fits` that its
    identifier and form suit its step.
* `CacheStoreProofs`
  * `CacheTypeCorrect`: `TypeOK` is invariant.
  * `IterationsAreFaithful`: `IterationFaithful` is invariant. Of an iteration half
    way, what it has delivered was there (`Witnessed`), and what stayed is among
    what it has delivered or has yet to ask for (`Covered`); `Shaped` says where
    each of the three implementations is.
  * `CachesKeepPromise`: every step of the three caches is a step of `Cacher` or a
    stutter, under the mapping of `CacheStore`. One lemma for each action; the
    two-step operations take effect at the step that changes the entry, and answer
    at the one that returns. A step is matched by the same operation on the same
    key, as both are in the mapping.
* `PipelineProofs`
  * `PipelineTypeCorrect`: `TypeOK` is invariant. Limiter and chain share only a
    request's place in `Allow`, so `LimiterInv` and `ChainInv` are proved apart.
  * `BurstsHold`: `Budget` says that what a client was served and what his bucket
    holds come to no more than a full bucket and the ticks that passed, and that
    a bucket nobody has used since it was put in place has gained a unit each tick
    of its `age`. So one that is forgotten was full, if an unused one is kept long
    enough to fill, and the next starts no richer. In redis it says that what a
    client was served is at most what he has used and the ticks that passed, and
    that he has never used more than the quotient. `OneBucket`: without a fork
    all that work for a client hold the same bucket.
  * `AdmissionIsJustified`, `RefusalIsJustified`: `Judged` says what is known at
    each place of the chain, `Asked` that the roles asked so far do not have the
    path in the enforcer that the request took.
  * `OneReplyEach`, `AllAccounted`: `Replied` counts the replies at each place, with
    and without a panic, and says what was logged and counted there.
* `LifecycleProofs`, first of the log by itself:
  * `HookTypeCorrect`: `TypeOK` of `LogHook` is invariant; the channel never
    exceeds its room.
  * `FlushLosesNothing`: `FlushHandsOverAll` is invariant. The invariant says
    that an accepted entry is in the channel, with a worker or handed over, that
    nothing else is, and that a worker gone without a panic saw the channel
    closed and empty (it then stays so).
  * `LateWritesAlwaysHarmless`: only writers that `Flush` overtook are between the
    look at the flag and the send once the channel is closed.
* and of the processes:
  * `LifeImplementsHook`: every step of a process is a step of `LogHook` or leaves
    the log alone. So what is proved of the queue holds of it inside the process:
    `ExitLosesNothing`, `LateRequestsHarmless`.
  * `SecondDirAlwaysFree`: `SecondDirFree` is invariant, for any number of
    processes. The invariant says that who has a directory is at a stage between
    opening and closing that store, and that badger's directory of the cache is
    held by whoever is past it.
  * `LifeTypeCorrect`, `StoresOutliveRequests`, `LogoutHoldsEverywhere`. `PortServed`:
    the port belongs to a process that serves. `ServedWhileOpen`: a request is at
    a process whose stores are open, or the shutdown has timed out on it.
    `LogoutKept`: a logout that was answered is in the token store of the process
    that answered, or of all where the store is shared.

### What failed attempts found

* `BurstHolds` was false with four or more requests: a late request can put an
  expired bucket back while the client has a fresh one. TLC finds it with the
  larger instance. `forked` now records this case as well, and the property names it.
* `AdmissionJustified` did not hold for a path that `AuthSkips` but not
  `CasbinSkips` lists, when Casbin is off: nobody has to be logged in there. The
  property now says which part of the configuration admits whom.
* `CacheStore.TypeOK` had left open what an iteration's registers hold.

### Only model-checked

What must eventually happen: `EventuallyEnforced`, `LoadReturns`, `StopEnds`,
`RequestsEnd`. They rest on fairness, and the prover has no rule for `ENABLED`.
Every other property of a passing run is a theorem. The properties of the four
violations (section 5) are false of the code; TLC shows how.

## 5. Findings

1. A change can be lost: the signal is stored before its commit
   (`role.biz.go:149`; `policy_lost_signal`).
2. Revoking the last right leaves it in force (`casbin.go:112`;
   `policy_revoke_all`).
3. A frozen user can stay in the cache for ever (`login.biz.go:86`;
   `user_frozen`).
4. A menu that moves with its code may share it with another on the new level
   (`menu.biz.go:407`; `menu_code`).

One more disagreement has a theorem instead of a run. `schema/role.go:20` says
"Code of role (unique)", and `user.biz.go:88` refuses a username that exists; but
both are looked up before the transaction and their indexes are not unique, so two
requests that overlap give two rows one code or one username (`role.biz.go:72`,
`user.biz.go:84`). `OnlyLateRequestsShareNames` says that this happens in no other way.

Besides these, the exceptions that the properties name are behaviour of the code
that no document or comment says otherwise:

* the menu file is applied after the first load and sends no signal (`main.go:44`);
* a token that was logged out is accepted again in the second it expires in, as the
  record of the logout is over when that second begins (`jwt.go:156`);
* an update may write an older password back (`user.biz.go:129`);
* a user may be given a role that has been deleted, as nobody looks it up
  (`user.biz.go:109`, `user.biz.go:156`); such links remain;
* first requests of a client may each get a bucket (`ratelimiter.go:97`), and the
  redis store lets up to twice its quotient but one pass in a second
  (`ratelimiter.go:139`);
* requests answered by CORS, under a skipped prefix, or cut short by a panic are
  not logged (`http.go:131`, `logger.go:34`).

With a token store in memory a restart forgets the logouts; `LogoutHolds` of
`Lifecycle` has this as its exception, while `Crash` of `UserSession` takes the
record of confirmed logouts along with such a store.

## 6. Not modelled, and why

* Queries of users, roles and log entries, and `Get`: they change nothing and
  add nothing to the rows they return. Pages and display columns.
* `Casbinx.Release`: it stops the ticker of a process that is about to end.
* Captcha, signatures, the second signing key: library calls whose outcome is a
  choice here (a login with the right password happens or not).
* The matcher of `rbac_model.conf`: which paths a policy line matches is the
  choice of `Policies`; which policy is in force is what is modelled.
* The lookup of items of a menu file by id and by name: the files of the repository
  have neither items with an id nor items without a code.
* Retries inside the redis client, the vacuum of badger, the intervals of clean-up.
* Values of the metrics, mail, object storage, encoding, the reading of
  configuration files, wiring, generated API documents: no state that another
  part reads back, or no caller in the program.

## 7. Plan

Done, by weight for what the program is for: the way of a change to the enforcer
(`RbacStore`, `PolicySync`), admission (`UserSession`), the tree, its file and its
queries (`MenuTree`, `MenuQuery`), rows under concurrent requests (`Accounts`),
the pool (`PolicyGather`, `PolicyLoad`), the caches (`Cacher`, `CacheStore`), the
request (`RateLimiter`, `Routes`, `Pipeline`), the process and its log (`LogHook`,
`Lifecycle`), all with their proofs. Every property of a passing run is a theorem
but those that need fairness.

Left: queries for menus that see different tables, as several reads without a
transaction may; shorter proofs of `MenuTree`, where lemmas of one action repeat
each other.
