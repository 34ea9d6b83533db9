------------------------------ MODULE Lifecycle ------------------------------
(***************************************************************************)
(* A process from start to exit, and the one that is started next to it or *)
(* after it (cmd, internal/bootstrap, internal/wirex, pkg/util/command.go).*)
(*                                                                         *)
(* Run opens the log, the database, the cache and the token store, loads   *)
(* the policy, serves, and waits for a signal.  Then it shuts the server   *)
(* down, which waits for requests only so long, closes what it opened in   *)
(* the opposite order, and flushes the log last.  Processes share a port,  *)
(* the directories of badger, the lock file with the pid, and what badger  *)
(* and redis remember.                                                     *)
(*                                                                         *)
(* The log of process First is that of LogHook: its writers are the main   *)
(* goroutine and the requests.                                             *)
(***************************************************************************)
EXTENDS LogHook

CONSTANTS Proc,    \* processes, each started once by "start -daemon"
          First,   \* the one that is started first, whose log is modelled
          Main,    \* its main goroutine as a writer of the log; the others are requests
          Nobody,
          MaxStops,    \* bound: calls of stop
          MaxRequests, \* bound: requests
          Configs  \* types of the cache and of the token store: memory, badger or redis

VARIABLES
    config,   \* [cache, auth]
    stage,    \* how far each process has come
    notified, \* processes a signal to end was sent to
    serving,  \* its listener: not yet, open, failed, closed
    dir,      \* the process that holds badger's directory of the cache, of the tokens
    port,     \* the process that listens
    lockfile, \* the pid in the lock file
    rpc,      \* where each request is
    ask,      \* what it asks for: logout, or anything else
    home,     \* the process that serves it
    destroyed,\* where the token of all requests is destroyed
    loggedOut,\* history: processes that answered its logout
    breaches, \* history: pairs of a process that let the token in and one that had
              \* answered its logout before
    strayed,  \* history: processes a request of whom used a closed store
    stops, asked, \* counters of the bounds
    overrun   \* history: processes whose shutdown timed out

lockVars == <<lockfile, stops>>
holdings == <<serving, dir, port>>
procVars == <<stage, notified, holdings>>
requestVars == <<rpc, ask, home, destroyed, loggedOut, breaches, strayed, asked>>
outside == <<config, notified, lockVars, requestVars, overrun>>
lifeVars == <<vars, stage, holdings, outside>>

Request == Writer \ {Main}
Kind == {"cache", "auth"}

ASSUME LifecycleAssumption ==
    /\ First \in Proc /\ Main \in Writer /\ Nobody \notin Proc
    /\ Configs \subseteq [Kind -> {"memory", "badger", "redis"}]
    /\ MaxStops \in Nat /\ MaxRequests \in Nat

LifeInit ==
    /\ Init
    /\ config \in Configs
    /\ stage = [p \in Proc |-> "none"] /\ notified = {}
    /\ serving = [p \in Proc |-> "not yet"]
    /\ dir = [k \in Kind |-> Nobody] /\ port = Nobody
    /\ lockfile = Nobody /\ stops = 0
    /\ rpc = [r \in Request |-> "idle"]
    /\ ask = [r \in Request |-> "other"] /\ home = [r \in Request |-> First]
    /\ destroyed = {} /\ loggedOut = {} /\ breaches = {} /\ strayed = {} /\ asked = 0
    /\ overrun = {}

\* What is open at each stage.
DbOpen(p) == stage[p] \in {"cache", "auth", "running", "noticed", "logged",
                           "shutdown", "closing auth", "closing cache", "closing db"}
CacheOpen(p) == DbOpen(p) /\ stage[p] # "closing db"
AuthOpen(p) == CacheOpen(p) /\ stage[p] \notin {"cache", "closing cache"}
Alive(p) == stage[p] \notin {"none", "exited"}

Become(p, s) == stage' = [stage EXCEPT ![p] = s]

\* The system takes back what an ended process held.
Ends(p) ==
    /\ Become(p, "exited")
    /\ dir' = [k \in Kind |-> IF dir[k] = p THEN Nobody ELSE dir[k]]
    /\ port' = IF port = p THEN Nobody ELSE port

-----------------------------------------------------------------------------
(* The commands.                                                           *)

\* start -daemon, which overwrites what the lock file has.
Start(p) ==
    /\ stage[p] = "none" /\ (p # First => stage[First] # "none")
    /\ Become(p, "starting")
    /\ lockfile' = p
    /\ UNCHANGED <<vars, holdings, config, notified, stops, requestVars, overrun>>

\* stop: the signal is sent and the lock file removed; nobody waits for the end.
Stop ==
    /\ lockfile # Nobody
    /\ stops < MaxStops /\ stops' = stops + 1
    /\ notified' = notified \cup {lockfile}
    /\ lockfile' = Nobody
    /\ UNCHANGED <<vars, stage, holdings, config, requestVars, overrun>>

-----------------------------------------------------------------------------
(* From start to serving.                                                  *)

\* InitCacher and InitAuth: badger takes its directory.
OpenStore(p, kind, from) ==
    /\ stage[p] = from
    /\ Become(p, kind)
    /\ IF config[kind] = "badger"
       THEN dir[kind] = Nobody /\ dir' = [dir EXCEPT ![kind] = p]
       ELSE UNCHANGED dir
    /\ UNCHANGED <<vars, serving, port, outside>>

\* Badger panics when another process has its directory.
OpenPanics(p, kind, from) ==
    /\ stage[p] = from
    /\ config[kind] = "badger" /\ dir[kind] # Nobody
    /\ Ends(p)
    /\ UNCHANGED <<vars, serving, outside>>

\* Anything else that fails before the server runs is returned by Run and ends
\* the process by a panic of the command: opening the log or the database,
\* AutoMigrate, the first load of the policy.
StartFails(p) ==
    /\ stage[p] \in {"starting", "auth"}
    /\ Ends(p)
    /\ UNCHANGED <<vars, serving, outside>>

\* A signal before util.Run asked for it ends the process on the spot.
Killed(p) ==
    /\ p \in notified
    /\ stage[p] \in {"starting", "cache", "auth"}
    /\ Ends(p)
    /\ UNCHANGED <<vars, serving, outside>>

\* Init and startHTTPServer, which leaves the listening to a goroutine.
Serve(p) ==
    /\ stage[p] = "auth"
    /\ Become(p, "running")
    /\ UNCHANGED <<vars, holdings, outside>>

\* A port that is taken is only logged: the process goes on without a listener.
Listen(p) ==
    /\ serving[p] = "not yet"
    /\ stage[p] \in {"running", "noticed"}
    /\ IF port = Nobody
       THEN port' = p /\ serving' = [serving EXCEPT ![p] = "open"]
       ELSE serving' = [serving EXCEPT ![p] = "failed"] /\ UNCHANGED port
    /\ UNCHANGED <<vars, stage, dir, outside>>

-----------------------------------------------------------------------------
(* From the signal to the end.                                             *)

\* The main goroutine logs; only the log of First is modelled.
MainLogs(p, s) ==
    /\ Become(p, s)
    /\ IF p = First THEN CheckClosed(Main) ELSE UNCHANGED vars

Quiet(p) == p # First \/ wpc[Main] = "idle"

Notice(p) ==
    /\ p \in notified /\ stage[p] = "running"
    /\ MainLogs(p, "noticed")
    /\ UNCHANGED <<holdings, outside>>

\* Release stops the ticker, Shutdown closes the listener.
Shutdown(p) ==
    /\ stage[p] = "noticed" /\ Quiet(p)
    /\ Become(p, "shutdown")
    /\ port' = IF port = p THEN Nobody ELSE port
    /\ serving' = [serving EXCEPT ![p] = IF @ = "open" THEN "closed" ELSE @]
    /\ UNCHANGED <<vars, dir, outside>>

Active(p) == {r \in Request : home[r] = p /\ rpc[r] # "idle"}

\* Mutant: the server is closed instead of shut down.
ShutdownCloses(p) ==
    /\ stage[p] = "shutdown"
    /\ Become(p, "closing auth")
    /\ UNCHANGED <<vars, holdings, outside>>

ShutdownReturns(p) ==
    /\ stage[p] = "shutdown" /\ Active(p) = {}
    /\ Become(p, "closing auth")
    /\ UNCHANGED <<vars, holdings, outside>>

\* Mutant: the timeout is logged, and Shutdown goes on waiting.
ShutdownWaits(p) ==
    /\ stage[p] = "shutdown" /\ Active(p) # {}
    /\ MainLogs(p, "shutdown")
    /\ overrun' = overrun \cup {p}
    /\ UNCHANGED <<holdings, config, notified, lockVars, requestVars>>

ShutdownTimesOut(p) ==
    /\ stage[p] = "shutdown" /\ Active(p) # {}
    /\ MainLogs(p, "logged")
    /\ overrun' = overrun \cup {p}
    /\ UNCHANGED <<holdings, config, notified, lockVars, requestVars>>

Overrun(p) ==
    /\ stage[p] = "logged" /\ Quiet(p)
    /\ Become(p, "closing auth")
    /\ UNCHANGED <<vars, holdings, outside>>

\* Mutant: the stores are closed in the order in which they were opened.
LeavesOther(p, kind) ==
    dir' = [k \in Kind |-> IF k # kind /\ dir[k] = p THEN Nobody ELSE dir[k]]

Leaves(p, kind) == dir' = [dir EXCEPT ![kind] = IF @ = p THEN Nobody ELSE @]

\* A memory store forgets what it has when it is closed, and works on.
CloseAuth(p) ==
    /\ stage[p] = "closing auth"
    /\ Become(p, "closing cache")
    /\ Leaves(p, "auth")
    /\ destroyed' = destroyed \ {p}
    /\ UNCHANGED <<vars, config, notified, serving, port, lockVars, rpc, ask, home, loggedOut,
                   breaches, strayed, asked, overrun>>

CloseCache(p) ==
    /\ stage[p] = "closing cache"
    /\ Become(p, "closing db")
    /\ Leaves(p, "cache")
    /\ UNCHANGED <<vars, serving, port, outside>>

CloseDb(p) ==
    /\ stage[p] = "closing db"
    /\ Become(p, "flushing")
    /\ UNCHANGED <<vars, holdings, outside>>

\* The hook's Flush (LogHook) by the main goroutine of First.
FlushLog(p) ==
    /\ p = First /\ stage[p] = "flushing"
    /\ Flush
    /\ UNCHANGED <<stage, holdings, outside>>

\* The last words of the main goroutine come after the flush.
Bye(p) ==
    /\ stage[p] = "flushing" /\ (p = First => fpc = "done")
    /\ MainLogs(p, "bye")
    /\ UNCHANGED <<holdings, outside>>

Exit(p) ==
    /\ stage[p] = "bye" /\ Quiet(p)
    /\ Ends(p)
    /\ UNCHANGED <<vars, serving, outside>>

\* prom.Init, after the policy was loaded and before Serve, leaves the port of the
\* metrics to a goroutine.
Metered(p) == stage[p] \notin {"none", "starting", "cache", "exited"}

\* The port of the metrics is held until a process exits.  Whoever finds it taken
\* calls log.Fatal, which ends the process with nothing cleaned up, also in the
\* midst of its shutdown.
MetricsFatal(p) ==
    /\ Metered(p) /\ \E o \in Proc \ {p} : Metered(o)
    /\ Ends(p)
    /\ UNCHANGED <<vars, serving, outside>>

-----------------------------------------------------------------------------
(* Requests, all with one token; one after another of each client.         *)

\* Where the token of a request at p is looked for.
TokenStore(p) == IF config["auth"] = "memory" THEN p ELSE Nobody

\* Mutant: a request needs no listener.
ConnectAnyway(r) ==
    /\ rpc[r] = "idle"
    /\ asked < MaxRequests /\ asked' = asked + 1
    /\ rpc' = [rpc EXCEPT ![r] = "body"]
    /\ home' = [home EXCEPT ![r] = port]
    /\ UNCHANGED <<vars, config, procVars, lockVars, ask, destroyed, loggedOut, breaches,
                   strayed, overrun>>

\* CopyBody reads the body before Auth looks at the token.  The end of a process
\* cuts its requests off.
Connect(r) ==
    /\ rpc[r] = "idle" \/ ~Alive(home[r])
    /\ port # Nobody
    /\ asked < MaxRequests /\ asked' = asked + 1
    /\ rpc' = [rpc EXCEPT ![r] = "body"]
    /\ home' = [home EXCEPT ![r] = port]
    /\ \E what \in {"logout", "other"} : ask' = [ask EXCEPT ![r] = what]
    /\ UNCHANGED <<vars, config, procVars, lockVars, destroyed, loggedOut, breaches,
                   strayed, overrun>>

Works(p, kind) == config[kind] = "memory" \/ IF kind = "auth" THEN AuthOpen(p) ELSE CacheOpen(p)

\* A closed store fails, which refuses the token.
Authenticate(r) ==
    LET p == home[r] IN
    /\ rpc[r] = "body" /\ Alive(p)
    /\ IF Works(p, "auth") /\ TokenStore(p) \notin destroyed
       THEN /\ breaches' = breaches \cup ({p} \X loggedOut)
            /\ rpc' = [rpc EXCEPT ![r] = "operate"]
       ELSE /\ UNCHANGED breaches
            /\ rpc' = [rpc EXCEPT ![r] = "log"]
    /\ strayed' = IF AuthOpen(p) THEN strayed ELSE strayed \cup {p}
    /\ UNCHANGED <<vars, config, procVars, lockVars, ask, home, destroyed, loggedOut, asked,
                   overrun>>

\* Mutant: Logout ignores that the token could not be destroyed.
OperateAnyway(r) ==
    LET p == home[r] IN
    /\ rpc[r] = "operate" /\ Alive(p)
    /\ destroyed' = IF ask[r] = "logout" /\ Works(p, "auth")
                    THEN destroyed \cup {TokenStore(p)} ELSE destroyed
    /\ loggedOut' = IF ask[r] = "logout" THEN loggedOut \cup {p} ELSE loggedOut
    /\ strayed' = IF DbOpen(p) /\ CacheOpen(p) THEN strayed ELSE strayed \cup {p}
    /\ rpc' = [rpc EXCEPT ![r] = "log"]
    /\ UNCHANGED <<vars, config, procVars, lockVars, ask, home, breaches, asked, overrun>>

\* The operation works on the database and the cache, and Logout on the token
\* store before them; what fails is answered as an error and logged.
Operate(r) ==
    LET p == home[r] IN
    /\ rpc[r] = "operate" /\ Alive(p)
    /\ IF ask[r] = "logout" /\ Works(p, "auth")
       THEN /\ destroyed' = destroyed \cup {TokenStore(p)}
            /\ loggedOut' = loggedOut \cup {p}
       ELSE UNCHANGED <<destroyed, loggedOut>>
    /\ strayed' = IF DbOpen(p) /\ CacheOpen(p) THEN strayed ELSE strayed \cup {p}
    /\ rpc' = [rpc EXCEPT ![r] = "log"]
    /\ UNCHANGED <<vars, config, procVars, lockVars, ask, home, breaches, asked, overrun>>

\* The access log on the way back.
Log(r) ==
    /\ rpc[r] = "log" /\ Alive(home[r])
    /\ IF home[r] = First THEN CheckClosed(r) ELSE UNCHANGED vars
    /\ rpc' = [rpc EXCEPT ![r] = "respond"]
    /\ UNCHANGED <<config, procVars, lockVars, ask, home, destroyed, loggedOut, breaches,
                   strayed, asked, overrun>>

\* The handler returns, also when the log panicked (Recovery).
Respond(r) ==
    /\ rpc[r] = "respond" /\ Alive(home[r])
    /\ home[r] = First => wpc[r] = "idle"
    /\ rpc' = [rpc EXCEPT ![r] = "idle"]
    /\ ask' = [ask EXCEPT ![r] = "other"] /\ home' = [home EXCEPT ![r] = First]
    /\ UNCHANGED <<vars, config, procVars, lockVars, destroyed, loggedOut, breaches, strayed,
                   asked, overrun>>

\* The goroutines of the log of First, while the process lives.
LogGoesOn(g) ==
    /\ Alive(First)
    /\ \/ g \in Writer /\ (CheckRoom(g) \/ Send(g) \/ SendPanics(g))
       \/ g \in Worker /\ Work(g)
    /\ UNCHANGED <<stage, holdings, outside>>

-----------------------------------------------------------------------------

Boots(p) ==
    \/ OpenStore(p, "cache", "starting") \/ OpenStore(p, "auth", "cache")
    \/ OpenPanics(p, "cache", "starting") \/ OpenPanics(p, "auth", "cache")
    \/ StartFails(p) \/ Killed(p) \/ Serve(p)

Cleans(p) ==
    \/ Notice(p) \/ Shutdown(p) \/ ShutdownReturns(p) \/ ShutdownTimesOut(p) \/ Overrun(p)
    \/ CloseAuth(p) \/ CloseCache(p) \/ CloseDb(p) \/ FlushLog(p) \/ Bye(p) \/ Exit(p)

Requested(r) == Authenticate(r) \/ Operate(r) \/ Log(r) \/ Respond(r)

LifeNext ==
    \/ \E p \in Proc : Start(p) \/ Boots(p) \/ Listen(p) \/ Cleans(p) \/ MetricsFatal(p)
    \/ Stop
    \/ \E g \in Writer \cup Worker : LogGoesOn(g)
    \/ \E r \in Request : Connect(r) \/ Requested(r)

LifeSpec == LifeInit /\ [][LifeNext]_lifeVars

\* A process gets on with its start and its end, and so do the workers of its
\* log.  A request need not: it may wait for a body for ever.
FairLifeSpec ==
    /\ LifeSpec
    /\ \A p \in Proc : WF_lifeVars(Boots(p) \/ Cleans(p))
    /\ \A g \in Worker \cup {Main} : WF_lifeVars(LogGoesOn(g))

-----------------------------------------------------------------------------
(* Properties.                                                             *)

LifeTypeOK ==
    /\ config \in Configs
    /\ stage \in [Proc -> {"none", "starting", "cache", "auth", "running", "noticed",
                           "shutdown", "logged", "closing auth", "closing cache", "closing db",
                           "flushing", "bye", "exited"}]
    /\ notified \subseteq Proc
    /\ serving \in [Proc -> {"not yet", "open", "failed", "closed"}]
    /\ dir \in [Kind -> Proc \cup {Nobody}]
    /\ port \in Proc \cup {Nobody} /\ lockfile \in Proc \cup {Nobody}
    /\ overrun \subseteq Proc /\ loggedOut \subseteq Proc
    /\ rpc \in [Request -> {"idle", "body", "operate", "log", "respond"}]
    /\ ask \in [Request -> {"logout", "other"}] /\ home \in [Request -> Proc]
    /\ destroyed \subseteq Proc \cup {Nobody}
    /\ breaches \subseteq Proc \X Proc /\ strayed \subseteq Proc
    /\ stops \in 0..MaxStops /\ asked \in 0..MaxRequests

\* No request uses a store its process has closed, unless the shutdown timed out
\* on it (http.go:96).
NoUseAfterClose == strayed \subseteq overrun

\* Once a logout was answered its token is let in nowhere.  A token store in
\* memory breaks this twice: another process, a restart included, never knew
\* (injector.go:119), and a request that outlives the shutdown may find the
\* closed store empty.
LogoutHolds ==
    \A at \in breaches :
       config["auth"] = "memory" /\ (at[1] # at[2] \/ at[1] \in overrun)

\* With both stores in badger a process that got the directory of the cache
\* finds that of the tokens free: directories are left in the opposite order.
SecondDirFree ==
    \A p \in Proc :
       config["cache"] = "badger" /\ stage[p] = "cache" => dir["auth"] = Nobody

\* A process that stop has signalled ends, whatever its requests and the workers
\* of its log do: only an entry of its own that no worker is left to take may
\* hold it up.
StopEnds ==
    \A p \in Proc :
       (p \in notified /\ stage[p] # "none")
          ~> (stage[p] = "exited" \/ (p = First /\ dead = Worker /\ wpc[Main] = "send"))

==============================================================================
