--------------------------- MODULE LifecycleProofs ---------------------------
(* Flush hands every accepted entry over, for any number of writers and        *)
(* workers and any size of the channel.  The log of a process that starts,     *)
(* serves and ends behaves as LogHook says, so what is proved of the hook      *)
(* holds of the process; and badger's directories are held from opening to     *)
(* closing.                                                                    *)
EXTENDS Lifecycle, TLAPS

-----------------------------------------------------------------------------
(* The log hook.                                                           *)

\* The entry is in the channel, or a worker has it.
Queued(e) == \E i \in 1..Len(q) : q[i] = e
InWork(e) == \E k \in Worker : kpc[k] = "exec" /\ job[k] = e

\* An accepted entry is in the channel or with a worker until it is handed over.
Kept == \A e \in accepted : e \in handed \/ Queued(e) \/ InWork(e)

\* Nothing is handed over that was not accepted.
Known ==
    /\ handed \subseteq accepted
    /\ \A i \in 1..Len(q) : q[i] \in accepted
    /\ \A k \in Worker : kpc[k] = "exec" => job[k] \in accepted

\* A worker that left without a panic found the channel closed and empty.
Left ==
    /\ \A k \in Worker : kpc[k] = "gone" => k \in dead \/ (shut /\ q = <<>>)
    /\ fpc = "done" => \A k \in Worker : kpc[k] = "gone"

\* A writer that is about to send has an entry.
Holding == \A w \in Writer : wpc[w] # "idle" => entry[w] \in Entry

HookInv == TypeOK /\ Kept /\ Known /\ Left /\ Holding

\* The invariant holds at the start.
LEMMA HookInit == Init => HookInv
<1> SUFFICES ASSUME Init PROVE HookInv
  OBVIOUS
<1> USE LogHookAssumption DEF Init
<1>1. TypeOK
  <2>1. q \in Seq(Entry) /\ Len(q) = 0
    OBVIOUS
  <2>2. writes \in 0..MaxWrites /\ faults \in 0..MaxFaults /\ Len(q) <= MaxJobs
    BY <2>1
  <2> QED BY <2>1, <2>2 DEF TypeOK
<1>2. Kept /\ Known
  BY DEF Kept, Known
<1>3. Left /\ Holding
  BY DEF Left, Holding
<1> QED BY <1>1, <1>2, <1>3 DEF HookInv

\* Every step keeps the types.
LEMMA TypeStep == HookInv /\ [Next]_vars => TypeOK'
<1> SUFFICES ASSUME HookInv, [Next]_vars PROVE TypeOK'
  OBVIOUS
<1> USE LogHookAssumption DEF HookInv, TypeOK, Entry, flags, writerVars, workerVars, Holding, Known
<1>1. ASSUME NEW w \in Writer, CheckClosed(w) PROVE TypeOK'
  BY <1>1 DEF CheckClosed
<1>2. ASSUME NEW w \in Writer, CheckRoom(w) PROVE TypeOK'
  BY <1>2 DEF CheckRoom, Leave
<1>3. ASSUME NEW w \in Writer, Send(w) PROVE TypeOK'
  <2>1. entry[w] \in Entry
    BY <1>3 DEF Send
  <2>2. q' \in Seq(Entry) /\ Len(q') = Len(q) + 1
    BY <1>3, <2>1 DEF Send
  <2>3. Len(q') <= MaxJobs
    BY <1>3, <2>2 DEF Send
  <2>4. wpc' \in [Writer -> {"idle", "checked", "send"}] /\ entry' \in [Writer -> Entry \cup {0}]
        /\ overdue' \subseteq Writer /\ accepted' \subseteq Entry
    BY <1>3, <2>1 DEF Send, Leave
  <2> QED BY <1>3, <2>2, <2>3, <2>4 DEF Send
<1>4. ASSUME NEW w \in Writer, SendPanics(w) PROVE TypeOK'
  BY <1>4 DEF SendPanics, Leave
<1>5. ASSUME NEW k \in Worker, Receive(k) PROVE TypeOK'
  BY <1>5 DEF Receive
<1>6. ASSUME NEW k \in Worker, Exec(k) PROVE TypeOK'
  BY <1>6 DEF Exec
<1>7. ASSUME NEW k \in Worker, ExecPanics(k) PROVE TypeOK'
  <2>1. faults' \in 0..MaxFaults
    BY <1>7 DEF ExecPanics
  <2>2. handed' \subseteq Entry /\ dead' \subseteq Worker
    BY <1>7 DEF ExecPanics
  <2> QED BY <1>7, <2>1, <2>2 DEF ExecPanics
<1>8. ASSUME NEW k \in Worker, Drained(k) PROVE TypeOK'
  BY <1>8 DEF Drained
<1>9. CASE Mark
  BY <1>9 DEF Mark
<1>10. CASE CloseQueue
  BY <1>10 DEF CloseQueue
<1>11. CASE Wait
  BY <1>11 DEF Wait
<1>12. CASE UNCHANGED vars
  BY <1>12 DEF vars
<1> QED
  BY <1>1, <1>2, <1>3, <1>4, <1>5, <1>6, <1>7, <1>8, <1>9, <1>10, <1>11, <1>12
  DEF Next, Write, Work, Flush

\* A writer keeps its entry until it leaves.
LEMMA HoldingStep == HookInv /\ [Next]_vars => Holding'
<1> SUFFICES ASSUME HookInv, [Next]_vars PROVE Holding'
  OBVIOUS
<1> USE LogHookAssumption DEF HookInv, TypeOK, Entry, flags, writerVars, workerVars, Holding
<1>1. ASSUME NEW w \in Writer, CheckClosed(w) PROVE Holding'
  BY <1>1 DEF CheckClosed
<1>2. ASSUME NEW w \in Writer, CheckRoom(w) PROVE Holding'
  BY <1>2 DEF CheckRoom, Leave
<1>3. ASSUME NEW w \in Writer, Send(w) PROVE Holding'
  BY <1>3 DEF Send, Leave
<1>4. ASSUME NEW w \in Writer, SendPanics(w) PROVE Holding'
  BY <1>4 DEF SendPanics, Leave
<1>5. ASSUME NEW k \in Worker, Receive(k) PROVE Holding'
  BY <1>5 DEF Receive
<1>6. ASSUME NEW k \in Worker, Exec(k) PROVE Holding'
  BY <1>6 DEF Exec
<1>7. ASSUME NEW k \in Worker, ExecPanics(k) PROVE Holding'
  BY <1>7 DEF ExecPanics
<1>8. ASSUME NEW k \in Worker, Drained(k) PROVE Holding'
  BY <1>8 DEF Drained
<1>9. CASE Mark
  BY <1>9 DEF Mark
<1>10. CASE CloseQueue
  BY <1>10 DEF CloseQueue
<1>11. CASE Wait
  BY <1>11 DEF Wait
<1>12. CASE UNCHANGED vars
  BY <1>12 DEF vars
<1> QED
  BY <1>1, <1>2, <1>3, <1>4, <1>5, <1>6, <1>7, <1>8, <1>9, <1>10, <1>11, <1>12
  DEF Next, Write, Work, Flush

\* Nothing is sent once a worker found the channel closed.
LEMMA LeftStep == HookInv /\ [Next]_vars => Left'
<1> SUFFICES ASSUME HookInv, [Next]_vars PROVE Left'
  OBVIOUS
<1> USE LogHookAssumption DEF HookInv, TypeOK, Entry, flags, writerVars, workerVars, Left
<1>1. ASSUME NEW w \in Writer, CheckClosed(w) PROVE Left'
  BY <1>1 DEF CheckClosed
<1>2. ASSUME NEW w \in Writer, CheckRoom(w) PROVE Left'
  BY <1>2 DEF CheckRoom, Leave
<1>3. ASSUME NEW w \in Writer, Send(w) PROVE Left'
  BY <1>3 DEF Send, Leave
<1>4. ASSUME NEW w \in Writer, SendPanics(w) PROVE Left'
  BY <1>4 DEF SendPanics, Leave
<1>5. ASSUME NEW k \in Worker, Receive(k) PROVE Left'
  BY <1>5 DEF Receive
<1>6. ASSUME NEW k \in Worker, Exec(k) PROVE Left'
  BY <1>6 DEF Exec
<1>7. ASSUME NEW k \in Worker, ExecPanics(k) PROVE Left'
  BY <1>7 DEF ExecPanics
<1>8. ASSUME NEW k \in Worker, Drained(k) PROVE Left'
  BY <1>8 DEF Drained
<1>9. CASE Mark
  BY <1>9 DEF Mark
<1>10. CASE CloseQueue
  BY <1>10 DEF CloseQueue
<1>11. CASE Wait
  BY <1>11 DEF Wait
<1>12. CASE UNCHANGED vars
  BY <1>12 DEF vars
<1> QED
  BY <1>1, <1>2, <1>3, <1>4, <1>5, <1>6, <1>7, <1>8, <1>9, <1>10, <1>11, <1>12
  DEF Next, Write, Work, Flush

\* Workers take from the channel what writers put there.
LEMMA KnownStep == HookInv /\ [Next]_vars => Known'
<1> SUFFICES ASSUME HookInv, [Next]_vars PROVE Known'
  OBVIOUS
<1> USE LogHookAssumption DEF HookInv, TypeOK, Entry, flags, writerVars, workerVars, Known, Holding
<1>1. ASSUME NEW w \in Writer, CheckClosed(w) PROVE Known'
  BY <1>1 DEF CheckClosed
<1>2. ASSUME NEW w \in Writer, CheckRoom(w) PROVE Known'
  BY <1>2 DEF CheckRoom, Leave
<1>3. ASSUME NEW w \in Writer, Send(w) PROVE Known'
  BY <1>3 DEF Send, Leave
<1>4. ASSUME NEW w \in Writer, SendPanics(w) PROVE Known'
  BY <1>4 DEF SendPanics, Leave
<1>5. ASSUME NEW k \in Worker, Receive(k) PROVE Known'
  BY <1>5 DEF Receive
<1>6. ASSUME NEW k \in Worker, Exec(k) PROVE Known'
  BY <1>6 DEF Exec
<1>7. ASSUME NEW k \in Worker, ExecPanics(k) PROVE Known'
  BY <1>7 DEF ExecPanics
<1>8. ASSUME NEW k \in Worker, Drained(k) PROVE Known'
  BY <1>8 DEF Drained
<1>9. CASE Mark
  BY <1>9 DEF Mark
<1>10. CASE CloseQueue
  BY <1>10 DEF CloseQueue
<1>11. CASE Wait
  BY <1>11 DEF Wait
<1>12. CASE UNCHANGED vars
  BY <1>12 DEF vars
<1> QED
  BY <1>1, <1>2, <1>3, <1>4, <1>5, <1>6, <1>7, <1>8, <1>9, <1>10, <1>11, <1>12
  DEF Next, Write, Work, Flush

\* No step loses an accepted entry.
LEMMA KeptStep == HookInv /\ [Next]_vars => Kept'
<1> SUFFICES ASSUME HookInv, [Next]_vars PROVE Kept'
  OBVIOUS
<1> USE LogHookAssumption DEF HookInv, TypeOK, Entry, flags, writerVars, workerVars, Kept, Queued, InWork, Known
<1>1. ASSUME NEW w \in Writer, CheckClosed(w) PROVE Kept'
  BY <1>1 DEF CheckClosed
<1>2. ASSUME NEW w \in Writer, CheckRoom(w) PROVE Kept'
  BY <1>2 DEF CheckRoom, Leave
<1>3. ASSUME NEW w \in Writer, Send(w) PROVE Kept'
  BY <1>3 DEF Send, Leave
<1>4. ASSUME NEW w \in Writer, SendPanics(w) PROVE Kept'
  BY <1>4 DEF SendPanics, Leave
<1>5. ASSUME NEW k \in Worker, Receive(k) PROVE Kept'
  <2> SUFFICES ASSUME NEW e \in accepted PROVE (e \in handed \/ Queued(e) \/ InWork(e))'
    BY <1>5 DEF Receive
  <2>1. q # <<>> /\ q' = Tail(q) /\ kpc'[k] = "exec" /\ job'[k] = q[1] /\ kpc[k] = "receive"
    BY <1>5 DEF Receive
  <2>2. Len(q') = Len(q) - 1 /\ \A i \in 1..Len(q') : q'[i] = q[i + 1]
    BY <2>1
  <2>3. CASE e \in handed
    BY <1>5, <2>3 DEF Receive
  <2>4. ASSUME NEW i \in 1..Len(q), q[i] = e PROVE (Queued(e) \/ InWork(e))'
    <3>1. CASE i = 1
      BY <2>1, <2>4, <3>1
    <3>2. CASE i # 1
      <4>1. i - 1 \in 1..Len(q') /\ q'[i - 1] = e
        BY <2>2, <2>4, <3>2
      <4> QED BY <4>1
    <3> QED BY <3>1, <3>2
  <2>5. ASSUME NEW j \in Worker, kpc[j] = "exec", job[j] = e PROVE InWork(e)'
    BY <1>5, <2>5 DEF Receive
  <2> QED BY <2>3, <2>4, <2>5
<1>6. ASSUME NEW k \in Worker, Exec(k) PROVE Kept'
  BY <1>6 DEF Exec
<1>7. ASSUME NEW k \in Worker, ExecPanics(k) PROVE Kept'
  BY <1>7 DEF ExecPanics
<1>8. ASSUME NEW k \in Worker, Drained(k) PROVE Kept'
  BY <1>8 DEF Drained
<1>9. CASE Mark
  BY <1>9 DEF Mark
<1>10. CASE CloseQueue
  BY <1>10 DEF CloseQueue
<1>11. CASE Wait
  BY <1>11 DEF Wait
<1>12. CASE UNCHANGED vars
  BY <1>12 DEF vars
<1> QED
  BY <1>1, <1>2, <1>3, <1>4, <1>5, <1>6, <1>7, <1>8, <1>9, <1>10, <1>11, <1>12
  DEF Next, Write, Work, Flush

\* The invariant holds in every reachable state.
LEMMA HookInvAlways == Spec => []HookInv
<1>1. HookInv /\ [Next]_vars => HookInv'
  BY TypeStep, HoldingStep, LeftStep, KnownStep, KeptStep DEF HookInv
<1> QED BY <1>1, HookInit, PTL DEF Spec

\* The types of LogHook hold in every reachable state.
THEOREM HookTypeCorrect == Spec => []TypeOK
<1>1. HookInv => TypeOK
  BY DEF HookInv
<1> QED BY <1>1, HookInvAlways, PTL

\* When Flush has returned, every entry the channel accepted was handed to
\* Exec, unless every worker had panicked.
THEOREM FlushLosesNothing == Spec => []FlushHandsOverAll
<1>1. HookInv => FlushHandsOverAll
  <2> SUFFICES ASSUME HookInv, fpc = "done", dead # Worker PROVE accepted = handed
    BY DEF FlushHandsOverAll
  <2> USE DEF HookInv, TypeOK
  <2>1. \A k \in Worker : kpc[k] = "gone"
    BY DEF Left
  <2>2. PICK k \in Worker : k \notin dead
    OBVIOUS
  <2>3. q = <<>>
    BY <2>1, <2>2 DEF Left
  <2>4. \A e : ~Queued(e) /\ ~InWork(e)
    BY <2>1, <2>3 DEF Queued, InWork
  <2>5. accepted \subseteq handed
    BY <2>4 DEF Kept
  <2> QED BY <2>5 DEF Known
<1> QED BY <1>1, HookInvAlways, PTL

-----------------------------------------------------------------------------
(* Flush against late writers.                                             *)

\* The flag is set before the channel is closed, so whoever passes the flag
\* finds the channel open.
FlagFirst == (shut => closed) /\ LateWritesHarmless

\* No step closes the channel before the flag is set.
LEMMA FlagStep == FlagFirst /\ (fpc = "marked" => closed) /\ [Next]_vars
                     => FlagFirst' /\ (fpc = "marked" => closed)'
<1>. SUFFICES ASSUME FlagFirst, fpc = "marked" => closed, [Next]_vars
              PROVE  FlagFirst' /\ (fpc = "marked" => closed)'
  OBVIOUS
<1>. USE DEF FlagFirst, LateWritesHarmless, flags, writerVars, workerVars
<1>1. ASSUME NEW w \in Writer, Write(w) PROVE FlagFirst' /\ (fpc = "marked" => closed)'
  BY <1>1 DEF Write, CheckClosed, CheckRoom, Send, SendPanics, Leave
<1>2. ASSUME NEW k \in Worker, Work(k) PROVE FlagFirst' /\ (fpc = "marked" => closed)'
  BY <1>2 DEF Work, Receive, Exec, ExecPanics, Drained
<1>3. CASE Flush
  BY <1>3 DEF Flush, Mark, CloseQueue, Wait
<1>4. CASE UNCHANGED vars
  BY <1>4 DEF vars
<1>. QED BY <1>1, <1>2, <1>3, <1>4 DEF Next

\* No Write that begins after the channel was closed sends on it, however many
\* goroutines log and wherever Flush is (hook.go:98, hook.go:118).
THEOREM LateWritesAlwaysHarmless == Spec => []LateWritesHarmless
<1>1. Init => FlagFirst /\ (fpc = "marked" => closed)
  BY DEF Init, FlagFirst, LateWritesHarmless
<1>2. FlagFirst => LateWritesHarmless
  BY DEF FlagFirst
<1>. QED BY <1>1, <1>2, FlagStep, PTL DEF Spec

-----------------------------------------------------------------------------
(* The hook in the life of a process.                                      *)

\* Every step of the life is a step of the hook or leaves it alone.
LEMMA LogStep == [LifeNext]_lifeVars => [Next]_vars
<1> SUFFICES ASSUME LifeNext PROVE [Next]_vars
  BY DEF lifeVars
<1>1. ASSUME NEW p \in Proc, Start(p) \/ Listen(p) \/ MetricsFatal(p) PROVE UNCHANGED vars
  BY <1>1 DEF Start, Listen, MetricsFatal
<1>2. ASSUME NEW p \in Proc, Boots(p) PROVE UNCHANGED vars
  BY <1>2 DEF Boots, OpenStore, OpenPanics, StartFails, Killed, Serve
<1>3. ASSUME NEW p \in Proc, NEW s, MainLogs(p, s) PROVE [Next]_vars
  BY <1>3, LifecycleAssumption DEF MainLogs, Next, Write
<1>4. ASSUME NEW p \in Proc, Cleans(p) PROVE [Next]_vars
  <2>1. CASE Notice(p) \/ ShutdownTimesOut(p) \/ Bye(p)
    BY <1>3, <2>1 DEF Notice, ShutdownTimesOut, Bye
  <2>2. CASE FlushLog(p)
    BY <2>2 DEF FlushLog, Next
  <2>3. CASE Shutdown(p) \/ ShutdownReturns(p) \/ Overrun(p) \/ CloseAuth(p)
                \/ CloseCache(p) \/ CloseDb(p) \/ Exit(p)
    BY <2>3 DEF Shutdown, ShutdownReturns, Overrun, CloseAuth, CloseCache, CloseDb, Exit
  <2> QED BY <1>4, <2>1, <2>2, <2>3 DEF Cleans
<1>5. ASSUME Stop PROVE UNCHANGED vars
  BY <1>5 DEF Stop
<1>6. ASSUME NEW g \in Writer \cup Worker, LogGoesOn(g) PROVE Next
  BY <1>6 DEF LogGoesOn, Next, Write
<1>7. ASSUME NEW r \in Request, Connect(r) \/ Requested(r) PROVE [Next]_vars
  <2>1. CASE Log(r)
    BY <2>1 DEF Log, Next, Write, Request
  <2>2. CASE Connect(r) \/ Authenticate(r) \/ Operate(r) \/ Respond(r)
    BY <2>2 DEF Connect, Authenticate, Operate, Respond
  <2> QED BY <1>7, <2>1, <2>2 DEF Requested
<1> QED BY <1>1, <1>2, <1>4, <1>5, <1>6, <1>7 DEF LifeNext

\* The log within a process that starts, serves and ends is the hook of LogHook.
THEOREM LifeImplementsHook == LifeSpec => Spec
<1>1. LifeInit => Init
  BY DEF LifeInit
<1> QED BY <1>1, LogStep, PTL DEF LifeSpec, Spec

\* So an exit hands over every entry that was accepted in the process's life,
\* also those of requests that outlived the shutdown (http.go:96).
THEOREM ExitLosesNothing == LifeSpec => []FlushHandsOverAll
BY LifeImplementsHook, FlushLosesNothing

-----------------------------------------------------------------------------
(* Directories.                                                            *)

HoldsCache == {"cache", "auth", "running", "noticed", "logged", "shutdown", "closing auth",
               "closing cache"}
HoldsAuth == HoldsCache \ {"cache", "closing cache"}
Stage == HoldsCache \cup {"none", "starting", "closing db", "flushing", "bye", "exited"}

\* With both stores in badger a process has a directory exactly from opening it
\* to closing it, the tokens' within the cache's.
DirsHeld ==
    /\ stage \in [Proc -> Stage] /\ dir \in [Kind -> Proc \cup {Nobody}]
    /\ config["cache"] = "badger" => \A p \in Proc : dir["cache"] = p <=> stage[p] \in HoldsCache
    /\ \A p \in Proc : dir["auth"] = p => stage[p] \in HoldsAuth

\* Every step keeps the directories with their holders.
LEMMA DirsStep == DirsHeld /\ [LifeNext]_lifeVars => DirsHeld'
<1> SUFFICES ASSUME DirsHeld, [LifeNext]_lifeVars PROVE DirsHeld'
  OBVIOUS
<1>0. Nobody \notin Proc
  BY LifecycleAssumption
<1> USE <1>0 DEF DirsHeld, HoldsAuth, HoldsCache, Stage, Kind
<1>1. CASE UNCHANGED <<stage, dir, config>>
  BY <1>1
<1>2. ASSUME NEW p \in Proc, NEW s \in Stage, Become(p, s), UNCHANGED <<dir, config>>,
             s \in HoldsCache <=> stage[p] \in HoldsCache,
             stage[p] \in HoldsAuth => s \in HoldsAuth
      PROVE DirsHeld'
  BY <1>2 DEF Become
<1>3. ASSUME NEW p \in Proc, Ends(p), UNCHANGED config PROVE DirsHeld'
  <2>1. /\ stage' \in [Proc -> Stage] /\ stage' = [stage EXCEPT ![p] = "exited"]
        /\ dir' \in [Kind -> Proc \cup {Nobody}]
    BY <1>3 DEF Ends, Become
  <2>2. \A o \in Proc : stage'[o] = IF o = p THEN "exited" ELSE stage[o]
    BY <2>1
  <2>3. \A o \in Proc : /\ dir'["auth"] = o <=> o # p /\ dir["auth"] = o
                        /\ dir'["cache"] = o <=> o # p /\ dir["cache"] = o
    BY <1>3 DEF Ends
  <2>4. \A o \in Proc : /\ stage'[o] \in HoldsCache <=> o # p /\ stage[o] \in HoldsCache
                        /\ stage[o] \in HoldsAuth /\ o # p => stage'[o] \in HoldsAuth
    BY <2>2
  <2>5. config'["cache"] = config["cache"]
    BY <1>3
  <2> HIDE DEF HoldsAuth, HoldsCache, Stage, Kind
  <2> QED BY <2>1, <2>3, <2>4, <2>5
<1>4. ASSUME NEW p \in Proc, OpenStore(p, "cache", "starting") PROVE DirsHeld'
  <2>1. /\ stage' \in [Proc -> Stage] /\ dir' \in [Kind -> Proc \cup {Nobody}]
        /\ config'["cache"] = config["cache"] /\ stage[p] = "starting"
    BY <1>4 DEF OpenStore, Become, outside
  <2>2. \A o \in Proc : stage'[o] = IF o = p THEN "cache" ELSE stage[o]
    BY <1>4 DEF OpenStore, Become
  <2>3. dir'["auth"] = dir["auth"]
    BY <1>4 DEF OpenStore
  <2>4. config["cache"] = "badger" => dir["cache"] = Nobody /\ dir'["cache"] = p
    BY <1>4 DEF OpenStore
  <2>5. \A o \in Proc : /\ stage'[o] \in HoldsCache <=> o = p \/ stage[o] \in HoldsCache
                        /\ stage[o] \in HoldsAuth => stage'[o] \in HoldsAuth
    BY <2>1, <2>2
  <2> HIDE DEF HoldsAuth, HoldsCache, Stage, Kind
  <2> QED BY <2>1, <2>3, <2>4, <2>5
<1>5. ASSUME NEW p \in Proc, OpenStore(p, "auth", "cache") PROVE DirsHeld'
  <2>1. /\ stage' \in [Proc -> Stage] /\ dir' \in [Kind -> Proc \cup {Nobody}]
        /\ config' = config /\ stage[p] = "cache"
    BY <1>5 DEF OpenStore, Become, outside
  <2>2. \A o \in Proc : stage'[o] = IF o = p THEN "auth" ELSE stage[o]
    BY <1>5 DEF OpenStore, Become
  <2>3. dir'["cache"] = dir["cache"]
    BY <1>5 DEF OpenStore
  <2>4. dir'["auth"] = dir["auth"] \/ dir'["auth"] = p
    BY <1>5 DEF OpenStore
  <2> QED BY <2>1, <2>2, <2>3, <2>4
<1>6. ASSUME NEW p \in Proc, CloseAuth(p) PROVE DirsHeld'
  BY <1>6 DEF CloseAuth, Become, Leaves
<1>7. ASSUME NEW p \in Proc, CloseCache(p) PROVE DirsHeld'
  BY <1>7 DEF CloseCache, Become, Leaves, outside
<1>8. ASSUME NEW p \in Proc, Start(p) \/ Listen(p) PROVE DirsHeld'
  BY <1>8, <1>1, <1>2 DEF Start, Listen, holdings, outside
<1>9. ASSUME NEW p \in Proc, Boots(p) PROVE DirsHeld'
  <2>1. CASE OpenPanics(p, "cache", "starting") \/ OpenPanics(p, "auth", "cache")
             \/ StartFails(p) \/ Killed(p)
    BY <1>3, <2>1 DEF OpenPanics, StartFails, Killed, outside
  <2>2. CASE Serve(p)
    BY <1>2, <2>2 DEF Serve, holdings, outside
  <2> QED BY <1>9, <1>4, <1>5, <2>1, <2>2 DEF Boots
<1>10. ASSUME NEW p \in Proc, Cleans(p) PROVE DirsHeld'
  <2>1. CASE Notice(p) \/ ShutdownTimesOut(p) \/ Bye(p)
    BY <1>2, <2>1 DEF Notice, ShutdownTimesOut, Bye, MainLogs, holdings, outside
  <2>2. CASE FlushLog(p)
    BY <1>1, <2>2 DEF FlushLog, holdings, outside
  <2>3. CASE Shutdown(p) \/ ShutdownReturns(p) \/ Overrun(p) \/ CloseDb(p)
    BY <1>2, <2>3 DEF Shutdown, ShutdownReturns, Overrun, CloseDb, holdings, outside
  <2>4. CASE Exit(p)
    BY <1>3, <2>4 DEF Exit, outside
  <2> QED BY <1>10, <1>6, <1>7, <2>1, <2>2, <2>3, <2>4 DEF Cleans
<1>11. ASSUME Stop PROVE DirsHeld'
  BY <1>11, <1>1 DEF Stop, holdings
<1>12. ASSUME NEW g \in Writer \cup Worker, LogGoesOn(g) PROVE DirsHeld'
  BY <1>12, <1>1 DEF LogGoesOn, holdings, outside
<1>13. ASSUME NEW r \in Request, Connect(r) \/ Requested(r) PROVE DirsHeld'
  BY <1>13, <1>1 DEF Connect, Requested, Authenticate, Operate, Log, Respond, procVars, holdings
<1>14. ASSUME NEW p \in Proc, MetricsFatal(p) PROVE DirsHeld'
  BY <1>14, <1>3 DEF MetricsFatal, outside
<1>15. CASE UNCHANGED lifeVars
  BY <1>15, <1>1 DEF lifeVars, holdings, outside
<1> QED BY <1>8, <1>9, <1>10, <1>11, <1>12, <1>13, <1>14, <1>15 DEF LifeNext

\* For any number of processes: one that has got the directory of the cache can
\* take that of the tokens, in whatever state the others are.
THEOREM SecondDirAlwaysFree == LifeSpec => []SecondDirFree
<1>1. LifeInit => DirsHeld
  <2>1. Nobody \notin Proc
    BY LifecycleAssumption
  <2> SUFFICES ASSUME LifeInit PROVE DirsHeld
    OBVIOUS
  <2>2. /\ stage = [p \in Proc |-> "none"] /\ dir = [k \in Kind |-> Nobody]
    BY DEF LifeInit
  <2> QED BY <2>1, <2>2 DEF DirsHeld, HoldsCache, HoldsAuth, Stage, Kind
<1>2. DirsHeld => SecondDirFree
  <2> SUFFICES ASSUME DirsHeld, NEW p \in Proc, config["cache"] = "badger", stage[p] = "cache",
                      dir["auth"] # Nobody
               PROVE FALSE
    BY DEF SecondDirFree
  <2>1. PICK o \in Proc : dir["auth"] = o
    BY DEF DirsHeld, Kind
  <2>2. stage[o] \in HoldsAuth
    BY <2>1 DEF DirsHeld
  <2>3. dir["cache"] = o /\ dir["cache"] = p
    BY <2>2 DEF DirsHeld, HoldsAuth, HoldsCache
  <2> QED BY <2>2, <2>3 DEF HoldsAuth
<1> QED BY <1>1, <1>2, DirsStep, PTL DEF LifeSpec

-----------------------------------------------------------------------------
(* Types.                                                                  *)

\* A counter below its bound may be raised.
LEMMA RaisedCounter == ASSUME NEW m \in Nat, NEW n \in 0..m, n < m PROVE n + 1 \in 0..m
OBVIOUS

\* Every step keeps the types.
LEMMA LifeTypeStep == LifeTypeOK /\ [LifeNext]_lifeVars => LifeTypeOK'
<1>. SUFFICES ASSUME LifeTypeOK, [LifeNext]_lifeVars PROVE LifeTypeOK'
  OBVIOUS
<1>. USE DEF LifeTypeOK
<1>1. CASE UNCHANGED <<config, stage, notified, holdings, lockVars, requestVars, overrun>>
  BY <1>1 DEF holdings, lockVars, requestVars
<1>2. ASSUME NEW p \in Proc, Start(p) \/ Listen(p) PROVE LifeTypeOK'
  BY <1>2 DEF Start, Listen, Become, holdings, requestVars, outside, lockVars
<1>3. ASSUME NEW p \in Proc, Ends(p), UNCHANGED <<serving, outside>> PROVE LifeTypeOK'
  BY <1>3 DEF Ends, Become, outside, lockVars, requestVars, Kind
<1>4. ASSUME NEW p \in Proc, Boots(p) \/ MetricsFatal(p) PROVE LifeTypeOK'
  <2>1. ASSUME NEW kind \in Kind, NEW from, OpenStore(p, kind, from) PROVE LifeTypeOK'
    <3>1. stage' = [stage EXCEPT ![p] = kind] /\ kind \in {"cache", "auth"}
          /\ (dir' = dir \/ dir' = [dir EXCEPT ![kind] = p])
          /\ UNCHANGED <<serving, port, outside>>
      BY <2>1 DEF OpenStore, Become, Kind
    <3>2. dir' \in [Kind -> Proc \cup {Nobody}]
      BY <3>1
    <3>. QED BY <3>1, <3>2 DEF outside, lockVars, requestVars
  <2>2. CASE Serve(p)
    BY <2>2 DEF Serve, Become, holdings, outside, lockVars, requestVars
  <2>3. ASSUME NEW kind, NEW from, OpenPanics(p, kind, from) PROVE LifeTypeOK'
    BY <1>3, <2>3 DEF OpenPanics
  <2>4. CASE StartFails(p) \/ Killed(p) \/ MetricsFatal(p)
    BY <1>3, <2>4 DEF StartFails, Killed, MetricsFatal
  <2>. QED BY <1>4, <2>1, <2>2, <2>3, <2>4 DEF Boots, Kind
<1>5. ASSUME NEW p \in Proc, Cleans(p) PROVE LifeTypeOK'
  <2>1. CASE Notice(p) \/ Bye(p)
    BY <2>1 DEF Notice, Bye, MainLogs, Become, holdings, outside, lockVars, requestVars
  <2>2. CASE ShutdownTimesOut(p)
    BY <2>2 DEF ShutdownTimesOut, MainLogs, Become, holdings, lockVars, requestVars
  <2>3. CASE Shutdown(p)
    BY <2>3 DEF Shutdown, Become, outside, lockVars, requestVars
  <2>4. CASE ShutdownReturns(p) \/ Overrun(p) \/ CloseDb(p)
    BY <2>4 DEF ShutdownReturns, Overrun, CloseDb, Become, holdings, outside, lockVars, requestVars
  <2>5. CASE CloseAuth(p)
    BY <2>5 DEF CloseAuth, Become, Leaves, lockVars, Kind
  <2>6. CASE CloseCache(p)
    BY <2>6 DEF CloseCache, Become, Leaves, outside, lockVars, requestVars, Kind
  <2>7. CASE FlushLog(p)
    BY <2>7, <1>1 DEF FlushLog, outside
  <2>8. CASE Exit(p)
    BY <2>8, <1>3 DEF Exit
  <2>. QED BY <1>5, <2>1, <2>2, <2>3, <2>4, <2>5, <2>6, <2>7, <2>8 DEF Cleans
<1>6. CASE Stop
  <2>1. stops' \in 0..MaxStops
    <3>1. MaxStops \in Nat /\ stops \in 0..MaxStops /\ stops < MaxStops /\ stops' = stops + 1
      BY <1>6, LifecycleAssumption DEF Stop
    <3>. QED BY ONLY <3>1, RaisedCounter
  <2>. QED BY <1>6, <2>1 DEF Stop, holdings, requestVars
<1>7. ASSUME NEW g \in Writer \cup Worker, LogGoesOn(g) PROVE LifeTypeOK'
  BY <1>7, <1>1 DEF LogGoesOn, outside
<1>8. ASSUME NEW r \in Request, Connect(r) PROVE LifeTypeOK'
  <2>1. asked' \in 0..MaxRequests
    <3>1. MaxRequests \in Nat /\ asked \in 0..MaxRequests /\ asked < MaxRequests /\ asked' = asked + 1
      BY <1>8, LifecycleAssumption DEF Connect
    <3>. QED BY ONLY <3>1, RaisedCounter
  <2>2. /\ rpc' = [rpc EXCEPT ![r] = "body"] /\ home' = [home EXCEPT ![r] = port]
        /\ port \in Proc /\ ask' \in [Request -> {"logout", "other"}]
        /\ UNCHANGED <<config, procVars, lockVars, destroyed, loggedOut, breaches, strayed, overrun>>
    BY <1>8 DEF Connect
  <2>. QED BY <2>1, <2>2 DEF procVars, holdings, lockVars
<1>9. ASSUME NEW r \in Request, Requested(r) PROVE LifeTypeOK'
  <2>1. CASE Authenticate(r)
    <3>1. home[r] \in Proc
      OBVIOUS
    <3>2. /\ rpc' \in [Request -> {"idle", "body", "operate", "log", "respond"}]
          /\ breaches' = breaches \/ breaches' = breaches \cup ({home[r]} \X loggedOut)
          /\ strayed' = strayed \/ strayed' = strayed \cup {home[r]}
          /\ UNCHANGED <<config, procVars, lockVars, ask, home, destroyed, loggedOut, asked, overrun>>
      BY <2>1 DEF Authenticate
    <3>3. breaches' \subseteq Proc \X Proc /\ strayed' \subseteq Proc
      BY <3>1, <3>2
    <3>. QED BY <3>2, <3>3 DEF procVars, holdings, lockVars
  <2>2. CASE Operate(r)
    <3>1. home[r] \in Proc /\ TokenStore(home[r]) \in Proc \cup {Nobody}
      BY DEF TokenStore
    <3>2. /\ rpc' = [rpc EXCEPT ![r] = "log"]
          /\ destroyed' \in {destroyed, destroyed \cup {TokenStore(home[r])}}
          /\ loggedOut' \in {loggedOut, loggedOut \cup {home[r]}}
          /\ strayed' \in {strayed, strayed \cup {home[r]}}
          /\ UNCHANGED <<config, procVars, lockVars, ask, home, breaches, asked, overrun>>
      BY <2>2 DEF Operate
    <3>3. destroyed' \subseteq Proc \cup {Nobody} /\ loggedOut' \subseteq Proc /\ strayed' \subseteq Proc
      BY <3>1, <3>2
    <3>. QED BY <3>2, <3>3 DEF procVars, holdings, lockVars
  <2>3. CASE Log(r)
    BY <2>3 DEF Log, procVars, holdings, lockVars
  <2>4. CASE Respond(r)
    BY <2>4, LifecycleAssumption DEF Respond, procVars, holdings, lockVars
  <2>. QED BY <1>9, <2>1, <2>2, <2>3, <2>4 DEF Requested
<1>10. CASE UNCHANGED lifeVars
  BY <1>1, <1>10 DEF lifeVars, outside
<1>. QED BY <1>2, <1>4, <1>5, <1>6, <1>7, <1>8, <1>9, <1>10 DEF LifeNext

\* The processes, their holdings and their requests keep their types.
THEOREM LifeTypeCorrect == LifeSpec => []LifeTypeOK
<1>1. LifeInit => LifeTypeOK
  <2>. SUFFICES ASSUME LifeInit PROVE LifeTypeOK
    OBVIOUS
  <2>1. stops \in 0..MaxStops /\ asked \in 0..MaxRequests
    <3>1. stops = 0 /\ asked = 0 /\ MaxStops \in Nat /\ MaxRequests \in Nat
      BY LifecycleAssumption DEF LifeInit
    <3>. QED BY <3>1
  <2>. QED BY <2>1, LifecycleAssumption DEF LifeInit, LifeTypeOK
<1>. QED BY <1>1, LifeTypeStep, PTL DEF LifeSpec

-----------------------------------------------------------------------------
(* Requests and the stores of their process.                               *)

\* The listener belongs to a process that serves.
PortServed == port # Nobody => port \in Proc /\ stage[port] \in {"running", "noticed"}

\* A request keeps its process from closing anything, unless the shutdown timed
\* out on it or the process is gone.
ServedWhileOpen ==
    \A r \in Request :
       rpc[r] # "idle" /\ home[r] \notin overrun
          => stage[home[r]] \in {"running", "noticed", "shutdown", "exited"}

\* What an answered logout destroyed stays destroyed until its store is closed.
AuthClosed == {"closing cache", "closing db", "flushing", "bye", "exited"}
LogoutKept ==
    /\ config["auth"] # "memory" => (loggedOut # {} => Nobody \in destroyed)
    /\ config["auth"] = "memory" => \A p \in loggedOut : p \in destroyed \/ stage[p] \in AuthClosed

LifeInv ==
    LifeTypeOK /\ PortServed /\ ServedWhileOpen /\ LogoutKept /\ NoUseAfterClose /\ LogoutHolds

\* A process's step from stage to stage keeps the invariant when it closes
\* nothing under a request and gives up the port when it stops serving.
LEMMA MovesOn ==
  ASSUME LifeInv, LifeTypeOK', NEW p \in Proc, NEW s, Become(p, s),
         UNCHANGED <<config, rpc, home, destroyed, loggedOut, breaches, strayed>>,
         overrun \subseteq overrun',
         port' = port \/ (port = p /\ port' = Nobody),
         port' = p => s \in {"running", "noticed"},
         \/ s \in {"running", "noticed", "shutdown", "exited"}
         \/ stage[p] \notin {"running", "noticed", "shutdown", "exited"}
         \/ Active(p) = {} \/ p \in overrun',
         stage[p] \in AuthClosed => s \in AuthClosed
  PROVE  LifeInv'
<1>1. \A o \in Proc : stage'[o] = IF o = p THEN s ELSE stage[o]
  BY DEF LifeInv, LifeTypeOK, Become
<1>2. PortServed'
  BY <1>1, LifecycleAssumption DEF LifeInv, LifeTypeOK, PortServed
<1>3. ServedWhileOpen'
  <2>. SUFFICES ASSUME NEW r \in Request, rpc[r] # "idle", home[r] \notin overrun'
                PROVE  stage'[home[r]] \in {"running", "noticed", "shutdown", "exited"}
    BY DEF ServedWhileOpen
  <2>1. home[r] \in Proc /\ stage[home[r]] \in {"running", "noticed", "shutdown", "exited"}
    BY DEF LifeInv, LifeTypeOK, ServedWhileOpen
  <2>2. home[r] = p => r \in Active(p)
    BY DEF Active
  <2>. QED BY <1>1, <2>1, <2>2
<1>4. LogoutKept'
  BY <1>1 DEF LifeInv, LifeTypeOK, LogoutKept
<1>5. NoUseAfterClose' /\ LogoutHolds'
  BY DEF LifeInv, NoUseAfterClose, LogoutHolds
<1>. QED BY <1>2, <1>3, <1>4, <1>5 DEF LifeInv

\* The end of a process keeps the invariant.
LEMMA EndsWell ==
  ASSUME LifeInv, LifeTypeOK', NEW p \in Proc, Ends(p), UNCHANGED <<serving, outside>>
  PROVE  LifeInv'
<1>1. UNCHANGED <<config, rpc, home, destroyed, loggedOut, breaches, strayed, overrun>>
  BY DEF outside, requestVars
<1>2. Become(p, "exited") /\ (port' = port \/ (port = p /\ port' = Nobody)) /\ port' # p
  BY LifecycleAssumption DEF Ends
<1>. QED BY <1>1, <1>2, MovesOn DEF AuthClosed

\* A process on its way to serving has no listener, and no logout to keep.
LEMMA BootsWell ==
  ASSUME LifeInv, LifeTypeOK', NEW p \in Proc, Start(p) \/ Boots(p) PROVE LifeInv'
<1>. USE DEF LifeInv
<1>1. ASSUME NEW s, stage[p] \in {"none", "starting", "cache", "auth"}, Become(p, s),
             UNCHANGED <<port, config, requestVars, overrun>>
      PROVE  LifeInv'
  <2>1. UNCHANGED <<config, rpc, home, destroyed, loggedOut, breaches, strayed, overrun>>
    BY <1>1 DEF requestVars
  <2>2. port' # p /\ port' = port
    BY <1>1, LifecycleAssumption DEF PortServed
  <2>. QED BY <1>1, <2>1, <2>2, MovesOn DEF AuthClosed
<1>2. CASE Start(p)
  BY <1>1, <1>2 DEF Start, holdings
<1>3. CASE Serve(p)
  BY <1>1, <1>3 DEF Serve, holdings, outside
<1>4. ASSUME NEW kind, NEW from \in {"starting", "cache"}, OpenStore(p, kind, from) PROVE LifeInv'
  BY <1>1, <1>4 DEF OpenStore, outside
<1>5. ASSUME NEW kind, NEW from, OpenPanics(p, kind, from) PROVE LifeInv'
  BY <1>5, EndsWell DEF OpenPanics
<1>6. CASE StartFails(p) \/ Killed(p)
  BY <1>6, EndsWell DEF StartFails, Killed
<1>. QED BY <1>2, <1>3, <1>4, <1>5, <1>6 DEF Boots

\* Whoever cleans up waits for its requests, or gives up waiting.
LEMMA CleansWell ==
  ASSUME LifeInv, LifeTypeOK', NEW p \in Proc, Cleans(p) PROVE LifeInv'
<1>. USE DEF LifeInv
<1>. DEFINE kept == <<config, rpc, home, destroyed, loggedOut, breaches, strayed, overrun>>
<1>1. CASE Notice(p)
  <2>1. Become(p, "noticed") /\ stage[p] = "running" /\ UNCHANGED <<port, kept>>
    BY <1>1 DEF Notice, MainLogs, holdings, outside, requestVars
  <2>. QED BY <2>1, MovesOn DEF AuthClosed
<1>2. CASE Shutdown(p)
  <2>1. Become(p, "shutdown") /\ stage[p] = "noticed" /\ UNCHANGED kept
    BY <1>2 DEF Shutdown, outside, requestVars
  <2>2. (port' = port \/ (port = p /\ port' = Nobody)) /\ port' # p
    BY <1>2, LifecycleAssumption DEF Shutdown
  <2>. QED BY <2>1, <2>2, MovesOn DEF AuthClosed
<1>3. ASSUME NEW s, Become(p, s), stage[p] \notin {"running", "noticed"},
             UNCHANGED <<port, config, rpc, home, destroyed, loggedOut, breaches, strayed>>,
             overrun \subseteq overrun',
             stage[p] \notin {"shutdown", "exited"} \/ Active(p) = {} \/ p \in overrun',
             stage[p] \in AuthClosed => s \in AuthClosed
      PROVE  LifeInv'
  <2>1. port' = port /\ port' # p
    BY <1>3, LifecycleAssumption DEF PortServed
  <2>. QED BY <1>3, <2>1, MovesOn
<1>4. CASE ShutdownReturns(p)
  BY <1>3, <1>4 DEF ShutdownReturns, holdings, outside, requestVars, AuthClosed
<1>5. CASE ShutdownTimesOut(p)
  <2>1. /\ Become(p, "logged") /\ stage[p] = "shutdown" /\ overrun' = overrun \cup {p}
        /\ UNCHANGED <<port, config, rpc, home, destroyed, loggedOut, breaches, strayed>>
    BY <1>5 DEF ShutdownTimesOut, MainLogs, holdings, requestVars
  <2>. QED BY <1>3, <2>1 DEF AuthClosed
<1>6. CASE Overrun(p)
  BY <1>3, <1>6 DEF Overrun, holdings, outside, requestVars, AuthClosed
<1>7. CASE CloseAuth(p)
  <2>1. \A o \in Proc : stage'[o] = IF o = p THEN "closing cache" ELSE stage[o]
    BY <1>7 DEF CloseAuth, Become, LifeTypeOK
  <2>2. /\ stage[p] = "closing auth" /\ destroyed' = destroyed \ {p}
        /\ UNCHANGED <<config, rpc, home, loggedOut, breaches, strayed, overrun, port>>
    BY <1>7 DEF CloseAuth
  <2>3. PortServed'
    BY <2>1, <2>2 DEF PortServed
  <2>4. ServedWhileOpen'
    BY <2>1, <2>2 DEF ServedWhileOpen, LifeTypeOK
  <2>5. LogoutKept'
    <3>1. Nobody \in destroyed => Nobody \in destroyed'
      BY <2>2, LifecycleAssumption
    <3>2. ASSUME NEW o \in loggedOut, o \in destroyed \/ stage[o] \in AuthClosed
          PROVE  o \in destroyed' \/ stage'[o] \in AuthClosed
      <4>1. o \in Proc
        BY DEF LifeTypeOK
      <4>2. CASE o = p
        BY <2>1, <4>2 DEF AuthClosed
      <4>3. CASE o # p
        BY <2>1, <2>2, <3>2, <4>1, <4>3
      <4>. QED BY <4>2, <4>3
    <3>. QED BY <2>2, <3>1, <3>2 DEF LogoutKept
  <2>6. NoUseAfterClose' /\ LogoutHolds'
    BY <2>2 DEF NoUseAfterClose, LogoutHolds
  <2>. QED BY <2>3, <2>4, <2>5, <2>6
<1>8. CASE CloseCache(p) \/ CloseDb(p)
  BY <1>3, <1>8 DEF CloseCache, CloseDb, holdings, outside, requestVars, AuthClosed
<1>9. CASE FlushLog(p)
  BY <1>9 DEF FlushLog, holdings, outside, requestVars, PortServed, ServedWhileOpen, LogoutKept,
              NoUseAfterClose, LogoutHolds
<1>10. CASE Bye(p)
  <2>1. Become(p, "bye") /\ stage[p] = "flushing" /\ UNCHANGED <<port, kept>>
    BY <1>10 DEF Bye, MainLogs, holdings, outside, requestVars
  <2>. QED BY <1>3, <2>1 DEF AuthClosed
<1>11. CASE Exit(p)
  BY <1>11, EndsWell DEF Exit
<1>. QED BY <1>1, <1>2, <1>4, <1>5, <1>6, <1>7, <1>8, <1>9, <1>10, <1>11 DEF Cleans

\* A request finds its process as it must be.
LEMMA RequestsWell ==
  ASSUME LifeInv, LifeTypeOK', NEW r \in Request, Connect(r) \/ Requested(r) PROVE LifeInv'
<1>. USE DEF LifeInv
<1>0. \A o \in Request : home[o] \in Proc
  BY DEF LifeTypeOK
<1>1. CASE Connect(r)
  <2>1. /\ port # Nobody /\ rpc' = [rpc EXCEPT ![r] = "body"] /\ home' = [home EXCEPT ![r] = port]
        /\ UNCHANGED <<config, stage, port, destroyed, loggedOut, breaches, strayed, overrun>>
    BY <1>1 DEF Connect, procVars, holdings
  <2>2. ServedWhileOpen'
    BY <2>1 DEF ServedWhileOpen, PortServed, LifeTypeOK
  <2>. QED BY <2>1, <2>2 DEF PortServed, LogoutKept, NoUseAfterClose, LogoutHolds
<1>2. CASE Authenticate(r)
  <2>. DEFINE p == home[r]
  <2>1. /\ rpc[r] = "body" /\ p \in Proc /\ Alive(p)
        /\ UNCHANGED <<config, stage, port, home, destroyed, loggedOut, overrun>>
        /\ \E to : rpc' = [rpc EXCEPT ![r] = to]
    BY <1>0, <1>2 DEF Authenticate, procVars, holdings
  <2>5. \A o \in Request : rpc'[o] # "idle" => rpc[o] # "idle"
    BY <2>1 DEF LifeTypeOK
  <2>2. p \notin overrun => stage[p] \in {"running", "noticed", "shutdown"}
    BY <2>1 DEF ServedWhileOpen, Alive
  <2>3. NoUseAfterClose'
    <3>1. p \notin overrun => AuthOpen(p)
      BY <2>2 DEF AuthOpen, CacheOpen, DbOpen
    <3>. QED BY <1>2, <2>1, <3>1 DEF Authenticate, NoUseAfterClose
  <2>4. LogoutHolds'
    <3>1. CASE breaches' = breaches
      BY <2>1, <3>1 DEF LogoutHolds
    <3>2. CASE /\ breaches' = breaches \cup ({p} \X loggedOut)
               /\ TokenStore(p) \notin destroyed
      <4>1. ASSUME NEW o \in loggedOut
            PROVE  config["auth"] = "memory" /\ (p # o \/ p \in overrun)
        <5>1. config["auth"] = "memory"
          BY <3>2, <4>1 DEF LogoutKept, TokenStore
        <5>2. p = o => stage[p] \in AuthClosed
          BY <3>2, <4>1, <5>1 DEF LogoutKept, TokenStore
        <5>. QED BY <2>2, <5>1, <5>2 DEF AuthClosed
      <4>2. \A at \in {p} \X loggedOut : at[1] = p /\ at[2] \in loggedOut
        OBVIOUS
      <4>. HIDE DEF p
      <4>. QED BY <2>1, <3>2, <4>1, <4>2 DEF LogoutHolds
    <3>. QED BY <1>2, <3>1, <3>2 DEF Authenticate
  <2>. QED BY <2>1, <2>3, <2>4, <2>5 DEF PortServed, ServedWhileOpen, LogoutKept
<1>3. CASE Operate(r)
  <2>. DEFINE p == home[r]
  <2>1. /\ rpc[r] = "operate" /\ p \in Proc /\ Alive(p)
        /\ UNCHANGED <<config, stage, port, home, breaches, overrun>>
        /\ \A o \in Request : rpc'[o] # "idle" => rpc[o] # "idle"
    BY <1>0, <1>3 DEF Operate, procVars, holdings, LifeTypeOK
  <2>2. p \notin overrun => DbOpen(p) /\ CacheOpen(p)
    BY <2>1 DEF ServedWhileOpen, Alive, CacheOpen, DbOpen
  <2>3. NoUseAfterClose'
    BY <1>3, <2>1, <2>2 DEF Operate, NoUseAfterClose
  <2>4. LogoutKept'
    BY <1>3, <2>1 DEF Operate, LogoutKept, TokenStore
  <2>. QED BY <2>1, <2>3, <2>4 DEF PortServed, ServedWhileOpen, LogoutHolds
<1>4. CASE Log(r) \/ Respond(r)
  <2>1. /\ rpc[r] # "idle"
        /\ UNCHANGED <<config, stage, port, destroyed, loggedOut, breaches, strayed, overrun>>
        /\ \A o \in Request : rpc'[o] # "idle" => rpc[o] # "idle" /\ home'[o] = home[o]
    <3>1. CASE Log(r)
      BY <3>1 DEF Log, procVars, holdings, LifeTypeOK
    <3>2. CASE Respond(r)
      BY <3>2 DEF Respond, procVars, holdings, LifeTypeOK
    <3>. QED BY <1>4, <3>1, <3>2
  <2>. QED BY <2>1 DEF PortServed, ServedWhileOpen, LogoutKept, NoUseAfterClose, LogoutHolds
<1>. QED BY <1>1, <1>2, <1>3, <1>4 DEF Requested

\* Every step keeps the invariant.
LEMMA LifeInvStep == LifeInv /\ [LifeNext]_lifeVars => LifeInv'
<1>. SUFFICES ASSUME LifeInv, [LifeNext]_lifeVars PROVE LifeInv'
  OBVIOUS
<1>0. LifeTypeOK'
  BY LifeTypeStep DEF LifeInv
<1>1. CASE UNCHANGED <<config, stage, port, rpc, home, destroyed, loggedOut, breaches, strayed, overrun>>
  BY <1>0, <1>1 DEF LifeInv, PortServed, ServedWhileOpen, LogoutKept, NoUseAfterClose, LogoutHolds
<1>2. ASSUME NEW p \in Proc, Listen(p) PROVE LifeInv'
  <2>1. /\ port' = port \/ (port' = p /\ stage[p] \in {"running", "noticed"})
        /\ UNCHANGED <<config, stage, rpc, home, destroyed, loggedOut, breaches, strayed, overrun>>
    BY <1>2 DEF Listen, outside, requestVars
  <2>. QED BY <1>0, <2>1 DEF LifeInv, PortServed, ServedWhileOpen, LogoutKept, NoUseAfterClose,
                             LogoutHolds
<1>3. ASSUME NEW p \in Proc, Start(p) \/ Boots(p) PROVE LifeInv'
  BY <1>0, <1>3, BootsWell
<1>4. ASSUME NEW p \in Proc, Cleans(p) PROVE LifeInv'
  BY <1>0, <1>4, CleansWell
<1>5. ASSUME NEW p \in Proc, MetricsFatal(p) PROVE LifeInv'
  BY <1>0, <1>5, EndsWell DEF MetricsFatal
<1>6. CASE Stop
  BY <1>1, <1>6 DEF Stop, holdings, requestVars
<1>7. ASSUME NEW g \in Writer \cup Worker, LogGoesOn(g) PROVE LifeInv'
  BY <1>1, <1>7 DEF LogGoesOn, holdings, outside, requestVars
<1>8. ASSUME NEW r \in Request, Connect(r) \/ Requested(r) PROVE LifeInv'
  BY <1>0, <1>8, RequestsWell
<1>9. CASE UNCHANGED lifeVars
  BY <1>1, <1>9 DEF lifeVars, holdings, outside, requestVars
<1>. QED BY <1>2, <1>3, <1>4, <1>5, <1>6, <1>7, <1>8, <1>9 DEF LifeNext

\* The invariant holds in every reachable state.
LEMMA LifeInvAlways == LifeSpec => []LifeInv
<1>1. LifeInit /\ LifeTypeOK => LifeInv
  BY LifecycleAssumption DEF LifeInit, LifeInv, PortServed, ServedWhileOpen, LogoutKept,
     NoUseAfterClose, LogoutHolds
<1>. QED BY <1>1, LifeTypeCorrect, LifeInvStep, PTL DEF LifeSpec

\* No request uses a store its process has closed unless the shutdown timed out
\* on it, for any number of processes and requests (http.go:96).
THEOREM StoresOutliveRequests == LifeSpec => []NoUseAfterClose
<1>1. LifeInv => NoUseAfterClose
  BY DEF LifeInv
<1>. QED BY <1>1, LifeInvAlways, PTL

\* An answered logout holds at every process, but for a token store in memory:
\* there only at the process that answered, and until it closes the store under
\* a request that outlived the shutdown (injector.go:119).
THEOREM LogoutHoldsEverywhere == LifeSpec => []LogoutHolds
<1>1. LifeInv => LogoutHolds
  BY DEF LifeInv
<1>. QED BY <1>1, LifeInvAlways, PTL

\* The hook's promise about late writers holds of the process: whatever outlives
\* the shutdown logs before the channel is closed, or finds the flag.
THEOREM LateRequestsHarmless == LifeSpec => []LateWritesHarmless
BY LifeImplementsHook, LateWritesAlwaysHarmless

==============================================================================
