------------------------------ MODULE PolicyLoad ------------------------------
(***************************************************************************)
(* The worker pool inside Casbinx.load (internal/mods/rbac/casbin.go).     *)
(*                                                                         *)
(* The loader queries one role after the other and pushes what it found    *)
(* into a channel with room for all of them; LoadThread workers turn items *)
(* into lines of their own buffer, and when the channel is closed and      *)
(* empty they append that buffer to the shared one under a lock.           *)
(***************************************************************************)
EXTENDS Naturals, FiniteSets

CONSTANTS Role,    \* the enabled roles the load found
          Line,    \* the <<path, method>> pairs
          Granted, \* what queryRoleResources returns for a role
          Worker,  \* Middleware.Casbin.LoadThread goroutines
          Nil      \* nobody, nothing

VARIABLES
    pc,      \* the loader's program counter
    todo,    \* roles it has yet to query
    skipped, \* roles whose queries failed
    queue,   \* the channel; the order of its items is of no matter
    closed,  \* whether it is closed
    wpc,     \* each worker's program counter
    ibuf,    \* its own buffer
    base,    \* what it found in the shared buffer it is writing
    lock,    \* who holds the lock
    buf,     \* the shared buffer
    running  \* the workers that have not called wg.Done

loaderVars == <<pc, todo, skipped, closed>>
vars == <<loaderVars, queue, wpc, ibuf, base, lock, buf, running>>

\* The configuration's default for LoadThread is 2, also for a 0.
ASSUME PolicyLoadAssumption ==
    /\ Granted \in [Role -> SUBSET Line]
    /\ Worker # {}
    /\ Nil \notin Worker

Lines(r) == {x \in Role \X Line : x[1] = r /\ x[2] \in Granted[r]}

Init ==
    /\ pc = "start" /\ todo = Role /\ skipped = {}
    /\ queue = {} /\ closed = FALSE
    /\ wpc = [k \in Worker |-> "none"]
    /\ ibuf = [k \in Worker |-> {}] /\ base = [k \in Worker |-> {}]
    /\ lock = Nil /\ buf = {} /\ running = {}

-----------------------------------------------------------------------------
(* The loader.                                                             *)

\* wg.Add and the goroutines.
Start ==
    /\ pc = "start"
    /\ pc' = "push"
    /\ running' = Worker
    /\ wpc' = [k \in Worker |-> "receive"]
    /\ UNCHANGED <<todo, skipped, queue, closed, ibuf, base, lock, buf>>

\* The channel has room for len(roleResult.Data) items.
Push(r) ==
    /\ pc = "push" /\ r \in todo
    /\ Cardinality(queue) < Cardinality(Role)
    /\ todo' = todo \ {r}
    /\ queue' = queue \cup {r}
    /\ UNCHANGED <<pc, skipped, closed, wpc, ibuf, base, lock, buf, running>>

\* The queries of a role fail: it is left out.
Skip(r) ==
    /\ pc = "push" /\ r \in todo
    /\ todo' = todo \ {r}
    /\ skipped' = skipped \cup {r}
    /\ UNCHANGED <<pc, queue, closed, wpc, ibuf, base, lock, buf, running>>

\* Mutant: the channel is left open.
WaitWithoutClose ==
    /\ pc = "push" /\ todo = {}
    /\ pc' = "wait"
    /\ UNCHANGED <<todo, skipped, queue, closed, wpc, ibuf, base, lock, buf, running>>

Close ==
    /\ pc = "push" /\ todo = {}
    /\ closed' = TRUE
    /\ pc' = "wait"
    /\ UNCHANGED <<todo, skipped, queue, wpc, ibuf, base, lock, buf, running>>

\* wg.Wait.
Wait ==
    /\ pc = "wait" /\ running = {}
    /\ pc' = "done"
    /\ UNCHANGED <<todo, skipped, queue, closed, wpc, ibuf, base, lock, buf, running>>

-----------------------------------------------------------------------------
(* The workers.                                                            *)

Goto(k, where) == wpc' = [wpc EXCEPT ![k] = where]

\* An item is received and turned into lines.
Receive(k) ==
    /\ wpc[k] = "receive"
    /\ \E r \in queue : /\ queue' = queue \ {r}
                        /\ ibuf' = [ibuf EXCEPT ![k] = @ \cup Lines(r)]
    /\ UNCHANGED <<loaderVars, wpc, base, lock, buf, running>>

\* The range loop ends: closed and empty.
Drained(k) ==
    /\ wpc[k] = "receive"
    /\ closed /\ queue = {}
    /\ Goto(k, "lock")
    /\ UNCHANGED <<loaderVars, queue, ibuf, base, lock, buf, running>>

\* Mutant: the lock is not taken.
LockNot(k) ==
    /\ wpc[k] = "lock"
    /\ base' = [base EXCEPT ![k] = buf]
    /\ Goto(k, "write")
    /\ UNCHANGED <<loaderVars, queue, ibuf, lock, buf, running>>

\* The lock is taken; the write to the shared buffer begins with its end as it
\* is now.
Lock(k) ==
    /\ wpc[k] = "lock"
    /\ lock = Nil
    /\ lock' = k
    /\ base' = [base EXCEPT ![k] = buf]
    /\ Goto(k, "write")
    /\ UNCHANGED <<loaderVars, queue, ibuf, buf, running>>

Write(k) ==
    /\ wpc[k] = "write"
    /\ buf' = base[k] \cup ibuf[k]
    /\ Goto(k, "unlock")
    /\ UNCHANGED <<loaderVars, queue, ibuf, base, lock, running>>

Unlock(k) ==
    /\ wpc[k] = "unlock"
    /\ lock' = Nil
    /\ Goto(k, "exit")
    /\ UNCHANGED <<loaderVars, queue, ibuf, base, buf, running>>

\* The deferred wg.Done.
Done(k) ==
    /\ wpc[k] = "exit"
    /\ running' = running \ {k}
    /\ Goto(k, "gone")
    /\ UNCHANGED <<loaderVars, queue, ibuf, base, lock, buf>>

-----------------------------------------------------------------------------

Loader == Start \/ (\E r \in Role : Push(r) \/ Skip(r)) \/ Close \/ Wait
Work(k) == Receive(k) \/ Drained(k) \/ Lock(k) \/ Write(k) \/ Unlock(k) \/ Done(k)

Next == Loader \/ \E k \in Worker : Work(k)

Spec == Init /\ [][Next]_vars

\* The Go scheduler runs every goroutine that can run.
FairSpec == Spec /\ WF_vars(Loader) /\ \A k \in Worker : WF_vars(Work(k))

-----------------------------------------------------------------------------
(* Properties.                                                             *)

TypeOK ==
    /\ pc \in {"start", "push", "wait", "done"}
    /\ todo \subseteq Role /\ skipped \subseteq Role /\ queue \subseteq Role
    /\ closed \in BOOLEAN
    /\ wpc \in [Worker -> {"none", "receive", "lock", "write", "unlock", "exit", "gone"}]
    /\ ibuf \in [Worker -> SUBSET (Role \X Line)]
    /\ base \in [Worker -> SUBSET (Role \X Line)]
    /\ lock \in Worker \cup {Nil}
    /\ buf \subseteq Role \X Line
    /\ running \subseteq Worker

\* The pool as a whole: once load goes on, the shared buffer has every line of
\* every role whose queries did not fail, and nothing else.
Pool == INSTANCE PolicyGather WITH result <- IF pc = "done" THEN buf ELSE Nil,
                                   left <- IF pc = "done" THEN skipped ELSE {}
PoolGathers == Pool!Spec

\* The loader never waits for room in the channel, and load returns: no worker
\* and no lock holds it up for ever.
LoadReturns == <>(pc = "done")

===============================================================================
