------------------------------- MODULE LogHook -------------------------------
(***************************************************************************)
(* The queue between the logger and the log table (pkg/logging/hook.go).   *)
(*                                                                         *)
(* Every goroutine that logs calls Write, which puts the entry into a      *)
(* buffered channel or, when that is full, drops it.  Workers take entries *)
(* off the channel and store them.  At exit Flush marks the hook closed,   *)
(* closes the channel and waits for the workers; requests that outlived    *)
(* the shutdown timeout of the HTTP server may still be logging then.      *)
(***************************************************************************)
EXTENDS Naturals, Sequences

CONSTANTS Writer,    \* goroutines that log
          Worker,    \* maxWorkers goroutines
          MaxJobs,   \* room of the channel
          MaxWrites, \* bound: calls of Write
          MaxFaults  \* bound: panics of Exec

VARIABLES
    closed,    \* the flag closed
    shut,      \* the channel is closed
    q,         \* the channel
    wpc,       \* where each writer is in Write
    entry,     \* its entry
    overdue,   \* history: writers whose call began after the channel was closed
    kpc, job,  \* each worker's program counter and the entry it stores
    dead,      \* workers that ended by a panic
    fpc,       \* where Flush is
    accepted,  \* history: entries that were put into the channel
    handed,    \* history: entries that were handed to Exec
    writes, faults \* counters of the bounds

vars == <<closed, shut, q, wpc, entry, overdue, kpc, job, dead, fpc, accepted, handed,
          writes, faults>>
flags == <<closed, shut, fpc>>
writerVars == <<wpc, entry, overdue, accepted, writes>>
workerVars == <<kpc, job, dead, handed, faults>>

Entry == 1..MaxWrites

ASSUME LogHookAssumption ==
    /\ MaxJobs \in Nat
    /\ MaxWrites \in Nat /\ MaxFaults \in Nat

Init ==
    /\ closed = FALSE /\ shut = FALSE /\ fpc = "serving"
    /\ q = <<>>
    /\ wpc = [w \in Writer |-> "idle"] /\ entry = [w \in Writer |-> 0]
    /\ overdue = {}
    /\ kpc = [k \in Worker |-> "receive"] /\ job = [k \in Worker |-> 0]
    /\ dead = {}
    /\ accepted = {} /\ handed = {}
    /\ writes = 0 /\ faults = 0

-----------------------------------------------------------------------------
(* Write.                                                                  *)

Leave(w) ==
    /\ wpc' = [wpc EXCEPT ![w] = "idle"]
    /\ entry' = [entry EXCEPT ![w] = 0]
    /\ overdue' = overdue \ {w}

\* A closed hook takes nothing.
CheckClosed(w) ==
    /\ wpc[w] = "idle"
    /\ writes < MaxWrites
    /\ writes' = writes + 1
    /\ IF closed THEN UNCHANGED <<wpc, entry, overdue>>
       ELSE /\ wpc' = [wpc EXCEPT ![w] = "checked"]
            /\ entry' = [entry EXCEPT ![w] = writes + 1]
            /\ overdue' = IF shut THEN overdue \cup {w} ELSE overdue
    /\ UNCHANGED <<flags, q, workerVars, accepted>>

\* A full channel: the entry is dropped.
CheckRoom(w) ==
    /\ wpc[w] = "checked"
    /\ IF Len(q) = MaxJobs THEN Leave(w)
       ELSE wpc' = [wpc EXCEPT ![w] = "send"] /\ UNCHANGED <<entry, overdue>>
    /\ UNCHANGED <<flags, q, workerVars, accepted, writes>>

\* The send waits when the room was taken meanwhile.
Send(w) ==
    /\ wpc[w] = "send"
    /\ ~shut /\ Len(q) < MaxJobs
    /\ q' = Append(q, entry[w])
    /\ accepted' = accepted \cup {entry[w]}
    /\ Leave(w)
    /\ UNCHANGED <<flags, workerVars, writes>>

\* A send on the closed channel panics; the caller is unwound.
SendPanics(w) ==
    /\ wpc[w] = "send"
    /\ shut
    /\ Leave(w)
    /\ UNCHANGED <<flags, q, workerVars, accepted, writes>>

-----------------------------------------------------------------------------
(* The workers of dispatch.                                                *)

\* The range loop takes the next entry.
Receive(k) ==
    /\ kpc[k] = "receive"
    /\ q # <<>>
    /\ q' = Tail(q)
    /\ job' = [job EXCEPT ![k] = Head(q)]
    /\ kpc' = [kpc EXCEPT ![k] = "exec"]
    /\ UNCHANGED <<flags, writerVars, dead, handed, faults>>

\* An error of Exec is only printed.
Exec(k) ==
    /\ kpc[k] = "exec"
    /\ handed' = handed \cup {job[k]}
    /\ job' = [job EXCEPT ![k] = 0]
    /\ kpc' = [kpc EXCEPT ![k] = "receive"]
    /\ UNCHANGED <<flags, q, writerVars, dead, faults>>

\* A panic of Exec ends the worker for good; wg.Done is deferred.
ExecPanics(k) ==
    /\ kpc[k] = "exec"
    /\ faults < MaxFaults
    /\ faults' = faults + 1
    /\ handed' = handed \cup {job[k]}
    /\ job' = [job EXCEPT ![k] = 0]
    /\ kpc' = [kpc EXCEPT ![k] = "gone"]
    /\ dead' = dead \cup {k}
    /\ UNCHANGED <<flags, q, writerVars>>

\* Mutant: a worker leaves as soon as the hook is marked closed.
DrainedWhenClosed(k) ==
    /\ kpc[k] = "receive"
    /\ closed
    /\ kpc' = [kpc EXCEPT ![k] = "gone"]
    /\ UNCHANGED <<flags, q, writerVars, job, dead, handed, faults>>

\* The range loop ends when the channel is closed and empty.
Drained(k) ==
    /\ kpc[k] = "receive"
    /\ shut /\ q = <<>>
    /\ kpc' = [kpc EXCEPT ![k] = "gone"]
    /\ UNCHANGED <<flags, q, writerVars, job, dead, handed, faults>>

-----------------------------------------------------------------------------
(* Flush, which the cleanup at exit calls once.                            *)

\* Mutant: the channel is closed before the flag is set.
MarkLate ==
    /\ fpc = "serving"
    /\ shut' = TRUE
    /\ fpc' = "marked"
    /\ UNCHANGED <<closed, q, writerVars, workerVars>>

Mark ==
    /\ fpc = "serving"
    /\ closed' = TRUE
    /\ fpc' = "marked"
    /\ UNCHANGED <<shut, q, writerVars, workerVars>>

CloseQueue ==
    /\ fpc = "marked"
    /\ shut' = TRUE
    /\ fpc' = "waiting"
    /\ UNCHANGED <<closed, q, writerVars, workerVars>>

\* wg.Wait, and then the database of the log is closed.
Wait ==
    /\ fpc = "waiting"
    /\ \A k \in Worker : kpc[k] = "gone"
    /\ fpc' = "done"
    /\ UNCHANGED <<closed, shut, q, writerVars, workerVars>>

-----------------------------------------------------------------------------

Write(w) == CheckClosed(w) \/ CheckRoom(w) \/ Send(w) \/ SendPanics(w)
Work(k) == Receive(k) \/ Exec(k) \/ ExecPanics(k) \/ Drained(k)
Flush == Mark \/ CloseQueue \/ Wait

Next == \/ \E w \in Writer : Write(w)
        \/ \E k \in Worker : Work(k)
        \/ Flush

Spec == Init /\ [][Next]_vars

-----------------------------------------------------------------------------
(* Properties.                                                             *)

TypeOK ==
    /\ closed \in BOOLEAN /\ shut \in BOOLEAN
    /\ fpc \in {"serving", "marked", "waiting", "done"}
    /\ q \in Seq(Entry) /\ Len(q) <= MaxJobs
    /\ wpc \in [Writer -> {"idle", "checked", "send"}]
    /\ entry \in [Writer -> Entry \cup {0}]
    /\ overdue \subseteq Writer
    /\ kpc \in [Worker -> {"receive", "exec", "gone"}]
    /\ job \in [Worker -> Entry \cup {0}]
    /\ dead \subseteq Worker
    /\ accepted \subseteq Entry /\ handed \subseteq Entry
    /\ writes \in 0..MaxWrites /\ faults \in 0..MaxFaults

\* "Waits for the log queue to be empty" (hook.go:113): when Flush returns,
\* every entry the channel accepted was handed to Exec, unless no worker was
\* left to do so.
FlushHandsOverAll == fpc = "done" /\ dead # Worker => accepted = handed

\* No Write that begins after the channel was closed gets as far as sending on
\* it: only calls that Flush overtook can panic.
LateWritesHarmless == overdue = {}

==============================================================================
