------------------------------- MODULE Cacher -------------------------------
(***************************************************************************)
(* What the program asks of a cache (the interface Cacher of pkg/cachex):  *)
(* Set, Get, Exists and Delete take effect at one moment between call and  *)
(* return.  GetAndDelete reads at one moment and removes at a later one,   *)
(* so that two callers may both get a value, and what was set in between   *)
(* is removed.  A value that is given an expiration may be over at once,   *)
(* values fade when they expire, and all at once when a memory cache is    *)
(* closed.  Every call may fail, and a write that failed may have          *)
(* happened.  A call is known by its operation, its key and the value it   *)
(* was given or has come to, until it returns.  Iterator promises nothing  *)
(* of the kind; CacheStore says what it does.                              *)
(***************************************************************************)
CONSTANTS Client, Key, Value, Absent

VARIABLES store,   \* the value of each key, or Absent
          answer   \* what each client's call has come to, if its moment has been

vars == <<store, answer>>

Idle == [is |-> "idle"]
Done(op, k, v) == [is |-> "done", op |-> op, key |-> k, val |-> v]
Taking(k, v) == [is |-> "taking", op |-> "getAndDelete", key |-> k, val |-> v]
Failed(op, k, v) == [is |-> "failed", op |-> op, key |-> k, val |-> v]

Init ==
    /\ store = [k \in Key |-> Absent]
    /\ answer = [c \in Client |-> Idle]

Answer(c, a) == answer' = [answer EXCEPT ![c] = a]
Put(k, v) == store' = [store EXCEPT ![k] = v]

Set(c, k, v) ==
    /\ answer[c] = Idle
    /\ Put(k, v)
    /\ Answer(c, Done("set", k, v))

\* With an expiration, which may be over at once.
SetFor(c, k, v) ==
    /\ answer[c] = Idle
    /\ Put(k, v) \/ Put(k, Absent)
    /\ Answer(c, Done("setFor", k, v))

Get(c, k) ==
    /\ answer[c] = Idle
    /\ Answer(c, Done("get", k, store[k]))
    /\ UNCHANGED store

Exists(c, k) ==
    /\ answer[c] = Idle
    /\ Answer(c, Done("exists", k, IF store[k] # Absent THEN "yes" ELSE "no"))
    /\ UNCHANGED store

Delete(c, k) ==
    /\ answer[c] = Idle
    /\ Put(k, Absent)
    /\ Answer(c, Done("delete", k, Absent))

TakeNothing(c, k) ==
    /\ answer[c] = Idle
    /\ store[k] = Absent
    /\ Answer(c, Done("getAndDelete", k, Absent))
    /\ UNCHANGED store

Take(c, k) ==
    /\ answer[c] = Idle
    /\ store[k] # Absent
    /\ Answer(c, Taking(k, store[k]))
    /\ UNCHANGED store

Remove(c) ==
    /\ answer[c].is = "taking"
    /\ Put(answer[c].key, Absent)
    /\ Answer(c, Done("getAndDelete", answer[c].key, answer[c].val))

Reads == {"get", "exists", "getAndDelete"}

\* A failed write happened or it did not; a failed read changed nothing.
FailRead(c, op, k) ==
    /\ answer[c] = Idle
    /\ Answer(c, Failed(op, k, Absent))
    /\ UNCHANGED store

FailSet(c, k, v) ==
    /\ answer[c] = Idle
    /\ \/ Answer(c, Failed("set", k, v)) /\ Put(k, v)
       \/ Answer(c, Failed("setFor", k, v)) /\ (Put(k, v) \/ Put(k, Absent))
       \/ UNCHANGED store /\ \E op \in {"set", "setFor"} : Answer(c, Failed(op, k, v))

FailDelete(c, k) ==
    /\ answer[c] = Idle
    /\ Answer(c, Failed("delete", k, Absent))
    /\ UNCHANGED store \/ Put(k, Absent)

FailRemove(c) ==
    /\ answer[c].is = "taking"
    /\ Answer(c, Failed("getAndDelete", answer[c].key, Absent))
    /\ UNCHANGED store \/ Put(answer[c].key, Absent)

Return(c) ==
    /\ answer[c].is \in {"done", "failed"}
    /\ Answer(c, Idle)
    /\ UNCHANGED store

Fade(ks) ==
    /\ store' = [k \in Key |-> IF k \in ks THEN Absent ELSE store[k]]
    /\ UNCHANGED answer

Next == \/ \E c \in Client, k \in Key :
              \/ \E v \in Value : Set(c, k, v) \/ SetFor(c, k, v) \/ FailSet(c, k, v)
              \/ \E op \in Reads : FailRead(c, op, k)
              \/ Get(c, k) \/ Exists(c, k) \/ Delete(c, k) \/ TakeNothing(c, k) \/ Take(c, k)
              \/ FailDelete(c, k)
        \/ \E c \in Client : Remove(c) \/ FailRemove(c) \/ Return(c)
        \/ \E ks \in SUBSET Key : Fade(ks)

Spec == Init /\ [][Next]_vars

==============================================================================
