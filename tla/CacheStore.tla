----------------------------- MODULE CacheStore -----------------------------
(***************************************************************************)
(* The caches of pkg/cachex and pkg/jwtx: in memory, in redis and in       *)
(* badger.  The memory cache makes one call of a locked map for each step, *)
(* redis one round trip, badger one transaction.  The store of destroyed   *)
(* tokens (pkg/jwtx/store.go) is one of them under a namespace of its own. *)
(* No lock spans two steps.  Iterator runs on a copy of the map in memory, *)
(* on a snapshot in badger, and in redis on pages of keys whose values are *)
(* then asked for one by one.                                              *)
(***************************************************************************)
EXTENDS Integers

CONSTANTS Client, Key, Value, Absent,
          MaxLife,   \* bound: longest life of an entry, in ticks
          MaxCalls,  \* bound: calls of all clients
          MaxFaults  \* bound: failed round trips

VARIABLES
    kind,        \* which implementation the configuration chose
    live,        \* the entry of each key, or Absent
    shut,        \* Close was called
    call,        \* each client's call
    todo,        \* what is left of the copy, snapshot or page a client iterates over
    out,         \* what its callback was given
    seen, held,  \* history: pairs present at some, keys present at all times of the iteration
    scanned,     \* history: keys that SCAN has returned
    calls, faults \* counters of the bounds

iterVars == <<todo, out, scanned>>
vars == <<kind, live, shut, call, iterVars, seen, held, calls, faults>>

ASSUME CacheStoreAssumption ==
    /\ Absent \notin Value \cup {"yes", "no", "more", "last"}
    /\ Absent \notin [val : Value, left : 0..MaxLife]
    /\ MaxLife \in Nat /\ MaxCalls \in Nat /\ MaxFaults \in Nat

\* No expiration is given (-1 here): the entry stays.  One of zero means the same
\* in memory and in redis; badger stores an entry that expires at once.
Entry(v, exp) ==
    IF kind = "badger" /\ exp = 0 THEN Absent
    ELSE [val |-> v, left |-> IF exp > 0 THEN exp ELSE 0]

Present(l) == {k \in Key : l[k] # Absent}
Pairs(l) == {<<k, l[k].val>> : k \in Present(l)}
Val(k) == IF live[k] = Absent THEN Absent ELSE live[k].val

\* The entries become l, which iterations under way may see.
Become(l) ==
    /\ live' = l
    /\ seen' = [c \in Client |->
          IF call[c].pc \in {"paging", "iterating"} THEN seen[c] \cup Pairs(l) ELSE seen[c]]
    /\ held' = [c \in Client |-> held[c] \cap Present(l)]

Unseen == UNCHANGED <<live, seen, held>>

NoCall == [op |-> "none", key |-> Absent, val |-> Absent, pc |-> "idle"]

\* A closed redis client or badger database refuses; the memory cache does not.
Open == kind = "memory" \/ ~shut

Begins(c) ==
    /\ call[c] = NoCall
    /\ calls < MaxCalls
    /\ calls' = calls + 1

\* A call keeps its operation, its key and the value it was given or has come to.
Becomes(c, op, k, v, pc) ==
    call' = [call EXCEPT ![c] = [op |-> op, key |-> k, val |-> v, pc |-> pc]]
Reply(c, op, k, v) == Becomes(c, op, k, v, "answered")
Found(c, op, k, v) == Becomes(c, op, k, v, "found")
Fails(c, op, k, v) == Becomes(c, op, k, v, "failed")

Init ==
    /\ kind \in {"memory", "redis", "badger"}
    /\ live = [k \in Key |-> Absent]
    /\ shut = FALSE
    /\ call = [c \in Client |-> NoCall]
    /\ todo = [c \in Client |-> {}] /\ out = [c \in Client |-> {}]
    /\ scanned = [c \in Client |-> {}]
    /\ seen = [c \in Client |-> {}] /\ held = [c \in Client |-> {}]
    /\ calls = 0 /\ faults = 0

-----------------------------------------------------------------------------
(* The operations on one key.                                              *)

SetOp(exp) == IF exp = -1 THEN "set" ELSE "setFor"

Set(c, k, v, exp) ==
    /\ Begins(c) /\ Open
    /\ Become([live EXCEPT ![k] = Entry(v, exp)])
    /\ Reply(c, SetOp(exp), k, v)
    /\ UNCHANGED <<kind, shut, iterVars, faults>>

Get(c, k) ==
    /\ Begins(c) /\ Open
    /\ Reply(c, "get", k, Val(k))
    /\ Unseen /\ UNCHANGED <<kind, shut, iterVars, faults>>

Exists(c, k) ==
    /\ Begins(c) /\ Open
    /\ Reply(c, "exists", k, IF live[k] # Absent THEN "yes" ELSE "no")
    /\ Unseen /\ UNCHANGED <<kind, shut, iterVars, faults>>

\* The map removes in one call; redis and badger look first, and leave alone
\* what is not there.
Delete(c, k) ==
    /\ Begins(c) /\ Open
    /\ IF kind = "memory"
       THEN Become([live EXCEPT ![k] = Absent]) /\ Reply(c, "delete", k, Absent)
       ELSE /\ IF live[k] = Absent THEN Reply(c, "delete", k, Absent)
                                   ELSE Found(c, "delete", k, Absent)
            /\ Unseen
    /\ UNCHANGED <<kind, shut, iterVars, faults>>

GetAndDelete(c, k) ==
    /\ Begins(c) /\ Open
    /\ IF live[k] = Absent THEN Reply(c, "getAndDelete", k, Absent)
                           ELSE Found(c, "getAndDelete", k, Val(k))
    /\ Unseen /\ UNCHANGED <<kind, shut, iterVars, faults>>

\* Mutant: the value is returned and not removed.
RemoveNothing(c) ==
    /\ call[c].pc = "found"
    /\ Reply(c, call[c].op, call[c].key, call[c].val)
    /\ Unseen /\ UNCHANGED <<kind, shut, iterVars, calls, faults>>

\* The second step of both.
Remove(c) ==
    /\ call[c].pc = "found"
    /\ Open
    /\ Become([live EXCEPT ![call[c].key] = Absent])
    /\ Reply(c, call[c].op, call[c].key, call[c].val)
    /\ UNCHANGED <<kind, shut, iterVars, calls, faults>>

\* The operations that look first, and an iteration, fail without a change.
LookFails(c) ==
    \/ \E op \in {"get", "exists", "delete", "getAndDelete"}, k \in Key : Fails(c, op, k, Absent)
    \/ Fails(c, "none", Absent, Absent)

RemoveFails(c) == call[c].pc = "found" /\ Fails(c, call[c].op, call[c].key, Absent)

\* A round trip to redis fails, before or after redis did what it was asked.
RoundTripFails(c) ==
    /\ kind = "redis" /\ ~shut
    /\ faults < MaxFaults
    /\ faults' = faults + 1
    /\ \/ /\ RemoveFails(c)
          /\ Unseen \/ Become([live EXCEPT ![call[c].key] = Absent])
          /\ UNCHANGED calls
       \/ /\ Begins(c)
          /\ \E k \in Key, v \in Value, exp \in -1..MaxLife :
                /\ Fails(c, SetOp(exp), k, v)
                /\ Unseen \/ Become([live EXCEPT ![k] = Entry(v, exp)])
       \/ /\ Begins(c)
          /\ LookFails(c)
          /\ Unseen
       \/ /\ call[c].pc \in {"paging", "iterating"}
          /\ Fails(c, "none", Absent, Absent)
          /\ Unseen /\ UNCHANGED calls
    /\ UNCHANGED <<kind, shut, iterVars>>

\* So does every call of a closed client or database.
ClosedFails(c) ==
    /\ ~Open
    /\ \/ RemoveFails(c) /\ UNCHANGED calls
       \/ /\ call[c].pc = "paging" \/ (call[c].pc = "iterating" /\ kind = "redis")
          /\ Fails(c, "none", Absent, Absent)
          /\ UNCHANGED calls
       \/ /\ Begins(c)
          /\ \/ LookFails(c)
             \/ \E k \in Key, v \in Value, exp \in -1..MaxLife : Fails(c, SetOp(exp), k, v)
    /\ Unseen /\ UNCHANGED <<kind, shut, iterVars, faults>>

Return(c) ==
    /\ call[c].pc \in {"answered", "failed", "iterated", "stopped"}
    /\ call' = [call EXCEPT ![c] = NoCall]
    /\ todo' = [todo EXCEPT ![c] = {}] /\ out' = [out EXCEPT ![c] = {}]
    /\ scanned' = [scanned EXCEPT ![c] = {}]
    /\ seen' = [seen EXCEPT ![c] = {}] /\ held' = [held EXCEPT ![c] = {}]
    /\ UNCHANGED <<kind, live, shut, calls, faults>>

-----------------------------------------------------------------------------
(* Iterator.                                                               *)

\* From here on the history of the iteration is kept.
StartIterating(c) ==
    /\ Begins(c) /\ Open
    /\ call' = [call EXCEPT ![c] = [NoCall EXCEPT !.op = "iterate",
                                    !.pc = IF kind = "redis" THEN "paging" ELSE "iterating"]]
    /\ todo' = [todo EXCEPT ![c] = IF kind = "redis" THEN {} ELSE Pairs(live)]
    /\ seen' = [seen EXCEPT ![c] = Pairs(live)]
    /\ held' = [held EXCEPT ![c] = Present(live)]
    /\ UNCHANGED <<kind, live, shut, out, scanned, faults>>

\* One page of SCAN: keys that are there.  The last page (cursor zero) completes
\* the keys that were there all the time, which is what redis promises.
ScanPage(c) ==
    /\ call[c].pc = "paging"
    /\ ~shut
    /\ \E ks \in SUBSET Present(live) :
          /\ todo' = [todo EXCEPT ![c] = {<<k, Absent>> : k \in ks}]
          /\ scanned' = [scanned EXCEPT ![c] = @ \cup ks]
          /\ \/ call' = [call EXCEPT ![c].pc = "iterating", ![c].val = "more"]
             \/ /\ held[c] \subseteq scanned[c] \cup ks
                /\ call' = [call EXCEPT ![c].pc = "iterating", ![c].val = "last"]
    /\ Unseen /\ UNCHANGED <<kind, shut, out, calls, faults>>

\* Mutant: a key that is gone ends the iteration.
DeliverUntilGone(c, p) ==
    /\ call[c].pc = "iterating"
    /\ p \in todo[c]
    /\ IF kind = "redis" /\ live[p[1]] = Absent
       THEN /\ todo' = [todo EXCEPT ![c] = {}]
            /\ call' = [call EXCEPT ![c].pc = "iterated"]
            /\ UNCHANGED out
       ELSE /\ todo' = [todo EXCEPT ![c] = @ \ {p}]
            /\ out' = [out EXCEPT ![c] = @ \cup {IF kind = "redis" THEN <<p[1], Val(p[1])>> ELSE p}]
            /\ UNCHANGED call
    /\ Unseen /\ UNCHANGED <<kind, shut, scanned, calls, faults>>

\* The callback is given one pair and may stop the iteration.  Redis asks for
\* the value first and goes on when the key is gone.
Deliver(c, p) ==
    /\ call[c].pc = "iterating"
    /\ p \in todo[c]
    /\ kind = "redis" => ~shut
    /\ todo' = [todo EXCEPT ![c] = @ \ {p}]
    /\ IF kind = "redis" /\ live[p[1]] = Absent THEN UNCHANGED <<out, call>>
       ELSE /\ out' = [out EXCEPT ![c] = @ \cup {IF kind = "redis" THEN <<p[1], Val(p[1])>> ELSE p}]
            /\ \/ UNCHANGED call
               \/ call' = [call EXCEPT ![c].pc = "stopped"]
    /\ Unseen /\ UNCHANGED <<kind, shut, scanned, calls, faults>>

\* The page is used up: the next one, or the end.
PageDone(c) ==
    /\ call[c].pc = "iterating"
    /\ todo[c] = {}
    /\ call' = [call EXCEPT ![c].pc = IF call[c].val = "more" THEN "paging" ELSE "iterated"]
    /\ UNCHANGED <<kind, live, shut, iterVars, seen, held, calls, faults>>

-----------------------------------------------------------------------------

\* Mutant: an entry without an expiration counts down as well.
AgedAll(e) ==
    IF e = Absent \/ e.left = 1 THEN Absent ELSE [e EXCEPT !.left = @ - 1]

\* A second later an entry is older, or gone.
Aged(e) ==
    IF e = Absent \/ e.left = 1 THEN Absent
    ELSE IF e.left = 0 THEN e
    ELSE [e EXCEPT !.left = @ - 1]

Tick ==
    /\ \E k \in Key : live[k] # Absent /\ live[k].left > 0
    /\ Become([k \in Key |-> Aged(live[k])])
    /\ UNCHANGED <<kind, shut, call, iterVars, calls, faults>>

\* The memory cache forgets everything and goes on working.
Close ==
    /\ ~shut
    /\ shut' = TRUE
    /\ IF kind = "memory" THEN Become([k \in Key |-> Absent]) ELSE Unseen
    /\ UNCHANGED <<kind, call, iterVars, calls, faults>>

OneKey(c) ==
    \/ \E k \in Key : \/ \E v \in Value, exp \in -1..MaxLife : Set(c, k, v, exp)
                       \/ Get(c, k) \/ Exists(c, k) \/ Delete(c, k) \/ GetAndDelete(c, k)
    \/ Remove(c)

Iterate(c) ==
    \/ StartIterating(c) \/ ScanPage(c) \/ PageDone(c)
    \/ \E p \in Key \X (Value \cup {Absent}) : Deliver(c, p)

Next == \/ \E c \in Client :
              OneKey(c) \/ Iterate(c) \/ RoundTripFails(c) \/ ClosedFails(c) \/ Return(c)
        \/ Tick \/ Close

Spec == Init /\ [][Next]_vars

-----------------------------------------------------------------------------
(* Properties.                                                             *)

TypeOK ==
    /\ kind \in {"memory", "redis", "badger"}
    /\ live \in [Key -> [val : Value, left : 0..MaxLife] \cup {Absent}]
    /\ shut \in BOOLEAN
    /\ call \in [Client ->
          [op : {"none", "set", "setFor", "get", "exists", "delete", "getAndDelete", "iterate"},
           key : Key \cup {Absent}, val : Value \cup {Absent, "yes", "no", "more", "last"},
           pc : {"idle", "found", "paging", "iterating", "answered", "failed", "iterated",
                 "stopped"}]]
    /\ todo \in [Client -> SUBSET (Key \X (Value \cup {Absent}))]
    /\ out \in [Client -> SUBSET (Key \X (Value \cup {Absent}))]
    /\ seen \in [Client -> SUBSET (Key \X Value)]
    /\ held \in [Client -> SUBSET Key] /\ scanned \in [Client -> SUBSET Key]
    /\ calls \in 0..MaxCalls /\ faults \in 0..MaxFaults

\* Every pair a callback of Iterator is given was in the cache at some moment
\* of the iteration, also in redis, where keys and values are asked for apart.
IteratorSound == \A c \in Client : call[c].op = "iterate" => out[c] \subseteq seen[c]

\* An iteration that its callback did not stop has delivered every key that was
\* there from its start to its end, though others came and went between pages.
IteratorComplete ==
    \A c \in Client : call[c].pc = "iterated" => held[c] \subseteq {p[1] : p \in out[c]}

\* An iteration between changes delivers what was there, and misses nothing that
\* stayed.
IterationFaithful == IteratorSound /\ IteratorComplete

\* What the call of a client has come to, for Cacher: its operation, its key and
\* its value go with it, so that no operation passes for another.
AnswerOf(c) ==
    LET op == call[c].op
        k == call[c].key
        v == call[c].val
    IN  CASE op \in {"none", "iterate"} -> [is |-> "idle"]
          [] op \notin {"none", "iterate"} /\ call[c].pc = "answered" ->
               [is |-> "done", op |-> op, key |-> k, val |-> v]
          [] op \notin {"none", "iterate"} /\ call[c].pc = "failed" ->
               [is |-> "failed", op |-> op, key |-> k, val |-> v]
          [] op = "getAndDelete" /\ call[c].pc = "found" ->
               [is |-> "taking", op |-> op, key |-> k, val |-> v]
          [] OTHER -> [is |-> "idle"]

Promise == INSTANCE Cacher WITH
    store <- [k \in Key |-> Val(k)], answer <- [c \in Client |-> AnswerOf(c)]

\* Each call on one key takes effect as the interface Cacher promises of that
\* operation on that key, although Delete looks and removes in two round trips
\* between which others set, take and remove, and whatever fails or expires.
KeepsPromise == Promise!Spec

==============================================================================
