----------------------------- MODULE RateLimiter -----------------------------
(***************************************************************************)
(* The stores of the rate limiter (pkg/middleware/ratelimiter.go).         *)
(*                                                                         *)
(* The store in memory keeps a token bucket for each client, which is      *)
(* forgotten when no request has put it back for Expiration ticks.  Allow  *)
(* looks the bucket up, takes from it or makes a new one, and puts it      *)
(* (back) in place: three steps under no common lock.  A bucket holds      *)
(* units: a request costs Period of them and each second brings one.  The  *)
(* store in redis is one script call of redis_rate, whose rate per second  *)
(* is an integer quotient: it lets as many requests pass at once (its      *)
(* burst) and one more each time that that part of a second has passed.    *)
(* A tick is the time that brings one unit: a second with the store in     *)
(* memory, and one of PerSecond parts of a second with the store in redis. *)
(***************************************************************************)
EXTENDS Naturals

CONSTANTS Req,         \* requests; the bucket that a request makes has its name
          Ident,       \* who is limited: users and addresses
          None,        \* no bucket
          Before,      \* what clients may have used of their buckets in redis at the start
          Expiration,  \* ticks until an unused bucket is forgotten
          MaxTicks     \* bound: ticks

VARIABLES
    limits,   \* the configuration: [store, max, period]
    limiter,  \* the bucket in place for each client
    age,      \* ticks since it was put there
    bucket,   \* the units in each bucket in memory, and those each client has used in redis
    rstep,    \* where each request is in Allow
    client,   \* for whom it asks
    own,      \* the bucket it found or made
    ok,       \* what Allow returned, or will
    served,   \* history: requests of each client that were allowed (Before too, in redis)
    forked,   \* history: clients for whom a second bucket was made
    ticks

limiterVars == <<limiter, age, bucket, rstep, client, own, ok, served, forked>>

Full == limits.max * limits.period
Unlimited == limits.store = "off" \/ limits.period = 0 \/ limits.max = 0
PerSecond == limits.max \div limits.period

ASSUME LimiterAssumption ==
    /\ None \notin Req /\ Req \cap Ident = {}
    /\ Before \subseteq [Ident -> Nat]
    /\ Expiration \in Nat /\ MaxTicks \in Nat

\* Redis keeps its buckets when the process ends: they may be in use at the start.
UsedBefore ==
    IF limits.store = "redis" /\ ~Unlimited
    THEN {used \in Before : \A i \in Ident : used[i] <= PerSecond}
    ELSE {[i \in Ident |-> 0]}

LimiterInit ==
    /\ limiter = [i \in Ident |-> None]
    /\ age = [i \in Ident |-> 0]
    /\ served \in UsedBefore
    /\ bucket = [b \in Req \cup Ident |-> IF b \in Ident THEN served[b] ELSE 0]
    /\ rstep = [r \in Req |-> "look"]
    /\ client = [r \in Req |-> None] /\ own = [r \in Req |-> None]
    /\ ok = [r \in Req |-> FALSE]
    /\ forked = {}
    /\ ticks = 0

Look(r, i) ==
    /\ limits.store = "memory"
    /\ rstep[r] = "look"
    /\ client' = [client EXCEPT ![r] = i]
    /\ own' = [own EXCEPT ![r] = limiter[i]]
    /\ rstep' = [rstep EXCEPT ![r] = "allow"]
    /\ UNCHANGED <<limiter, age, bucket, ok, served, forked>>

\* The buckets of a client, in place or in the hands of a request.
Asking(i) == {r \in Req : client[r] = i /\ rstep[r] \in {"allow", "put"}}
Buckets(i) == ({limiter[i]} \cup {own[r] : r \in Asking(i)}) \ {None}

\* What a request of i is told.
Answer(r, i, allowed) ==
    /\ ok' = [ok EXCEPT ![r] = allowed]
    /\ served' = IF allowed THEN [served EXCEPT ![i] = @ + 1] ELSE served

\* Mutant: a refused request costs what an allowed one does.
UseAnyway(r) ==
    /\ rstep[r] = "allow"
    /\ own[r] # None
    /\ Answer(r, client[r], bucket[own[r]] >= limits.period)
    /\ bucket' = [bucket EXCEPT ![own[r]] = @ - limits.period]
    /\ rstep' = [rstep EXCEPT ![r] = "put"]
    /\ UNCHANGED <<limiter, age, client, own, forked>>

\* The bucket is there: take from it what it has.
Use(r) ==
    /\ rstep[r] = "allow"
    /\ own[r] # None
    /\ LET enough == bucket[own[r]] >= limits.period IN
          /\ Answer(r, client[r], enough)
          /\ bucket' = [bucket EXCEPT ![own[r]] = IF enough THEN @ - limits.period ELSE @]
    /\ rstep' = [rstep EXCEPT ![r] = "put"]
    /\ UNCHANGED <<limiter, age, client, own, forked>>

\* Mutant: the first request takes nothing from the new bucket.
CreateFull(r) ==
    /\ rstep[r] = "allow"
    /\ own[r] = None
    /\ own' = [own EXCEPT ![r] = r]
    /\ Answer(r, client[r], TRUE)
    /\ bucket' = [bucket EXCEPT ![r] = Full]
    /\ forked' = IF Buckets(client[r]) = {} THEN forked ELSE forked \cup {client[r]}
    /\ rstep' = [rstep EXCEPT ![r] = "put"]
    /\ UNCHANGED <<limiter, age, client>>

\* None is there: make one, of which this request is the first.
Create(r) ==
    /\ rstep[r] = "allow"
    /\ own[r] = None
    /\ own' = [own EXCEPT ![r] = r]
    /\ Answer(r, client[r], TRUE)
    /\ bucket' = [bucket EXCEPT ![r] = Full - limits.period]
    /\ forked' = IF Buckets(client[r]) = {} THEN forked ELSE forked \cup {client[r]}
    /\ rstep' = [rstep EXCEPT ![r] = "put"]
    /\ UNCHANGED <<limiter, age, client>>

\* The bucket goes in place, whatever is there by now, and its time starts anew.
Put(r) ==
    /\ rstep[r] = "put"
    /\ limiter' = [limiter EXCEPT ![client[r]] = own[r]]
    /\ age' = [age EXCEPT ![client[r]] = 0]
    /\ rstep' = [rstep EXCEPT ![r] = "out"]
    /\ UNCHANGED <<bucket, client, own, ok, served, forked>>

\* One call of the script: it takes a unit of the client's if not all are used.
\* The rate, and the burst, is what the division makes; what the script makes of a
\* rate of zero is not defined.
RedisAllow(r, i) ==
    /\ limits.store = "redis"
    /\ rstep[r] = "look"
    /\ client' = [client EXCEPT ![r] = i]
    /\ \E allowed \in IF PerSecond = 0 THEN BOOLEAN ELSE {bucket[i] < PerSecond} :
          /\ Answer(r, i, allowed)
          /\ bucket' = [bucket EXCEPT ![i] = IF allowed /\ PerSecond > 0 THEN @ + 1 ELSE @]
    /\ rstep' = [rstep EXCEPT ![r] = "out"]
    /\ UNCHANGED <<limiter, age, own, forked>>

Allow(r, i) == Look(r, i) \/ Use(r) \/ Create(r) \/ Put(r) \/ RedisAllow(r, i)

\* The time passes that brings a unit, to a bucket in memory or in redis.
LimiterTick ==
    /\ ticks < MaxTicks /\ ~Unlimited
    /\ ticks' = ticks + 1
    /\ bucket' = [b \in Req \cup Ident |->
          IF b \in Ident THEN (IF bucket[b] = 0 THEN 0 ELSE bucket[b] - 1)
          ELSE IF bucket[b] < Full THEN bucket[b] + 1 ELSE Full]
    /\ limiter' = [i \in Ident |-> IF age[i] + 1 >= Expiration THEN None ELSE limiter[i]]
    /\ age' = [i \in Ident |->
          IF limiter[i] = None \/ age[i] + 1 >= Expiration THEN 0 ELSE age[i] + 1]
    /\ UNCHANGED <<rstep, client, own, ok, served, forked>>

-----------------------------------------------------------------------------

LimiterTypeOK ==
    /\ limiter \in [Ident -> Req \cup {None}]
    /\ age \in [Ident -> 0..Expiration]
    /\ bucket \in [Req \cup Ident -> Nat]
    /\ \A r \in Req : bucket[r] <= Full
    /\ rstep \in [Req -> {"look", "allow", "put", "out"}]
    /\ client \in [Req -> Ident \cup {None}]
    /\ own \in [Req -> Req \cup {None}]
    /\ ok \in [Req -> BOOLEAN]
    /\ served \in [Ident -> Nat]
    /\ forked \subseteq Ident
    /\ ticks \in 0..MaxTicks

\* A client is served no more than the bucket held and has gained since: in
\* memory max at once and one more each period, in redis the quotient at once and
\* one more each such part of a second.  Three things undo it: a bucket that is
\* made while the client has one (by the first requests of a client, or by a late
\* request that puts an expired one back), a bucket that is forgotten before it is
\* full again, and a quotient of zero.
BurstHolds ==
    \A i \in Ident :
       \/ Unlimited
       \/ i \in forked
       \/ /\ limits.store = "memory"
          /\ \/ served[i] * limits.period <= Full + ticks
             \/ Expiration < Full
       \/ /\ limits.store = "redis"
          /\ \/ served[i] <= PerSecond + ticks
             \/ PerSecond = 0

==============================================================================
