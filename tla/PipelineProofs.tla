---------------------------- MODULE PipelineProofs ----------------------------
(***************************************************************************)
(* Theorems about Pipeline and RateLimiter for any requests, clients,      *)
(* roles, policies, limits and configurations.                             *)
(*                                                                         *)
(* The limiter and the chain share no state but a request's place in       *)
(* Allow, so their invariants are proved apart.  That of the limiter is a  *)
(* budget: what a client was served and what his bucket holds come to no   *)
(* more than a full bucket and the ticks that passed; and a bucket that is *)
(* forgotten was full, so that the next one starts no richer.              *)
(***************************************************************************)
EXTENDS Pipeline, TLAPS

Limits == [store : {"off", "memory", "redis"}, max : Nat, period : Nat]

\* A request in Allow asks for a client, and has a bucket from its second step on.
AskingOK ==
    /\ \A r \in Req : rstep[r] \in {"allow", "put"} => client[r] \in Ident
    /\ \A r \in Req : rstep[r] = "put" => own[r] # None
    /\ limits.store # "memory" => \A r \in Req : rstep[r] \in {"look", "out"}

\* The request b has made the bucket b, for i.
Made(b, i) == rstep[b] \in {"put", "out"} /\ own[b] = b /\ client[b] = i

BucketsOwned ==
    /\ \A r \in Req : rstep[r] \in {"allow", "put"} /\ own[r] # None => Made(own[r], client[r])
    /\ \A i \in Ident : limiter[i] # None => Made(limiter[i], i)

OneBucket == \A i \in Ident \ forked : \A b, d \in Buckets(i) : b = d

\* Nobody has used the bucket of i since it was put in place.
Rested(i) == limiter[i] # None /\ \A r \in Req : ~(rstep[r] = "put" /\ own[r] = limiter[i])

BudgetOf(i) ==
    /\ \A b \in Buckets(i) : served[i] * limits.period + bucket[b] <= Full + ticks
    /\ Buckets(i) = {} => served[i] * limits.period <= ticks
    /\ Rested(i) => bucket[limiter[i]] >= age[i] \/ bucket[limiter[i]] = Full
Budget == Expiration >= Full => \A i \in Ident \ forked : BudgetOf(i)

RedisBudget ==
    ~Unlimited /\ PerSecond # 0 =>
        \A i \in Ident : bucket[i] <= PerSecond /\ served[i] <= ticks + bucket[i]

LimiterTypeInv == LimiterTypeOK /\ limits \in Limits /\ AskingOK
LimiterInv ==
    /\ LimiterTypeInv
    /\ limits.store = "memory" => BucketsOwned /\ OneBucket /\ Budget
    /\ limits.store = "redis" => RedisBudget

\* A request at place p, of which d is known and f was in force, under the
\* configuration c and the enforcer e.
Place == {"new", "auth", "limit", "casbin", "enforce", "endpoint", "back", "done"}
Elems(l) == {l[n] : n \in DOMAIN l}
Who == User \cup {Root, NoUser}
Known ==
    [path : Path \cup {"health"}, user : Who, roles : RoleLists \cup {<<>>},
     left : Seq(UNION {Elems(l) : l \in RoleLists}), policy : Policies \cup {NoPolicy},
     check : {"none", "skipped", "granted", "denied"}, replies : Seq(Nat), ran : BOOLEAN,
     counted : BOOLEAN, log : {<<>>} \cup (Who \X Nat), panicked : BOOLEAN, cors : BOOLEAN]

Replied(p, d, c) ==
    /\ p \notin {"back", "done"} => d.replies = <<>> /\ ~d.ran /\ ~d.panicked /\ ~d.cors
    /\ p = "back" => /\ Len(d.replies) = 1 /\ ~d.panicked /\ ~d.cors
                     /\ d.ran /\ c.prom => d.counted
    /\ p = "done" => \/ Len(d.replies) = 1
                     \/ Len(d.replies) = 2 /\ d.panicked
                        /\ d.replies[2] = CodeOf.internal_server_error
    /\ p = "done" /\ ~d.panicked /\ ~d.cors =>
          /\ Logged(d.path) => d.log = <<d.user, d.replies[1]>>
          /\ d.ran /\ c.prom => d.counted

Admitted(d, f, c) ==
    \/ d.user = Root
    \/ /\ d.path \in AuthSkips \/ d.user # NoUser
       /\ d.path \in CasbinSkips \/ ~c.casbin
    \/ \E g \in f \ {NoPolicy}, role \in Elems(d.roles) : <<role, d.path>> \in g

Refused(d, f) ==
    \E g \in f : g = NoPolicy \/ \A n \in DOMAIN d.roles : <<d.roles[n], d.path>> \notin g

\* The roles that Enforce has asked for are not granted the path.
Asked(d, f) ==
    /\ d.policy \in f \ {NoPolicy}
    /\ Elems(d.left) \subseteq Elems(d.roles)
    /\ \A role \in Elems(d.roles) \ Elems(d.left) : <<role, d.path>> \notin d.policy

Judged(p, d, f, c, e) ==
    /\ p \in {"auth", "limit", "casbin", "enforce"} => InApi(d.path)
    /\ p \in {"limit", "casbin"} => d.path \in AuthSkips \/ d.user # NoUser
    /\ d.ran \/ (p = "endpoint" /\ InApi(d.path)) => Admitted(d, f, c)
    /\ p \in {"new", "auth", "limit", "casbin", "enforce"} => d.check # "denied"
    /\ d.check = "denied" => Refused(d, f)
    /\ p = "enforce" => Asked(d, f)
    /\ p \notin {"new", "done"} => e \in f

RequestOK(p, d, f, c, e) ==
    /\ p \in Place /\ d \in Known /\ f \subseteq Policies \cup {NoPolicy}
    /\ Replied(p, d, c) /\ Judged(p, d, f, c, e)

ChainInv ==
    /\ config \in Configs /\ limits = config.limits
    /\ enforcer \in Policies \cup {NoPolicy}
    /\ pc \in [Req -> Place] /\ q \in [Req -> Known]
    /\ inForce \in [Req -> SUBSET (Policies \cup {NoPolicy})]
    /\ \A r \in Req : RequestOK(pc[r], q[r], inForce[r], config, enforcer)
    /\ reloads \in 0..MaxReloads /\ faults \in 0..MaxFaults

IInv == LimiterInv /\ ChainInv

-----------------------------------------------------------------------------
(* The limiter.                                                            *)

LEMMA Arithmetic ==
    ASSUME NEW s \in Nat, NEW p \in Nat
    PROVE  (s + 1) * p = s * p + p /\ p * (s + 1) = p * s + p /\ s * p \in Nat
OBVIOUS

LEMMA LimiterNumbers ==
    ASSUME LimiterTypeInv
    PROVE  /\ limits.max \in Nat /\ limits.period \in Nat /\ Full \in Nat
           /\ ~Unlimited => limits.period > 0 /\ limits.period <= Full /\ PerSecond \in Nat
           /\ ticks \in Nat /\ Expiration \in Nat
           /\ \A i \in Ident : served[i] \in Nat /\ age[i] \in Nat /\ limiter[i] \in Req \cup {None}
           /\ \A b \in Req \cup Ident : bucket[b] \in Nat
           /\ \A r \in Req : bucket[r] <= Full
<1>1. limits.max \in Nat /\ limits.period \in Nat
  BY DEF LimiterTypeInv, Limits
<1>2. limits.max * limits.period \in Nat
  BY <1>1, Arithmetic
<1>3. ~Unlimited => limits.period > 0 /\ limits.max > 0
  BY <1>1 DEF Unlimited
<1>4. ASSUME limits.max > 0 PROVE limits.period <= limits.max * limits.period
  <2>1. PICK m \in Nat : limits.max = m + 1
    BY <1>1, <1>4
  <2>2. limits.max * limits.period = m * limits.period + limits.period /\ m * limits.period \in Nat
    BY <1>1, <2>1, Arithmetic
  <2>. QED BY <1>1, <2>2
<1>5. limits.period > 0 => limits.max \div limits.period \in Nat
  BY <1>1
<1>. QED BY <1>1, <1>2, <1>3, <1>4, <1>5, LimiterAssumption
         DEF LimiterTypeInv, LimiterTypeOK, Full, PerSecond

LEMMA LimiterStepTypes ==
    ASSUME LimiterTypeInv, ~Unlimited, UNCHANGED <<limits, ticks>>,
           NEW r \in Req, NEW i \in Ident, Allow(r, i)
    PROVE  LimiterTypeInv'
<1>. USE LimiterNumbers DEF LimiterTypeInv, LimiterTypeOK, AskingOK, Full, Unlimited
<1>1. CASE Look(r, i)
  BY <1>1 DEF Look
<1>2. CASE Use(r)
  BY <1>2 DEF Use, Answer
<1>3. CASE Create(r)
  <2>1. Full - limits.period \in 0..Full
    OBVIOUS
  <2>2. /\ rstep[r] = "allow" /\ rstep' = [rstep EXCEPT ![r] = "put"] /\ own' = [own EXCEPT ![r] = r]
        /\ ok' = [ok EXCEPT ![r] = TRUE] /\ served' = [served EXCEPT ![client[r]] = @ + 1]
        /\ bucket' = [bucket EXCEPT ![r] = Full - limits.period]
        /\ forked' \in {forked, forked \cup {client[r]}}
        /\ UNCHANGED <<limiter, age, client>>
    BY <1>3 DEF Create, Answer
  <2>3. client[r] \in Ident /\ r # None /\ limits.store = "memory"
    BY <2>2, LimiterAssumption
  <2>4. bucket' \in [Req \cup Ident -> Nat] /\ \A b \in Req : bucket'[b] <= Full
    BY <2>1, <2>2
  <2>. QED BY <2>2, <2>3, <2>4
<1>4. CASE Put(r)
  BY <1>4 DEF Put
<1>5. CASE RedisAllow(r, i)
  <2>0. (IF PerSecond = 0 THEN BOOLEAN ELSE {bucket[i] < PerSecond}) \subseteq BOOLEAN
    <3>1. (bucket[i] < PerSecond) \in BOOLEAN
      BY LimiterNumbers
    <3>. QED BY <3>1
  <2>1. PICK allowed \in BOOLEAN :
            /\ ok' = [ok EXCEPT ![r] = allowed]
            /\ served' = IF allowed THEN [served EXCEPT ![i] = @ + 1] ELSE served
            /\ bucket' = [bucket EXCEPT ![i] = IF allowed /\ PerSecond > 0 THEN @ + 1 ELSE @]
    BY ONLY <1>5, <2>0, Zenon DEF RedisAllow, Answer
  <2>2. /\ rstep' = [rstep EXCEPT ![r] = "out"] /\ client' = [client EXCEPT ![r] = i]
        /\ UNCHANGED <<limiter, age, own, forked>> /\ i \notin Req
    BY <1>5, LimiterAssumption DEF RedisAllow
  <2>3. bucket' \in [Req \cup Ident -> Nat] /\ \A b \in Req : bucket'[b] = bucket[b]
    BY <2>1, <2>2
  <2>4. ok' \in [Req -> BOOLEAN] /\ served' \in [Ident -> Nat]
    BY <2>1
  <2>. QED BY <2>2, <2>3, <2>4
<1>. QED BY <1>1, <1>2, <1>3, <1>4, <1>5 DEF Allow

LEMMA LimiterTickTypes ==
    ASSUME LimiterTypeInv, LimiterTick, limits' = limits
    PROVE  LimiterTypeInv'
<1>. USE LimiterNumbers DEF LimiterTypeInv, LimiterTypeOK, AskingOK, Full
<1>1. /\ ticks' = ticks + 1 /\ ticks' \in 0..MaxTicks
      /\ UNCHANGED <<rstep, client, own, ok, served, forked>>
  BY LimiterAssumption DEF LimiterTick
<1>2. /\ bucket' = [b \in Req \cup Ident |->
            IF b \in Ident THEN (IF bucket[b] = 0 THEN 0 ELSE bucket[b] - 1)
            ELSE IF bucket[b] < Full THEN bucket[b] + 1 ELSE Full]
      /\ limiter' = [i \in Ident |-> IF age[i] + 1 >= Expiration THEN None ELSE limiter[i]]
      /\ age' = [i \in Ident |->
            IF limiter[i] = None \/ age[i] + 1 >= Expiration THEN 0 ELSE age[i] + 1]
  BY DEF LimiterTick
<1>3. bucket' \in [Req \cup Ident -> Nat] /\ \A b \in Req : bucket'[b] <= Full
  BY <1>2, LimiterAssumption
<1>4. limiter' \in [Ident -> Req \cup {None}] /\ age' \in [Ident -> 0..Expiration]
  BY <1>2
<1>. QED BY <1>1, <1>3, <1>4

-----------------------------------------------------------------------------
(* The store in memory.                                                    *)

\* Who makes a bucket is in nobody's way.
LEMMA OwnersStay ==
    ASSUME LimiterTypeInv, BucketsOwned, limits.store = "memory",
           NEW r \in Req, NEW i \in Ident, Allow(r, i)
    PROVE  BucketsOwned'
<1>. USE DEF LimiterTypeInv, LimiterTypeOK, AskingOK
<1>1. CASE Look(r, i)
  BY <1>1 DEF Look, BucketsOwned, Made
<1>2. CASE Use(r)
  BY <1>2 DEF Use, BucketsOwned, Made
<1>3. CASE Create(r)
  <2>1. \A b, j : Made(b, j) => Made(b, j)'
    BY <1>3 DEF Create, Made
  <2>2. Made(r, client[r])'
    BY <1>3 DEF Create, Made
  <2>. QED BY <1>3, <2>1, <2>2 DEF Create, BucketsOwned
<1>4. CASE Put(r)
  <2>1. \A b, j : Made(b, j) => Made(b, j)'
    BY <1>4 DEF Put, Made
  <2>2. Made(own[r], client[r])
    BY <1>4 DEF Put, BucketsOwned
  <2>. QED BY <1>4, <2>1, <2>2 DEF Put, BucketsOwned
<1>5. CASE RedisAllow(r, i)
  BY <1>5 DEF RedisAllow
<1>. QED BY <1>1, <1>2, <1>3, <1>4, <1>5 DEF Allow

\* The buckets of a client, and one of nobody else.
LEMMA BucketsOf ==
    ASSUME LimiterTypeInv, BucketsOwned, NEW i \in Ident, NEW b \in Buckets(i)
    PROVE  b \in Req /\ Made(b, i)
BY DEF LimiterTypeInv, LimiterTypeOK, AskingOK, BucketsOwned, Buckets, Asking

\* Nothing changes for a client whose buckets and what they hold stay.
LEMMA BudgetFrame ==
    ASSUME NEW i \in Ident, BudgetOf(i), Buckets(i)' = Buckets(i), Rested(i)' => Rested(i),
           UNCHANGED <<limits, ticks>>, limiter'[i] = limiter[i], age'[i] = age[i],
           served'[i] = served[i], \A b \in Buckets(i) : bucket'[b] = bucket[b]
    PROVE  BudgetOf(i)'
<1>1. Rested(i) => limiter[i] \in Buckets(i)
  BY DEF Rested, Buckets
<1>. QED BY <1>1 DEF BudgetOf, Full

\* Look and Put leave a client the buckets he has and what they hold.
LEMMA LookBudget ==
    ASSUME LimiterInv, limits.store = "memory", UNCHANGED <<limits, ticks>>,
           NEW r \in Req, NEW i \in Ident, Look(r, i)
    PROVE  OneBucket' /\ Budget'
<1>. USE DEF LimiterInv, LimiterTypeInv, LimiterTypeOK
<1>1. /\ rstep[r] = "look" /\ client' = [client EXCEPT ![r] = i]
      /\ own' = [own EXCEPT ![r] = limiter[i]] /\ rstep' = [rstep EXCEPT ![r] = "allow"]
      /\ UNCHANGED <<limiter, age, bucket, served, forked>>
  BY DEF Look
<1>2. ASSUME NEW j \in Ident PROVE Buckets(j)' = Buckets(j)
  <2>1. \A d \in Req \ {r} : (d \in Asking(j))' <=> d \in Asking(j)
    BY <1>1 DEF Asking
  <2>2. r \notin Asking(j) /\ ((r \in Asking(j))' => j = i)
    BY <1>1 DEF Asking
  <2>3. own'[r] = limiter[i] /\ \A d \in Req \ {r} : own'[d] = own[d]
    BY <1>1
  <2>4. Asking(j) \subseteq Req /\ Asking(j)' \subseteq Req
    BY DEF Asking
  <2>. QED BY <1>1, <2>1, <2>2, <2>3, <2>4 DEF Buckets
<1>3. \A j \in Ident : Rested(j)' => Rested(j)
  BY <1>1 DEF Rested
<1>4. OneBucket'
  BY <1>1, <1>2 DEF OneBucket
<1>5. ASSUME NEW j \in Ident \ forked, BudgetOf(j) PROVE BudgetOf(j)'
  BY <1>1, <1>2, <1>3, <1>5, BudgetFrame
<1>. QED BY <1>1, <1>4, <1>5 DEF Budget, Full

LEMMA PutBudget ==
    ASSUME LimiterInv, limits.store = "memory", UNCHANGED <<limits, ticks>>,
           NEW r \in Req, Put(r)
    PROVE  OneBucket' /\ Budget'
<1>. USE DEF LimiterInv, LimiterTypeInv, LimiterTypeOK, AskingOK
<1>. DEFINE i == client[r]
<1>1. /\ rstep[r] = "put" /\ i \in Ident /\ own[r] # None
      /\ limiter' = [limiter EXCEPT ![i] = own[r]] /\ age' = [age EXCEPT ![i] = 0]
      /\ rstep' = [rstep EXCEPT ![r] = "out"]
      /\ UNCHANGED <<client, own, bucket, served, forked>>
  BY DEF Put
<1>2. own[r] \in Buckets(i)
  BY <1>1 DEF Buckets, Asking
<1>3. \A j \in Ident : Asking(j)' = Asking(j) \ {r}
  BY <1>1 DEF Asking
<1>4. \A j \in Ident \ {i} : Buckets(j)' = Buckets(j)
  <2>1. \A j \in Ident \ {i} : Asking(j)' = Asking(j) /\ limiter'[j] = limiter[j]
    BY <1>1, <1>3 DEF Asking
  <2>. QED BY <1>1, <2>1 DEF Buckets
<1>5. Buckets(i)' \subseteq Buckets(i)
  BY <1>1, <1>2, <1>3 DEF Buckets
<1>6. own[r] \in Buckets(i)'
  BY <1>1 DEF Buckets
<1>7. OneBucket'
  BY <1>1, <1>4, <1>5 DEF OneBucket
<1>8. ASSUME NEW j \in Ident \ forked, BudgetOf(j) PROVE BudgetOf(j)'
  <2>1. CASE j = i
    <3>1. bucket[own[r]] >= 0
      BY <1>1, LimiterNumbers
    <3>. QED BY <1>1, <1>5, <1>6, <1>8, <2>1, <3>1 DEF BudgetOf, Full
  <2>2. CASE j # i
    <3>1. Rested(j)' => Rested(j)
      <4>1. own[r] # limiter[j]
        BY <1>1, <2>2 DEF BucketsOwned, Made
      <4>. QED BY <1>1, <2>2, <4>1 DEF Rested
    <3>. QED BY <1>1, <1>4, <1>8, <2>2, <3>1, BudgetFrame
  <2>. QED BY <2>1, <2>2
<1>. QED BY <1>1, <1>7, <1>8 DEF Budget, Full

\* Use takes from the one bucket what it has served.
LEMMA UseBudget ==
    ASSUME LimiterInv, ~Unlimited, limits.store = "memory", UNCHANGED <<limits, ticks>>,
           NEW r \in Req, Use(r)
    PROVE  OneBucket' /\ Budget'
<1>. USE DEF LimiterInv, LimiterTypeInv, LimiterTypeOK, AskingOK
<1>. DEFINE i == client[r]
            b == own[r]
            enough == bucket[b] >= limits.period
<1>1. /\ rstep[r] = "allow" /\ i \in Ident /\ b # None /\ b \in Req
      /\ served' = IF enough THEN [served EXCEPT ![i] = @ + 1] ELSE served
      /\ bucket' = [bucket EXCEPT ![b] = IF enough THEN @ - limits.period ELSE @]
      /\ rstep' = [rstep EXCEPT ![r] = "put"]
      /\ UNCHANGED <<limiter, age, client, own, forked>>
  BY DEF Use, Answer
<1>2. \A j \in Ident : Buckets(j)' = Buckets(j)
  BY <1>1 DEF Buckets, Asking
<1>3. b \in Buckets(i) /\ Made(b, i)
  BY <1>1 DEF Buckets, Asking, BucketsOwned
<1>4. \A j \in Ident : Rested(j)' => Rested(j)
  BY <1>1 DEF Rested
<1>5. OneBucket'
  BY <1>1, <1>2 DEF OneBucket
<1>6. ASSUME NEW j \in Ident \ forked, BudgetOf(j) PROVE BudgetOf(j)'
  <2>1. CASE j = i
    <3>1. \A d \in Buckets(i) : d = b
      BY <1>3, <1>6, <2>1 DEF OneBucket
    <3>2. served'[i] * limits.period + bucket'[b] = served[i] * limits.period + bucket[b]
      <4>1. CASE enough
        <5>1. served'[i] = served[i] + 1 /\ bucket'[b] = bucket[b] - limits.period
          BY <1>1, <4>1
        <5>2. (served[i] + 1) * limits.period = served[i] * limits.period + limits.period
              /\ served[i] * limits.period \in Nat
          BY <1>1, LimiterNumbers, Arithmetic
        <5>. QED BY <1>1, <5>1, <5>2, LimiterNumbers
      <4>2. CASE ~enough
        BY <1>1, <4>2
      <4>. QED BY <4>1, <4>2
    <3>3. ~Rested(i)'
      <4>1. limiter[i] # None => limiter[i] = b
        BY <3>1 DEF Buckets
      <4>. QED BY <1>1, <4>1 DEF Rested
    <3>. QED BY <1>1, <1>2, <1>3, <1>6, <2>1, <3>1, <3>2, <3>3 DEF BudgetOf, Full
  <2>2. CASE j # i
    <3>1. \A d \in Buckets(j) : d # b
      BY <1>3, <2>2, BucketsOf DEF Made
    <3>. QED BY <1>1, <1>2, <1>4, <1>6, <2>2, <3>1, BudgetFrame
  <2>. QED BY <2>1, <2>2
<1>. QED BY <1>1, <1>5, <1>6 DEF Budget, Full

\* A bucket that is made while there is none costs its client the first request.
LEMMA CreateBudget ==
    ASSUME LimiterInv, ~Unlimited, limits.store = "memory", UNCHANGED <<limits, ticks>>,
           NEW r \in Req, Create(r)
    PROVE  OneBucket' /\ Budget'
<1>. USE DEF LimiterInv, LimiterTypeInv, LimiterTypeOK, AskingOK
<1>. DEFINE i == client[r]
<1>1. /\ rstep[r] = "allow" /\ i \in Ident /\ own[r] = None /\ r # None
      /\ own' = [own EXCEPT ![r] = r] /\ bucket' = [bucket EXCEPT ![r] = Full - limits.period]
      /\ served' = [served EXCEPT ![i] = @ + 1]
      /\ forked' = IF Buckets(i) = {} THEN forked ELSE forked \cup {i}
      /\ rstep' = [rstep EXCEPT ![r] = "put"]
      /\ UNCHANGED <<limiter, age, client>>
  BY LimiterAssumption DEF Create, Answer
<1>2. \A j \in Ident : Asking(j)' = Asking(j)
  BY <1>1 DEF Asking
<1>3. \A j \in Ident \ {i} : Buckets(j)' = Buckets(j)
  <2>1. \A j \in Ident \ {i} : \A d \in Asking(j) : own'[d] = own[d]
    BY <1>1 DEF Asking
  <2>. QED BY <1>1, <1>2, <2>1 DEF Buckets
<1>4. Buckets(i)' = Buckets(i) \cup {r}
  <2>1. r \in Asking(i) /\ Asking(i) \subseteq Req
    BY <1>1 DEF Asking
  <2>. QED BY <1>1, <1>2, <2>1 DEF Buckets
<1>5. \A j \in Ident : r \notin Buckets(j)
  BY <1>1, BucketsOf DEF Made
<1>6. i \notin forked' => Buckets(i)' = {r} /\ Buckets(i) = {}
  BY <1>1, <1>4
<1>7. OneBucket'
  BY <1>1, <1>3, <1>6 DEF OneBucket
<1>8. ASSUME NEW j \in Ident \ forked', BudgetOf(j) PROVE BudgetOf(j)'
  <2>1. CASE j = i
    <3>1. served[i] * limits.period <= ticks
      BY <1>6, <1>8, <2>1 DEF BudgetOf
    <3>2. served'[i] = served[i] + 1 /\ bucket'[r] = Full - limits.period
      BY <1>1
    <3>3. (served[i] + 1) * limits.period = served[i] * limits.period + limits.period
          /\ served[i] * limits.period \in Nat
      BY <1>1, LimiterNumbers, Arithmetic
    <3>4. served'[i] * limits.period + bucket'[r] <= Full + ticks
      BY <3>1, <3>2, <3>3, LimiterNumbers
    <3>5. ~Rested(i)'
      BY <1>1, <1>6, <2>1 DEF Rested, Buckets
    <3>6. client' = client /\ Buckets(j)' = {r} /\ ~Rested(j)'
      BY <1>1, <1>6, <1>8, <2>1, <3>5
    <3>7. served'[j] * limits'.period + bucket'[r] <= Full' + ticks'
      BY <2>1, <3>4 DEF Full
    <3>. QED BY <3>6, <3>7 DEF BudgetOf
  <2>2. CASE j # i
    <3>1. Rested(j)' => Rested(j)
      BY <1>1 DEF Rested
    <3>2. \A d \in Buckets(j) : bucket'[d] = bucket[d]
      BY <1>1, <1>5, BucketsOf
    <3>. QED BY <1>1, <1>3, <1>8, <2>2, <3>1, <3>2, BudgetFrame
  <2>. QED BY <2>1, <2>2
<1>9. \A j \in Ident \ forked' : j \notin forked
  BY <1>1
<1>. QED BY <1>7, <1>8, <1>9 DEF Budget, Full

\* A bucket is forgotten when it has rested long enough to be full.
LEMMA TickBudget ==
    ASSUME LimiterInv, limits.store = "memory", LimiterTick, limits' = limits
    PROVE  BucketsOwned' /\ OneBucket' /\ Budget'
<1>. USE DEF LimiterInv, LimiterTypeInv, LimiterTypeOK
<1>1. /\ ticks' = ticks + 1
      /\ limiter' = [i \in Ident |-> IF age[i] + 1 >= Expiration THEN None ELSE limiter[i]]
      /\ age' = [i \in Ident |->
            IF limiter[i] = None \/ age[i] + 1 >= Expiration THEN 0 ELSE age[i] + 1]
      /\ UNCHANGED <<rstep, client, own, served, forked>>
  BY DEF LimiterTick
<1>2. \A b \in Req : bucket'[b] = IF bucket[b] < Full THEN bucket[b] + 1 ELSE Full
  BY LimiterAssumption DEF LimiterTick
<1>3. BucketsOwned'
  BY <1>1 DEF BucketsOwned, Made
<1>4. \A i \in Ident : Asking(i)' = Asking(i) /\ Buckets(i)' \subseteq Buckets(i)
  BY <1>1 DEF Buckets, Asking
<1>5. OneBucket'
  BY <1>1, <1>4 DEF OneBucket
<1>6. ASSUME NEW i \in Ident \ forked, Expiration >= Full, BudgetOf(i) PROVE BudgetOf(i)'
  <2>. USE LimiterNumbers
  <2>0. Full' = Full /\ served[i] * limits.period \in Nat
    BY Arithmetic DEF Full
  <2>1. \A b \in Buckets(i) : b \in Req
    BY BucketsOf
  <2>2. ASSUME NEW b \in Buckets(i)
        PROVE  served[i] * limits.period + bucket'[b] <= Full + ticks'
    <3>1. served[i] * limits.period + bucket[b] <= Full + ticks /\ b \in Req
      BY <1>6, <2>1 DEF BudgetOf
    <3>. QED BY <1>1, <1>2, <2>0, <3>1
  <2>3. ASSUME Rested(i)' PROVE bucket'[limiter'[i]] >= age'[i] \/ bucket'[limiter'[i]] = Full
    <3>1. Rested(i) /\ limiter'[i] = limiter[i] /\ limiter[i] \in Req /\ age'[i] = age[i] + 1
      BY <1>1, <2>3 DEF Rested
    <3>2. bucket[limiter[i]] >= age[i] \/ bucket[limiter[i]] = Full
      BY <1>6, <3>1 DEF BudgetOf
    <3>. QED BY <1>2, <3>1, <3>2
  <2>4. ASSUME Buckets(i)' = {} PROVE served[i] * limits.period <= ticks'
    <3>1. CASE Buckets(i) = {}
      BY <1>1, <1>6, <2>0, <3>1 DEF BudgetOf
    <3>2. CASE Buckets(i) # {}
      <4>1. ASSUME NEW r \in Asking(i) PROVE own[r] = None
        <5>1. r \in Asking(i)' /\ own'[r] = own[r]
          BY <1>1, <1>4, <4>1
        <5>2. own'[r] = None \/ own'[r] \in Buckets(i)'
          BY <5>1 DEF Buckets
        <5>. QED BY <2>4, <5>1, <5>2
      <4>2. limiter[i] # None /\ limiter[i] \in Req /\ limiter[i] \in Buckets(i)
        BY <3>2, <4>1 DEF Buckets
      <4>3. Rested(i)
        <5>1. ASSUME NEW r \in Req, rstep[r] = "put", own[r] = limiter[i] PROVE FALSE
          <6>1. client[r] = i
            BY <4>2, <5>1 DEF BucketsOwned, Made
          <6>. QED BY <4>1, <4>2, <5>1, <6>1 DEF Asking
        <5>. QED BY <4>2, <5>1 DEF Rested
      <4>4. age[i] + 1 >= Expiration
        BY <1>1, <2>4, <4>2 DEF Buckets
      <4>5. bucket'[limiter[i]] = Full
        <5>1. bucket[limiter[i]] >= age[i] \/ bucket[limiter[i]] = Full
          BY <1>6, <4>3 DEF BudgetOf
        <5>. QED BY <1>2, <1>6, <4>2, <4>4, <5>1
      <4>6. served[i] * limits.period + bucket'[limiter[i]] <= Full + ticks'
        BY <2>2, <4>2
      <4>. QED BY <1>1, <2>0, <4>5, <4>6
    <3>. QED BY <3>1, <3>2
  <2>. QED BY <1>1, <1>4, <2>0, <2>2, <2>3, <2>4 DEF BudgetOf
<1>. QED BY <1>1, <1>3, <1>5, <1>6 DEF Budget, Full

-----------------------------------------------------------------------------
(* The store in redis, and the limiter as a whole.                         *)

LEMMA RedisStep ==
    ASSUME LimiterInv, ~Unlimited, limits.store = "redis", UNCHANGED <<limits, ticks>>,
           NEW r \in Req, NEW i \in Ident, Allow(r, i)
    PROVE  RedisBudget'
<1>. USE LimiterNumbers DEF LimiterInv, LimiterTypeInv, LimiterTypeOK, AskingOK
<1>1. RedisAllow(r, i)
  BY DEF Allow, Look, Use, Create, Put
<1>2. PerSecond' = PerSecond /\ ~Unlimited'
  BY DEF PerSecond, Unlimited
<1>3. ASSUME PerSecond # 0, NEW j \in Ident
      PROVE  bucket'[j] <= PerSecond /\ served'[j] <= ticks + bucket'[j]
  <2>1. PICK allowed \in {bucket[i] < PerSecond} :
            /\ served' = IF allowed THEN [served EXCEPT ![i] = @ + 1] ELSE served
            /\ bucket' = [bucket EXCEPT ![i] = IF allowed /\ PerSecond > 0 THEN @ + 1 ELSE @]
    BY <1>1, <1>3 DEF RedisAllow, Answer
  <2>2. bucket[j] <= PerSecond /\ served[j] <= ticks + bucket[j]
    BY <1>3 DEF RedisBudget
  <2>4. CASE bucket[i] < PerSecond
    <3>a. PerSecond > 0
      BY <1>3
    <3>b. allowed
      BY ONLY <2>1, <2>4, Zenon
    <3>0. PerSecond > 0 /\ allowed
      BY <3>a, <3>b
    <3>1. served' = [served EXCEPT ![i] = @ + 1] /\ bucket' = [bucket EXCEPT ![i] = @ + 1]
      BY <2>1, <3>0, Zenon
    <3>. QED BY <2>2, <2>4, <3>1
  <2>5. CASE ~(bucket[i] < PerSecond)
    <3>1. served' = served /\ bucket' = bucket
      BY <2>1, <2>5
    <3>. QED BY <2>2, <3>1
  <2>. QED BY <2>4, <2>5
<1>. QED BY <1>2, <1>3 DEF RedisBudget

LEMMA RedisTick ==
    ASSUME LimiterInv, limits.store = "redis", LimiterTick, limits' = limits
    PROVE  RedisBudget'
<1>. USE LimiterNumbers DEF LimiterInv, LimiterTypeInv, LimiterTypeOK
<1>1. ticks' = ticks + 1 /\ served' = served /\ ~Unlimited /\ PerSecond' = PerSecond
      /\ \A i \in Ident : bucket'[i] = IF bucket[i] = 0 THEN 0 ELSE bucket[i] - 1
  BY DEF LimiterTick, PerSecond
<1>. QED BY <1>1 DEF RedisBudget

LEMMA LimiterStep ==
    ASSUME LimiterInv, limits' = limits,
           \/ UNCHANGED <<limiterVars, ticks>>
           \/ LimiterTick
           \/ ~Unlimited /\ ticks' = ticks /\ \E r \in Req, i \in Ident : Allow(r, i)
    PROVE  LimiterInv'
<1>1. CASE UNCHANGED <<limiterVars, ticks>>
  <2>1. UNCHANGED <<limits, limiter, age, bucket, rstep, client, own, ok, served, forked, ticks>>
    BY <1>1 DEF limiterVars
  <2>2. LimiterTypeInv' <=> LimiterTypeInv
    BY <2>1 DEF LimiterTypeInv, LimiterTypeOK, AskingOK, Full
  <2>3. \A i : Buckets(i)' = Buckets(i)
    BY <2>1 DEF Buckets, Asking
  <2>4. (BucketsOwned' <=> BucketsOwned) /\ (OneBucket' <=> OneBucket)
    BY <2>1, <2>3 DEF BucketsOwned, Made, OneBucket
  <2>5. \A i : Rested(i)' <=> Rested(i)
    BY <2>1 DEF Rested
  <2>6. \A i \in Ident : BudgetOf(i) => BudgetOf(i)'
    BY <2>1, <2>3, <2>5, BudgetFrame
  <2>7. Budget => Budget'
    BY <2>1, <2>6 DEF Budget, Full
  <2>8. RedisBudget' <=> RedisBudget
    BY <2>1 DEF RedisBudget, PerSecond, Unlimited
  <2>. QED BY <2>1, <2>2, <2>4, <2>7, <2>8 DEF LimiterInv
<1>2. CASE LimiterTick
  BY <1>2, LimiterTickTypes, TickBudget, RedisTick DEF LimiterInv
<1>3. ASSUME ~Unlimited, ticks' = ticks, NEW r \in Req, NEW i \in Ident, Allow(r, i)
      PROVE  LimiterInv'
  <2>1. LimiterTypeInv'
    BY <1>3, LimiterStepTypes DEF LimiterInv
  <2>2. CASE limits.store = "memory"
    <3>1. BucketsOwned'
      BY <1>3, <2>2, OwnersStay DEF LimiterInv
    <3>2. Look(r, i) \/ Use(r) \/ Create(r) \/ Put(r)
      BY <1>3, <2>2 DEF Allow, RedisAllow
    <3>3. OneBucket' /\ Budget'
      BY <1>3, <2>2, <3>2, LookBudget, UseBudget, CreateBudget, PutBudget
    <3>. QED BY <2>1, <2>2, <3>1, <3>3 DEF LimiterInv
  <2>3. CASE limits.store = "redis"
    BY <1>3, <2>1, <2>3, RedisStep DEF LimiterInv
  <2>4. CASE limits.store \notin {"memory", "redis"}
    BY <2>1, <2>4 DEF LimiterInv
  <2>. QED BY <2>2, <2>3, <2>4
<1>. QED BY <1>1, <1>2, <1>3

LEMMA LimiterStart ==
    ASSUME LimiterInit, limits \in Limits PROVE LimiterInv
<1>1. limits.max \in Nat /\ limits.period \in Nat /\ Full \in Nat
  BY Arithmetic DEF Limits, Full
<1>0. served \in [Ident -> Nat] /\ (limits.store = "memory" => \A i \in Ident : served[i] = 0)
  BY LimiterAssumption DEF LimiterInit, UsedBefore
<1>2. LimiterTypeInv
  BY <1>0, <1>1, LimiterAssumption DEF LimiterInit, LimiterTypeInv, LimiterTypeOK, AskingOK
<1>3. \A i \in Ident : Buckets(i) = {} /\ ~Rested(i)
  BY DEF LimiterInit, Buckets, Asking, Rested
<1>4. BucketsOwned /\ OneBucket
  BY <1>3 DEF LimiterInit, BucketsOwned, OneBucket
<1>5. limits.store = "memory" => Budget
  <2>1. \A i \in Ident : served[i] = 0 => served[i] * limits.period = 0
    BY <1>1
  <2>2. ticks = 0
    BY DEF LimiterInit
  <2>3. ASSUME limits.store = "memory", NEW i \in Ident PROVE BudgetOf(i)
    <3>1. served[i] * limits.period <= ticks
      BY <1>0, <2>1, <2>2, <2>3
    <3>. QED BY <1>3, <3>1 DEF BudgetOf
  <2>. QED BY <2>3 DEF Budget
<1>6. limits.store = "redis" => RedisBudget
  <2>1. ~Unlimited => PerSecond \in Nat
    BY <1>2, LimiterNumbers
  <2>2. \A i \in Ident : bucket[i] = served[i]
    BY DEF LimiterInit
  <2>3. limits.store = "redis" /\ ~Unlimited => \A i \in Ident : served[i] <= PerSecond
    BY DEF LimiterInit, UsedBefore
  <2>. QED BY <1>0, <2>1, <2>2, <2>3 DEF LimiterInit, RedisBudget
<1>. QED BY <1>2, <1>4, <1>5, <1>6 DEF LimiterInv

\* Who is served: no more than the buckets ever held.
LEMMA BurstFollows == LimiterInv => BurstHolds
<1>. SUFFICES ASSUME LimiterInv, NEW i \in Ident, ~Unlimited, i \notin forked
              PROVE  \/ /\ limits.store = "memory"
                        /\ \/ served[i] * limits.period <= Full + ticks
                           \/ Expiration < Full
                     \/ /\ limits.store = "redis"
                        /\ \/ served[i] <= PerSecond + ticks
                           \/ PerSecond = 0
  BY DEF BurstHolds
<1>. USE LimiterNumbers DEF LimiterInv
<1>1. CASE limits.store = "memory"
  <2>1. CASE Expiration >= Full
    <3>1. BudgetOf(i) /\ served[i] * limits.period \in Nat
      BY <1>1, <2>1, Arithmetic DEF Budget
    <3>2. CASE Buckets(i) = {}
      BY <1>1, <3>1, <3>2 DEF BudgetOf
    <3>3. ASSUME NEW b \in Buckets(i) PROVE served[i] * limits.period <= Full + ticks
      <4>1. bucket[b] \in Nat
        BY <1>1, BucketsOf
      <4>. QED BY <3>1, <4>1 DEF BudgetOf
    <3>. QED BY <1>1, <3>2, <3>3
  <2>. QED BY <1>1, <2>1
<1>2. CASE limits.store = "redis"
  <2>1. CASE PerSecond # 0
    <3>. QED BY <1>2, <2>1 DEF RedisBudget
  <2>. QED BY <1>2, <2>1
<1>3. limits.store # "off"
  BY DEF Unlimited
<1>. QED BY <1>1, <1>2, <1>3 DEF LimiterTypeInv, Limits

-----------------------------------------------------------------------------
(* The chain.                                                              *)

LEMMA Codes ==
    /\ CodeOf.unauthorized \in Nat /\ CodeOf.plain \in Nat /\ CodeOf.forbidden \in Nat
    /\ CodeOf.too_many_requests \in Nat /\ CodeOf.internal_server_error \in Nat
    /\ CodeOf.request_entity_too_large \in Nat /\ CodeOf.bad_request \in Nat
    /\ CodeOf.not_found \in Nat
BY DEF CodeOf

LEMMA HealthApart == ~InApi("health")
<1>1. "health" \notin DOMAIN ApiRoutes
  <2>1. \A g \in Groups : "health" \notin DOMAIN g
    <3>1. "health" \notin DOMAIN LoginHandlers
      BY DEF LoginHandlers
    <3>2. "health" \notin DOMAIN MenuHandlers
      BY DEF MenuHandlers
    <3>3. "health" \notin DOMAIN RoleHandlers
      BY DEF RoleHandlers
    <3>4. "health" \notin DOMAIN UserHandlers
      BY DEF UserHandlers
    <3>5. "health" \notin DOMAIN LoggerHandlers
      BY DEF LoggerHandlers
    <3>. QED BY <3>1, <3>2, <3>3, <3>4, <3>5 DEF Groups
  <2>. QED BY <2>1 DEF ApiRoutes
<1>. QED BY <1>1 DEF InApi

\* A step of r leaves the other requests where they are.
LEMMA OneMoves ==
    ASSUME ChainInv, NEW r \in Req, UNCHANGED <<config, limits, enforcer, inForce, reloads>>,
           faults' \in 0..MaxFaults, pc' \in [Req -> Place], q' \in [Req -> Known],
           \A s \in Req \ {r} : pc'[s] = pc[s] /\ q'[s] = q[s],
           RequestOK(pc'[r], q'[r], inForce[r], config, enforcer)
    PROVE  ChainInv'
BY DEF ChainInv

\* What holds of a request on its way.
LEMMA OnTheWay ==
    ASSUME ChainInv, NEW r \in Req
    PROVE  /\ q[r] \in Known /\ pc[r] \in Place /\ inForce[r] \subseteq Policies \cup {NoPolicy}
           /\ Replied(pc[r], q[r], config) /\ Judged(pc[r], q[r], inForce[r], config, enforcer)
BY DEF ChainInv, RequestOK

\* A middleware answers.
LEMMA ReplyStep ==
    ASSUME ChainInv, NEW r \in Req, pc[r] \in {"auth", "limit", "casbin", "enforce"},
           UNCHANGED <<config, limits, enforcer, inForce, reloads>>, faults' \in 0..MaxFaults,
           NEW code \in Nat, Reply(r, code)
    PROVE  ChainInv'
<1>. DEFINE d == q[r]
            e == [d EXCEPT !.replies = Append(@, code)]
<1>1. q' = [q EXCEPT ![r] = e] /\ pc' = [pc EXCEPT ![r] = "back"]
  BY DEF Reply
<1>2. /\ d \in Known /\ inForce[r] \subseteq Policies \cup {NoPolicy}
      /\ d.replies = <<>> /\ ~d.ran /\ ~d.panicked /\ ~d.cors /\ d.check # "denied"
      /\ enforcer \in inForce[r]
  BY OnTheWay DEF Replied, Judged
<1>3. /\ e \in Known /\ Len(e.replies) = 1 /\ ~e.panicked /\ ~e.cors /\ ~e.ran
      /\ e.check # "denied"
  <2>1. Append(d.replies, code) \in Seq(Nat) /\ Len(Append(d.replies, code)) = 1
    BY <1>2
  <2>2. /\ e \in Known /\ e.replies = Append(d.replies, code) /\ e.panicked = d.panicked
        /\ e.cors = d.cors /\ e.ran = d.ran /\ e.check = d.check
    BY <1>2, <2>1 DEF Known
  <2>. QED BY <1>2, <2>1, <2>2
<1>4. RequestOK("back", e, inForce[r], config, enforcer)
  BY <1>2, <1>3 DEF RequestOK, Place, Replied, Judged
<1>5. q' \in [Req -> Known] /\ pc' \in [Req -> Place] /\ q'[r] = e /\ pc'[r] = "back"
      /\ \A s \in Req \ {r} : pc'[s] = pc[s] /\ q'[s] = q[s]
  BY <1>1, <1>3 DEF ChainInv, Place
<1>. QED BY <1>4, <1>5, OneMoves

LEMMA AuthStep == ASSUME ChainInv, NEW r \in Req, Auth(r) PROVE ChainInv'
<1>. DEFINE d == q[r]
<1>1. /\ pc[r] = "auth" /\ d \in Known /\ inForce[r] \subseteq Policies \cup {NoPolicy}
      /\ Replied("auth", d, config) /\ Judged("auth", d, inForce[r], config, enforcer)
  BY OnTheWay DEF Auth
<1>2. UNCHANGED <<config, limits, enforcer, inForce, reloads, faults>> /\ faults' \in 0..MaxFaults
  BY DEF Auth, Elsewhere, ChainInv
<1>3. CASE d.path \in AuthSkips
  <2>1. pc' = [pc EXCEPT ![r] = "limit"] /\ q' = q
    BY <1>3 DEF Auth, GoTo
  <2>2. RequestOK("limit", d, inForce[r], config, enforcer)
    BY <1>1, <1>3 DEF RequestOK, Replied, Judged, Place
  <2>. QED BY <1>1, <1>2, <2>1, <2>2, OneMoves DEF ChainInv, Place
<1>4. ASSUME NEW code \in Nat, Reply(r, code) PROVE ChainInv'
  BY <1>1, <1>2, <1>4, ReplyStep
<1>5. ASSUME NEW u \in User \cup {Root}, NEW roles \in RoleLists \cup {<<>>}, GoTo(r, "limit"),
             q' = [q EXCEPT ![r] = [d EXCEPT !.user = u, !.roles = roles]]
      PROVE  ChainInv'
  <2>. DEFINE e == [d EXCEPT !.user = u, !.roles = roles]
  <2>1. /\ e \in Known /\ e.user = u /\ e.path = d.path /\ e.check = d.check
        /\ e.replies = d.replies /\ e.ran = d.ran /\ e.panicked = d.panicked
        /\ e.cors = d.cors
    BY <1>1 DEF Known, Who
  <2>2. RequestOK("limit", e, inForce[r], config, enforcer)
    BY <1>1, <2>1, PipelineAssumption DEF RequestOK, Replied, Judged, Place
  <2>3. q' \in [Req -> Known] /\ pc' \in [Req -> Place] /\ q'[r] = e /\ pc'[r] = "limit"
        /\ \A s \in Req \ {r} : pc'[s] = pc[s] /\ q'[s] = q[s]
    BY <1>5, <2>1 DEF ChainInv, Place, GoTo
  <2>. QED BY <1>2, <2>2, <2>3, OneMoves
<1>6. d.path \notin AuthSkips =>
          \/ Reply(r, CodeOf.unauthorized) \/ Reply(r, CodeOf.plain)
          \/ GoTo(r, "limit") /\ q' = [q EXCEPT ![r].user = Root]
          \/ GoTo(r, "limit") /\ \E u \in User, roles \in RoleLists :
                                    q' = [q EXCEPT ![r].user = u, ![r].roles = roles]
  BY DEF Auth
<1>7. ASSUME GoTo(r, "limit"), q' = [q EXCEPT ![r].user = Root] PROVE ChainInv'
  <2>1. q' = [q EXCEPT ![r] = [d EXCEPT !.user = Root]]
    BY <1>7
  <2>2. d.roles \in RoleLists \cup {<<>>} /\ [d EXCEPT !.user = Root] = [d EXCEPT !.user = Root, !.roles = d.roles]
    BY <1>1 DEF Known
  <2>. QED BY <1>5, <1>7, <2>1, <2>2
<1>8. ASSUME NEW u \in User, NEW roles \in RoleLists, GoTo(r, "limit"),
             q' = [q EXCEPT ![r].user = u, ![r].roles = roles]
      PROVE  ChainInv'
  <2>1. q' = [q EXCEPT ![r] = [d EXCEPT !.user = u, !.roles = roles]]
    BY <1>1, <1>8 DEF ChainInv
  <2>. QED BY <1>5, <1>8, <2>1
<1>. QED BY <1>3, <1>4, <1>6, <1>7, <1>8, Codes

LEMMA OneBecomes ==
    ASSUME ChainInv, NEW r \in Req, UNCHANGED <<config, limits, enforcer, inForce, reloads>>,
           faults' \in 0..MaxFaults, NEW p, NEW e, RequestOK(p, e, inForce[r], config, enforcer),
           pc' = [pc EXCEPT ![r] = p], q' = [q EXCEPT ![r] = e]
    PROVE  ChainInv'
<1>1. p \in Place /\ e \in Known
  BY DEF RequestOK
<1>2. q' \in [Req -> Known] /\ pc' \in [Req -> Place] /\ q'[r] = e /\ pc'[r] = p
      /\ \A s \in Req \ {r} : pc'[s] = pc[s] /\ q'[s] = q[s]
  BY <1>1 DEF ChainInv
<1>. QED BY <1>2, OneMoves

\* The limiter's part of the chain.
LEMMA LimitSteps ==
    ASSUME ChainInv, NEW r \in Req, LimitSkipped(r) \/ Limit(r) \/ Limited(r)
    PROVE  ChainInv'
<1>. DEFINE d == q[r]
<1>1. /\ pc[r] = "limit" /\ d \in Known /\ inForce[r] \subseteq Policies \cup {NoPolicy}
      /\ Replied("limit", d, config) /\ Judged("limit", d, inForce[r], config, enforcer)
      /\ q = [q EXCEPT ![r] = d] /\ pc = [pc EXCEPT ![r] = "limit"]
  BY OnTheWay DEF LimitSkipped, Limit, Limited, ChainInv
<1>2. UNCHANGED <<config, limits, enforcer, inForce, reloads>> /\ faults' \in 0..MaxFaults
  <2>1. UNCHANGED faults \/ (faults < MaxFaults /\ faults' = faults + 1)
    BY DEF LimitSkipped, Limit, Limited
  <2>2. MaxFaults \in Nat /\ faults \in 0..MaxFaults
    BY PipelineAssumption DEF ChainInv
  <2>. QED BY <2>1, <2>2 DEF LimitSkipped, Limit, Limited, Elsewhere
<1>3. CASE GoTo(r, "casbin") /\ UNCHANGED q
  <2>1. RequestOK("casbin", d, inForce[r], config, enforcer)
    BY <1>1 DEF RequestOK, Replied, Judged, Place
  <2>. QED BY <1>1, <1>2, <1>3, <2>1, OneBecomes DEF GoTo
<1>4. CASE UNCHANGED <<pc, q>>
  <2>1. RequestOK("limit", d, inForce[r], config, enforcer)
    BY <1>1 DEF RequestOK, Place
  <2>. QED BY <1>1, <1>2, <1>4, <2>1, OneBecomes
<1>5. ASSUME NEW code \in Nat, Reply(r, code) PROVE ChainInv'
  BY <1>1, <1>2, <1>5, ReplyStep
<1>. QED BY <1>3, <1>4, <1>5, Codes DEF LimitSkipped, Limit, Limited

\* Casbin answers that no role may.
LEMMA DeniedStep ==
    ASSUME ChainInv, NEW r \in Req, pc[r] \in {"casbin", "enforce"}, Refused(q[r], inForce[r]),
           UNCHANGED <<config, limits, enforcer, inForce, reloads, faults>>, GoTo(r, "back"),
           q' = [q EXCEPT ![r].check = "denied", ![r].replies = Append(@, CodeOf.forbidden)]
    PROVE  ChainInv'
<1>. DEFINE d == q[r]
            a == Append(d.replies, CodeOf.forbidden)
            e == [d EXCEPT !.check = "denied", !.replies = a]
<1>1. q' = [q EXCEPT ![r] = e] /\ pc' = [pc EXCEPT ![r] = "back"] /\ faults' \in 0..MaxFaults
  BY DEF GoTo, ChainInv
<1>2. /\ d \in Known /\ inForce[r] \subseteq Policies \cup {NoPolicy}
      /\ d.replies = <<>> /\ ~d.ran /\ ~d.panicked /\ ~d.cors /\ enforcer \in inForce[r]
  BY OnTheWay DEF Replied, Judged
<1>3. a \in Seq(Nat) /\ Len(a) = 1
  BY <1>2, Codes
<1>4. /\ e \in Known /\ e.replies = a /\ e.panicked = d.panicked /\ e.cors = d.cors
      /\ e.ran = d.ran /\ e.path = d.path /\ e.roles = d.roles
  BY <1>2, <1>3 DEF Known
<1>5. Refused(e, inForce[r])
  BY <1>4 DEF Refused
<1>6. RequestOK("back", e, inForce[r], config, enforcer)
  BY <1>2, <1>3, <1>4, <1>5 DEF RequestOK, Place, Replied, Judged
<1>. QED BY <1>1, <1>6, OneBecomes

\* A request that Casbin lets pass is on its way to the handler.
LEMMA PassStep ==
    ASSUME ChainInv, NEW r \in Req, pc[r] \in {"casbin", "enforce"},
           Admitted(q[r], inForce[r], config), NEW check \in {"skipped", "granted"},
           UNCHANGED <<config, limits, enforcer, inForce, reloads, faults>>, GoTo(r, "endpoint"),
           q' = [q EXCEPT ![r].check = check]
    PROVE  ChainInv'
<1>. DEFINE d == q[r]
            e == [d EXCEPT !.check = check]
<1>1. q' = [q EXCEPT ![r] = e] /\ pc' = [pc EXCEPT ![r] = "endpoint"] /\ faults' \in 0..MaxFaults
  BY DEF GoTo, ChainInv
<1>2. /\ d \in Known /\ inForce[r] \subseteq Policies \cup {NoPolicy}
      /\ d.replies = <<>> /\ ~d.ran /\ ~d.panicked /\ ~d.cors /\ enforcer \in inForce[r]
  BY OnTheWay DEF Replied, Judged
<1>3. /\ e \in Known /\ e.replies = d.replies /\ e.panicked = d.panicked /\ e.check = check
      /\ e.cors = d.cors /\ e.ran = d.ran /\ e.path = d.path /\ e.roles = d.roles
      /\ e.user = d.user
  BY <1>2 DEF Known
<1>4. Admitted(e, inForce[r], config)
  BY <1>3 DEF Admitted
<1>5. RequestOK("endpoint", e, inForce[r], config, enforcer)
  BY <1>2, <1>3, <1>4 DEF RequestOK, Place, Replied, Judged
<1>. QED BY <1>1, <1>5, OneBecomes

LEMMA CasbinStep == ASSUME ChainInv, NEW r \in Req, Casbin(r) PROVE ChainInv'
<1>. DEFINE d == q[r]
<1>1. /\ pc[r] = "casbin" /\ d \in Known /\ inForce[r] \subseteq Policies \cup {NoPolicy}
      /\ Replied("casbin", d, config) /\ Judged("casbin", d, inForce[r], config, enforcer)
      /\ enforcer \in Policies \cup {NoPolicy}
  BY OnTheWay DEF Casbin, ChainInv
<1>2. UNCHANGED <<config, limits, enforcer, inForce, reloads, faults>> /\ faults' \in 0..MaxFaults
  BY DEF Casbin, Elsewhere, ChainInv
<1>3. CASE /\ CasbinSkipped(r)
           /\ q' = [q EXCEPT ![r].check = "skipped"] /\ GoTo(r, "endpoint")
  <2>1. Admitted(d, inForce[r], config)
    BY <1>1, <1>3 DEF Judged, Admitted, CasbinSkipped
  <2>. QED BY <1>1, <1>2, <1>3, <2>1, PassStep
<1>4. CASE /\ enforcer = NoPolicy /\ GoTo(r, "back")
           /\ q' = [q EXCEPT ![r].check = "denied", ![r].replies = Append(@, CodeOf.forbidden)]
  <2>1. Refused(d, inForce[r])
    BY <1>1, <1>4 DEF Judged, Refused
  <2>. QED BY <1>1, <1>2, <1>4, <2>1, DeniedStep
<1>5. CASE /\ enforcer # NoPolicy /\ GoTo(r, "enforce")
           /\ q' = [q EXCEPT ![r].policy = enforcer, ![r].left = q[r].roles]
  <2>. DEFINE e == [d EXCEPT !.policy = enforcer, !.left = d.roles]
  <2>1. d.roles \in Seq(UNION {Elems(l) : l \in RoleLists})
    <3>1. d.roles \in RoleLists \cup {<<>>}
      BY <1>1 DEF Known
    <3>2. ASSUME NEW l \in RoleLists PROVE l \in Seq(UNION {Elems(k) : k \in RoleLists})
      <4>1. l \in Seq(Elems(l))
        BY PipelineAssumption DEF Elems
      <4>2. Elems(l) \subseteq UNION {Elems(k) : k \in RoleLists}
        OBVIOUS
      <4>. QED BY <4>1, <4>2
    <3>3. <<>> \in Seq(UNION {Elems(k) : k \in RoleLists})
      OBVIOUS
    <3>. QED BY <3>1, <3>2, <3>3, Zenon
  <2>2. /\ e \in Known /\ e.policy = enforcer /\ e.left = d.roles /\ e.path = d.path
        /\ e.check = d.check /\ e.roles = d.roles /\ e.replies = d.replies /\ e.ran = d.ran
        /\ e.panicked = d.panicked /\ e.cors = d.cors
    BY <1>1, <2>1 DEF Known
  <2>3. Asked(e, inForce[r])
    BY <1>1, <1>5, <2>2 DEF Judged, Asked
  <2>4. RequestOK("enforce", e, inForce[r], config, enforcer)
    BY <1>1, <2>2, <2>3 DEF RequestOK, Place, Replied, Judged
  <2>5. q' = [q EXCEPT ![r] = e]
    BY <1>5
  <2>. QED BY <1>2, <1>5, <2>4, <2>5, OneBecomes DEF GoTo
<1>. QED BY <1>3, <1>4, <1>5 DEF Casbin

\* All roles are asked for with the one policy that the request took.
LEMMA EnforceStep == ASSUME ChainInv, NEW r \in Req, Enforce(r) PROVE ChainInv'
<1>. DEFINE d == q[r]
<1>1. /\ pc[r] = "enforce" /\ d \in Known /\ inForce[r] \subseteq Policies \cup {NoPolicy}
      /\ Replied("enforce", d, config) /\ Judged("enforce", d, inForce[r], config, enforcer)
      /\ Asked(d, inForce[r]) /\ d.left \in Seq(UNION {Elems(l) : l \in RoleLists})
      /\ pc = [pc EXCEPT ![r] = "enforce"]
  BY OnTheWay DEF Enforce, Judged, Known, ChainInv
<1>2. UNCHANGED <<config, limits, enforcer, inForce, reloads>>
  BY DEF Enforce, Elsewhere
<1>3. CASE /\ d.left = <<>> /\ GoTo(r, "back") /\ UNCHANGED faults
           /\ q' = [q EXCEPT ![r].check = "denied", ![r].replies = Append(@, CodeOf.forbidden)]
  <2>1. \A n \in DOMAIN d.roles : <<d.roles[n], d.path>> \notin d.policy
    BY <1>1, <1>3 DEF Asked, Elems
  <2>2. Refused(d, inForce[r])
    BY <1>1, <2>1 DEF Refused, Asked
  <2>. QED BY <1>1, <1>2, <1>3, <2>2, DeniedStep
<1>4. CASE /\ d.left # <<>> /\ <<Head(d.left), d.path>> \in d.policy
           /\ q' = [q EXCEPT ![r].check = "granted"] /\ GoTo(r, "endpoint") /\ UNCHANGED faults
  <2>1. Head(d.left) \in Elems(d.left)
    BY <1>1, <1>4 DEF Elems
  <2>2. Admitted(d, inForce[r], config)
    BY <1>1, <1>4, <2>1 DEF Admitted, Asked
  <2>. QED BY <1>1, <1>2, <1>4, <2>2, PassStep
<1>5. CASE /\ d.left # <<>> /\ <<Head(d.left), d.path>> \notin d.policy
           /\ q' = [q EXCEPT ![r].left = Tail(@)] /\ UNCHANGED <<pc, faults>>
  <2>. DEFINE e == [d EXCEPT !.left = Tail(d.left)]
  <2>1. Tail(d.left) \in Seq(UNION {Elems(l) : l \in RoleLists})
    BY <1>1, <1>5
  <2>2. /\ e \in Known /\ e.policy = d.policy /\ e.left = Tail(d.left) /\ e.path = d.path
        /\ e.check = d.check /\ e.roles = d.roles /\ e.replies = d.replies /\ e.ran = d.ran
        /\ e.panicked = d.panicked /\ e.cors = d.cors
    BY <1>1, <2>1 DEF Known
  <2>3. Elems(d.left) = Elems(Tail(d.left)) \cup {Head(d.left)}
    <3>. DEFINE l == d.left
    <3>1. Len(l) \in Nat /\ Len(l) > 0 /\ Head(l) = l[1] /\ DOMAIN l = 1..Len(l)
          /\ DOMAIN Tail(l) = 1..(Len(l) - 1) /\ \A n \in 1..(Len(l) - 1) : Tail(l)[n] = l[n + 1]
      BY <1>1, <1>5
    <3>2. Elems(Tail(l)) = {l[n + 1] : n \in 1..(Len(l) - 1)}
      BY <3>1 DEF Elems
    <3>3. Elems(l) = {l[n] : n \in 1..Len(l)}
      BY <3>1 DEF Elems
    <3>4. \A n \in 1..Len(l) : n = 1 \/ n - 1 \in 1..(Len(l) - 1)
      BY <3>1
    <3>5. ASSUME NEW n \in 1..Len(l), n # 1 PROVE l[n] \in Elems(Tail(l))
      <4>1. n - 1 \in 1..(Len(l) - 1) /\ (n - 1) + 1 = n
        BY <3>1, <3>5
      <4>. QED BY <3>2, <4>1
    <3>6. \A n \in 1..(Len(l) - 1) : n + 1 \in 1..Len(l)
      BY <3>1
    <3>. QED BY <3>1, <3>2, <3>3, <3>5, <3>6
  <2>4. Asked(e, inForce[r])
    BY <1>1, <1>5, <2>2, <2>3 DEF Asked
  <2>5. RequestOK("enforce", e, inForce[r], config, enforcer)
    BY <1>1, <2>2, <2>4 DEF RequestOK, Place, Replied, Judged
  <2>6. q' = [q EXCEPT ![r] = e] /\ faults' \in 0..MaxFaults
    BY <1>5 DEF ChainInv
  <2>. QED BY <1>1, <1>2, <1>5, <2>5, <2>6, OneBecomes
<1>6. CASE faults < MaxFaults /\ faults' = faults + 1 /\ Reply(r, CodeOf.plain)
  <2>1. faults' \in 0..MaxFaults
    BY <1>6, PipelineAssumption DEF ChainInv
  <2>. QED BY <1>1, <1>2, <1>6, <2>1, ReplyStep, Codes
<1>. QED BY <1>3, <1>4, <1>5, <1>6 DEF Enforce

-----------------------------------------------------------------------------
(* The end of the chain.                                                   *)

LEMMA AnsweredStep ==
    ASSUME ChainInv, NEW r \in Req, pc[r] = "endpoint", NEW code \in Nat, NEW ran \in BOOLEAN,
           UNCHANGED <<config, limits, enforcer, inForce, reloads, faults>>,
           ran => InApi(q[r].path), GoTo(r, "back"),
           q' = [q EXCEPT ![r].replies = Append(@, code), ![r].ran = ran, ![r].counted = Counts]
    PROVE  ChainInv'
<1>. DEFINE d == q[r]
            a == Append(d.replies, code)
            e == [d EXCEPT !.replies = a, !.ran = ran, !.counted = Counts]
<1>1. q' = [q EXCEPT ![r] = e] /\ pc' = [pc EXCEPT ![r] = "back"] /\ faults' \in 0..MaxFaults
  BY DEF GoTo, ChainInv
<1>2. /\ d \in Known /\ inForce[r] \subseteq Policies \cup {NoPolicy} /\ enforcer \in inForce[r]
      /\ d.replies = <<>> /\ ~d.panicked /\ ~d.cors
      /\ ran => Admitted(d, inForce[r], config)
      /\ d.check = "denied" => Refused(d, inForce[r])
  BY OnTheWay DEF Replied, Judged
<1>3. a \in Seq(Nat) /\ Len(a) = 1
  BY <1>2
<1>4. Counts \in BOOLEAN /\ Counts = config.prom
  BY PipelineAssumption DEF ChainInv, Counts
<1>5. /\ e \in Known /\ e.replies = a /\ e.panicked = d.panicked /\ e.cors = d.cors
      /\ e.ran = ran /\ e.counted = Counts /\ e.path = d.path /\ e.roles = d.roles
      /\ e.user = d.user /\ e.check = d.check
  BY <1>2, <1>3, <1>4 DEF Known
<1>6. /\ Admitted(d, inForce[r], config) => Admitted(e, inForce[r], config)
      /\ Refused(d, inForce[r]) => Refused(e, inForce[r])
  BY <1>5 DEF Admitted, Refused
<1>7. RequestOK("back", e, inForce[r], config, enforcer)
  BY <1>2, <1>3, <1>4, <1>5, <1>6 DEF RequestOK, Place, Replied, Judged
<1>. QED BY <1>1, <1>7, OneBecomes

LEMMA OneMore ==
    ASSUME NEW s \in Seq(Nat), NEW x \in Nat, Len(s) = 0 \/ Len(s) = 1
    PROVE  Append(s, x) \in Seq(Nat)
           /\ (Len(Append(s, x)) = 1 \/ (Len(Append(s, x)) = 2 /\ Append(s, x)[2] = x))
<1>. DEFINE a == Append(s, x)
<1>1. CASE Len(s) = 0
  <2>1. a \in Seq(Nat) /\ Len(a) = 1
    BY <1>1
  <2>. HIDE DEF a
  <2>2. a \in Seq(Nat) /\ (Len(a) = 1 \/ (Len(a) = 2 /\ a[2] = x))
    BY <2>1
  <2>. QED BY <2>2 DEF a
<1>2. CASE Len(s) = 1
  <2>1. PICK y \in Nat : s = <<y>>
    <3>1. s[1] \in Nat /\ s = <<s[1]>>
      BY <1>2
    <3>. QED BY <3>1
  <2>2. Append(<<y>>, x) \in Seq(Nat) /\ Append(<<y>>, x)[2] = x /\ Len(Append(<<y>>, x)) = 2
    OBVIOUS
  <2>3. Append(s, x) = Append(<<y>>, x)
    BY <2>1, Zenon
  <2>. DEFINE b == Append(<<y>>, x)
  <2>. HIDE DEF b
  <2>4. b \in Seq(Nat) /\ (Len(b) = 1 \/ (Len(b) = 2 /\ b[2] = x))
    BY <2>2 DEF b
  <2>. QED BY <2>3, <2>4 DEF b
<1>. QED BY <1>1, <1>2

LEMMA TwoAtMost ==
    ASSUME NEW s \in Seq(Nat), NEW t \in Seq(Nat), NEW x \in Nat,
           \/ s = <<>> /\ (Len(t) = 0 \/ Len(t) = 1)
           \/ Len(s) = 1 /\ t = <<>>
    PROVE  LET a == s \o Append(t, x) IN
              a \in Seq(Nat) /\ (Len(a) = 1 \/ (Len(a) = 2 /\ a[2] = x))
<1>1. CASE s = <<>> /\ (Len(t) = 0 \/ Len(t) = 1)
  <2>1. Append(t, x) \in Seq(Nat)
    OBVIOUS
  <2>2. <<>> \o Append(t, x) = Append(t, x)
    BY <2>1
  <2>. QED BY <1>1, <2>2, OneMore
<1>2. CASE Len(s) = 1 /\ t = <<>>
  <2>1. s \o Append(<<>>, x) = Append(s, x)
    OBVIOUS
  <2>. QED BY <1>2, <2>1, OneMore
<1>. QED BY <1>1, <1>2

\* A panic of a handler, of Prometheus after the reply, or of the log on the way back.
LEMMA RecoverStep ==
    ASSUME ChainInv, NEW r \in Req, NEW written \in Seq(Nat), NEW ran \in BOOLEAN,
           \/ pc[r] = "endpoint" /\ (Len(written) = 0 \/ Len(written) = 1)
           \/ pc[r] = "back" /\ written = <<>>,
           UNCHANGED <<config, limits, enforcer, inForce, reloads>>,
           ran => Admitted(q[r], inForce[r], config), Recover(r, written, ran)
    PROVE  ChainInv'
<1>. DEFINE d == q[r]
            five == CodeOf.internal_server_error
            a == d.replies \o Append(written, five)
            e == [d EXCEPT !.replies = a, !.ran = ran, !.panicked = TRUE]
<1>0. MaxFaults \in Nat /\ faults \in 0..MaxFaults /\ faults < MaxFaults /\ faults' = faults + 1
  BY PipelineAssumption DEF ChainInv, Recover
<1>1. q' = [q EXCEPT ![r] = e] /\ pc' = [pc EXCEPT ![r] = "done"] /\ faults' \in 0..MaxFaults
  <2>1. faults' \in 0..MaxFaults
    BY <1>0
  <2>. QED BY <2>1 DEF GoTo, Recover
<1>2. /\ d \in Known /\ inForce[r] \subseteq Policies \cup {NoPolicy}
      /\ \/ d.replies = <<>> /\ (Len(written) = 0 \/ Len(written) = 1)
         \/ Len(d.replies) = 1 /\ written = <<>>
      /\ d.check = "denied" => Refused(d, inForce[r])
  BY OnTheWay DEF Replied, Judged
<1>3. a \in Seq(Nat) /\ (Len(a) = 1 \/ (Len(a) = 2 /\ a[2] = five))
  <2>1. d.replies \in Seq(Nat) /\ five \in Nat
    BY <1>2, Codes DEF Known
  <2>. QED BY <1>2, <2>1, TwoAtMost
<1>4. /\ e \in Known /\ e.replies = a /\ e.panicked /\ e.ran = ran
      /\ e.path = d.path /\ e.roles = d.roles /\ e.user = d.user /\ e.check = d.check
  BY <1>2, <1>3 DEF Known
<1>5. /\ Admitted(d, inForce[r], config) => Admitted(e, inForce[r], config)
      /\ Refused(d, inForce[r]) => Refused(e, inForce[r])
  BY <1>4 DEF Admitted, Refused
<1>6. RequestOK("done", e, inForce[r], config, enforcer)
  BY <1>2, <1>3, <1>4, <1>5 DEF RequestOK, Place, Replied, Judged
<1>. QED BY <1>1, <1>6, OneBecomes

LEMMA EndpointStep ==
    ASSUME ChainInv, NEW r \in Req, Handle(r) \/ NoHandler(r) PROVE ChainInv'
<1>1. pc[r] = "endpoint" /\ Judged("endpoint", q[r], inForce[r], config, enforcer)
  BY OnTheWay DEF Handle, NoHandler
<1>2. UNCHANGED <<config, limits, enforcer, inForce, reloads>>
  BY DEF Handle, NoHandler, Elsewhere
<1>3. ASSUME NEW code \in Nat, NEW ran \in BOOLEAN, Answered(r, code, ran),
             ran => InApi(q[r].path)
      PROVE  ChainInv'
  <2>1. CASE UNCHANGED faults /\ GoTo(r, "back")
             /\ q' = [q EXCEPT ![r].replies = Append(@, code), ![r].ran = ran, ![r].counted = Counts]
    BY <1>1, <1>2, <1>3, <2>1, AnsweredStep
  <2>2. CASE Recover(r, <<code>>, ran)
    <3>1. ran => Admitted(q[r], inForce[r], config)
      BY <1>1, <1>3 DEF Judged
    <3>2. <<code>> \in Seq(Nat) /\ Len(<<code>>) = 1
      OBVIOUS
    <3>. QED BY <1>1, <1>2, <2>2, <3>1, <3>2, RecoverStep
  <2>. QED BY <1>3, <2>1, <2>2 DEF Answered
<1>4. CASE NoHandler(r)
  <2>1. \/ Answered(r, 200, FALSE) \/ Answered(r, 404, FALSE)
        \/ Answered(r, CodeOf.not_found, FALSE)
    BY <1>4 DEF NoHandler
  <2>2. 200 \in Nat /\ 404 \in Nat /\ CodeOf.not_found \in Nat /\ FALSE \in BOOLEAN
    BY Codes
  <2>3. ASSUME NEW code \in Nat, Answered(r, code, FALSE) PROVE ChainInv'
    BY <1>3, <2>2, <2>3
  <2>. QED BY <2>1, <2>2, <2>3
<1>5. CASE Handle(r)
  <2>1. InApi(q[r].path)
    BY <1>5 DEF Handle, InApi
  <2>2. \/ Answered(r, CodeOf.bad_request, FALSE)
        \/ \E e \in {"not_found", "plain"} : Answered(r, CodeOf[e], TRUE)
        \/ Answered(r, 200, TRUE)
        \/ Recover(r, <<>>, TRUE)
    BY <1>5 DEF Handle
  <2>3. \A e \in {"not_found", "plain"} : CodeOf[e] \in Nat
    BY Codes
  <2>4. CASE Recover(r, <<>>, TRUE)
    <3>1. Admitted(q[r], inForce[r], config)
      BY <1>1, <2>1 DEF Judged
    <3>2. <<>> \in Seq(Nat) /\ Len(<<>>) = 0
      OBVIOUS
    <3>. QED BY <1>1, <1>2, <2>4, <3>1, <3>2, RecoverStep
  <2>. QED BY <1>3, <2>1, <2>2, <2>3, <2>4, Codes
<1>. QED BY <1>4, <1>5

LEMMA BackStep == ASSUME ChainInv, NEW r \in Req, Back(r) PROVE ChainInv'
<1>. DEFINE d == q[r]
            entry == IF Logged(d.path) THEN <<d.user, d.replies[1]>> ELSE <<>>
            e == [d EXCEPT !.log = entry]
<1>1. /\ pc[r] = "back" /\ d \in Known /\ inForce[r] \subseteq Policies \cup {NoPolicy}
      /\ Replied("back", d, config) /\ Judged("back", d, inForce[r], config, enforcer)
  BY OnTheWay DEF Back
<1>2. UNCHANGED <<config, limits, enforcer, inForce, reloads>>
  BY DEF Back, Elsewhere
<1>3. CASE q' = [q EXCEPT ![r].log = entry] /\ GoTo(r, "done") /\ UNCHANGED faults
  <2>1. d.replies \in Seq(Nat) /\ Len(d.replies) = 1 /\ d.user \in Who
    BY <1>1 DEF Replied, Known
  <2>2. entry \in {<<>>} \cup (Who \X Nat)
    BY <2>1
  <2>3. /\ e \in Known /\ e.log = entry /\ e.replies = d.replies /\ e.panicked = d.panicked
        /\ e.cors = d.cors /\ e.ran = d.ran /\ e.counted = d.counted
        /\ e.path = d.path /\ e.roles = d.roles /\ e.user = d.user /\ e.check = d.check
    BY <1>1, <2>2 DEF Known
  <2>4. /\ Admitted(d, inForce[r], config) => Admitted(e, inForce[r], config)
        /\ Refused(d, inForce[r]) => Refused(e, inForce[r])
    BY <2>3 DEF Admitted, Refused
  <2>5. RequestOK("done", e, inForce[r], config, enforcer)
    BY <1>1, <2>1, <2>3, <2>4 DEF RequestOK, Place, Replied, Judged
  <2>6. q' = [q EXCEPT ![r] = e] /\ pc' = [pc EXCEPT ![r] = "done"] /\ faults' \in 0..MaxFaults
    BY <1>3 DEF GoTo, ChainInv
  <2>. QED BY <1>2, <2>5, <2>6, OneBecomes
<1>4. CASE Recover(r, <<>>, d.ran)
  <2>1. d.ran \in BOOLEAN /\ (d.ran => Admitted(d, inForce[r], config))
    BY <1>1 DEF Judged, Known
  <2>2. <<>> \in Seq(Nat)
    OBVIOUS
  <2>. QED BY <1>1, <1>2, <1>4, <2>1, <2>2, RecoverStep
<1>. QED BY <1>3, <1>4 DEF Back

-----------------------------------------------------------------------------
(* The way in, the loader, and the chain as a whole.                       *)

Arrived(path, replies, b) == [Fresh EXCEPT !.path = path, !.replies = replies, !.cors = b]

LEMMA ArrivedKnown ==
    ASSUME NEW path \in Path \cup {"health"}, NEW replies \in Seq(Nat), NEW b \in BOOLEAN
    PROVE  /\ Arrived(path, replies, b) \in Known
           /\ Arrived(path, replies, b).path = path
           /\ Arrived(path, replies, b).replies = replies
           /\ Arrived(path, replies, b).cors = b
           /\ Arrived(path, replies, b).check = "none"
           /\ ~Arrived(path, replies, b).ran /\ ~Arrived(path, replies, b).panicked
<1>1. <<>> \in Seq(UNION {Elems(l) : l \in RoleLists}) /\ <<>> \in Seq(Nat)
  OBVIOUS
<1>. QED BY <1>1 DEF Arrived, Fresh, Known, Who

LEMMA ArrivedForms ==
    ASSUME NEW path, NEW replies
    PROVE  /\ Arrived(path, replies, FALSE) = [Fresh EXCEPT !.path = path, !.replies = replies]
           /\ Arrived(path, <<>>, FALSE) = [Fresh EXCEPT !.path = path]
<1>. DEFINE e == [Fresh EXCEPT !.path = path, !.replies = replies]
            f == [Fresh EXCEPT !.path = path]
<1>1. e.cors = FALSE
  BY DEF Fresh
<1>2. [e EXCEPT !.cors = FALSE] = e
  BY <1>1 DEF Fresh
<1>3. f.cors = FALSE /\ f.replies = <<>>
  BY DEF Fresh
<1>4. [f EXCEPT !.replies = <<>>] = f /\ [f EXCEPT !.cors = FALSE] = f
  BY <1>3 DEF Fresh
<1>. QED BY <1>2, <1>4 DEF Arrived

LEMMA ArriveStep == ASSUME ChainInv, NEW r \in Req, Arrive(r) PROVE ChainInv'
<1>1. /\ inForce' = [inForce EXCEPT ![r] = {enforcer}]
      /\ UNCHANGED <<config, limits, enforcer, reloads, faults>>
      /\ enforcer \in Policies \cup {NoPolicy}
  BY DEF Arrive, ChainInv
<1>2. ASSUME NEW p, NEW e, RequestOK(p, e, {enforcer}, config, enforcer),
             pc' = [pc EXCEPT ![r] = p], q' = [q EXCEPT ![r] = e]
      PROVE  ChainInv'
  <2>1. p \in Place /\ e \in Known /\ {enforcer} \in SUBSET (Policies \cup {NoPolicy})
    BY <1>2 DEF RequestOK
  <2>2. /\ pc' \in [Req -> Place] /\ q' \in [Req -> Known]
        /\ inForce' \in [Req -> SUBSET (Policies \cup {NoPolicy})]
    BY <1>1, <1>2, <2>1 DEF ChainInv
  <2>3. pc'[r] = p /\ q'[r] = e /\ inForce'[r] = {enforcer}
        /\ \A s \in Req \ {r} : pc'[s] = pc[s] /\ q'[s] = q[s] /\ inForce'[s] = inForce[s]
    BY <1>1, <1>2 DEF ChainInv
  <2>4. \A s \in Req : RequestOK(pc'[s], q'[s], inForce'[s], config, enforcer)
    BY <1>2, <2>3 DEF ChainInv
  <2>. QED BY <1>1, <2>2, <2>4 DEF ChainInv
<1>3. PICK path \in Path : Health(r, path) \/ CORS(r, path) \/ TooLong(r, path) \/ Enter(r, path)
  BY DEF Arrive
<1>4. ASSUME NEW replies \in Seq(Nat), NEW b \in BOOLEAN
      PROVE  /\ Arrived(path, replies, b) \in Known /\ Arrived(path, replies, b).path = path
             /\ Arrived(path, replies, b).replies = replies
             /\ Arrived(path, replies, b).cors = b
             /\ Arrived(path, replies, b).check = "none"
             /\ ~Arrived(path, replies, b).ran /\ ~Arrived(path, replies, b).panicked
  BY ArrivedKnown
<1>6. ASSUME NEW code \in Nat PROVE <<code>> \in Seq(Nat) /\ Len(<<code>>) = 1
  OBVIOUS
<1>a. <<200>> \in Seq(Nat) /\ Len(<<200>>) = 1 /\ FALSE \in BOOLEAN
  BY <1>6
<1>7. CASE Health(r, path)
  <2>1. q' = [q EXCEPT ![r] = Arrived(path, <<200>>, FALSE)] /\ pc' = [pc EXCEPT ![r] = "done"]
    <3>1. Arrived(path, <<200>>, FALSE) = [Fresh EXCEPT !.path = path, !.replies = <<200>>]
      BY ArrivedForms
    <3>. QED BY <1>7, <3>1 DEF Health, GoTo
  <2>2. RequestOK("done", Arrived(path, <<200>>, FALSE), {enforcer}, config, enforcer)
    <3>1. path = "health" /\ ~Logged(path)
      BY <1>7, HealthApart DEF Health, Logged
    <3>. DEFINE e == Arrived(path, <<200>>, FALSE)
    <3>2. e \in Known /\ e.path = path /\ Len(e.replies) = 1 /\ ~e.ran /\ e.check = "none"
      BY <1>4, <1>a
    <3>. HIDE DEF e
    <3>a. Replied("done", e, config)
      BY <3>1, <3>2 DEF Replied
    <3>b. Judged("done", e, {enforcer}, config, enforcer)
      BY <3>1, <3>2 DEF Judged
    <3>c. "done" \in Place /\ {enforcer} \subseteq Policies \cup {NoPolicy}
      BY <1>1 DEF Place
    <3>d. RequestOK("done", e, {enforcer}, config, enforcer)
      BY <3>1, <3>2, <3>a, <3>b, <3>c DEF RequestOK
    <3>. QED BY <3>d DEF e
  <2>. QED BY <1>2, <2>1, <2>2
<1>8. CASE CORS(r, path)
  <2>1. PICK code \in {204, CodeOf.forbidden} :
            q' = [q EXCEPT ![r] = Arrived(path, <<code>>, TRUE)]
    BY <1>8 DEF CORS, Arrived
  <2>2. pc' = [pc EXCEPT ![r] = "done"]
    BY <1>8 DEF CORS, GoTo
  <2>3. <<code>> \in Seq(Nat) /\ Len(<<code>>) = 1 /\ TRUE \in BOOLEAN
    BY <1>6, Codes
  <2>4. RequestOK("done", Arrived(path, <<code>>, TRUE), {enforcer}, config, enforcer)
    <3>. DEFINE e == Arrived(path, <<code>>, TRUE)
    <3>1. e \in Known /\ e.cors /\ Len(e.replies) = 1 /\ ~e.ran /\ e.check = "none"
      BY <1>4, <2>3
    <3>. HIDE DEF e
    <3>a. Replied("done", e, config)
      BY <3>1 DEF Replied
    <3>b. Judged("done", e, {enforcer}, config, enforcer)
      BY <3>1 DEF Judged
    <3>c. "done" \in Place /\ {enforcer} \subseteq Policies \cup {NoPolicy}
      BY <1>1 DEF Place
    <3>d. RequestOK("done", e, {enforcer}, config, enforcer)
      BY <3>1, <3>a, <3>b, <3>c DEF RequestOK
    <3>. QED BY <3>d DEF e
  <2>. QED BY <1>2, <2>1, <2>2, <2>4
<1>9. CASE TooLong(r, path)
  <2>. DEFINE code == CodeOf.request_entity_too_large
  <2>1. q' = [q EXCEPT ![r] = Arrived(path, <<code>>, FALSE)] /\ pc' = [pc EXCEPT ![r] = "back"]
    BY <1>9, ArrivedForms DEF TooLong, GoTo
  <2>2. RequestOK("back", Arrived(path, <<code>>, FALSE), {enforcer}, config, enforcer)
    BY <1>1, <1>4, <1>6, Codes DEF RequestOK, Place, Replied, Judged
  <2>. QED BY <1>2, <2>1, <2>2
<1>10. CASE Enter(r, path)
  <2>. DEFINE p == IF InApi(path) THEN "auth" ELSE "endpoint"
  <2>1. q' = [q EXCEPT ![r] = Arrived(path, <<>>, FALSE)] /\ pc' = [pc EXCEPT ![r] = p]
    BY <1>10, ArrivedForms DEF Enter, GoTo
  <2>2. <<>> \in Seq(Nat)
    OBVIOUS
  <2>3. RequestOK(p, Arrived(path, <<>>, FALSE), {enforcer}, config, enforcer)
    BY <1>1, <1>4, <2>2 DEF RequestOK, Place, Replied, Judged
  <2>. QED BY <1>2, <2>1, <2>3
<1>. QED BY <1>3, <1>7, <1>8, <1>9, <1>10

\* What is in force for a request only grows.
LEMMA ReloadStep == ASSUME ChainInv, Reload PROVE ChainInv'
<1>1. /\ UNCHANGED <<config, limits, pc, q, faults>> /\ enforcer' \in Policies
      /\ reloads' \in 0..MaxReloads
  BY PipelineAssumption DEF Reload, ChainInv
<1>2. inForce' = [r \in Req |->
          IF pc[r] \in {"new", "done"} THEN inForce[r] ELSE inForce[r] \cup {enforcer'}]
  BY DEF Reload
<1>3. inForce' \in [Req -> SUBSET (Policies \cup {NoPolicy})]
  BY <1>1, <1>2 DEF ChainInv
<1>4. ASSUME NEW r \in Req PROVE RequestOK(pc[r], q[r], inForce'[r], config, enforcer')
  <2>1. /\ inForce[r] \subseteq inForce'[r] /\ inForce'[r] \subseteq Policies \cup {NoPolicy}
        /\ pc[r] \notin {"new", "done"} => enforcer' \in inForce'[r]
    BY <1>2, <1>3
  <2>2. /\ Admitted(q[r], inForce[r], config) => Admitted(q[r], inForce'[r], config)
        /\ Refused(q[r], inForce[r]) => Refused(q[r], inForce'[r])
        /\ Asked(q[r], inForce[r]) => Asked(q[r], inForce'[r])
    BY <2>1 DEF Admitted, Refused, Asked
  <2>3. Judged(pc[r], q[r], inForce'[r], config, enforcer')
    BY OnTheWay, <2>1, <2>2 DEF Judged
  <2>. QED BY OnTheWay, <2>1, <2>3 DEF RequestOK
<1>. QED BY <1>1, <1>3, <1>4 DEF ChainInv

\* The chain calls Allow while it is limited, and else leaves the limiter alone.
LEMMA LimiterFrame ==
    ASSUME ChainInv, [Next]_vars
    PROVE  /\ limits' = limits
           /\ \/ UNCHANGED <<limiterVars, ticks>>
              \/ LimiterTick
              \/ ~Unlimited /\ ticks' = ticks /\ \E r \in Req, i \in Ident : Allow(r, i)
<1>1. CASE UNCHANGED vars
  BY <1>1 DEF vars
<1>2. CASE Reload
  BY <1>2 DEF Reload
<1>3. CASE TimePasses
  BY <1>3 DEF TimePasses
<1>4. ASSUME NEW r \in Req, Arrive(r) \/ Step(r)
      PROVE  /\ limits' = limits /\ ticks' = ticks
             /\ UNCHANGED limiterVars \/ (~Unlimited /\ \E i \in Ident : Allow(r, i))
  <2>1. CASE Limit(r)
    <3>1. q[r].user \in Who
      BY OnTheWay DEF Known
    <3>2. IdentOf(r) \in Ident
      BY <3>1, PipelineAssumption DEF IdentOf, Who
    <3>. QED BY <2>1, <3>2 DEF Limit, Elsewhere
  <2>2. CASE ~Limit(r)
    <3>1. ASSUME Auth(r) \/ LimitSkipped(r) \/ Limited(r) \/ Casbin(r)
          PROVE  limits' = limits /\ ticks' = ticks /\ UNCHANGED limiterVars
      BY <3>1 DEF Auth, LimitSkipped, Limited, Casbin, Elsewhere
    <3>2. ASSUME Enforce(r) \/ Handle(r) \/ NoHandler(r) \/ Back(r)
          PROVE  limits' = limits /\ ticks' = ticks /\ UNCHANGED limiterVars
      BY <3>2 DEF Enforce, Handle, NoHandler, Back, Elsewhere
    <3>3. ASSUME Arrive(r) PROVE limits' = limits /\ ticks' = ticks /\ UNCHANGED limiterVars
      BY <3>3 DEF Arrive
    <3>. QED BY <1>4, <2>2, <3>1, <3>2, <3>3, Zenon DEF Step
  <2>. QED BY <2>1, <2>2
<1>. QED BY <1>1, <1>2, <1>3, <1>4 DEF Next

LEMMA ChainStep == ASSUME ChainInv, [Next]_vars PROVE ChainInv'
<1>1. CASE UNCHANGED vars
  BY <1>1 DEF vars, requestVars, ChainInv
<1>2. CASE TimePasses
  BY <1>2 DEF TimePasses, requestVars, ChainInv
<1>3. ASSUME NEW r \in Req, Step(r) PROVE ChainInv'
  BY <1>3, AuthStep, LimitSteps, CasbinStep, EnforceStep, EndpointStep, BackStep DEF Step
<1>. QED BY <1>1, <1>2, <1>3, ArriveStep, ReloadStep DEF Next

LEMMA Start == Init => IInv
<1>. SUFFICES ASSUME Init PROVE IInv
  OBVIOUS
<1>1. config \in Configs /\ limits = config.limits /\ limits \in Limits
  BY PipelineAssumption DEF Init, Limits
<1>2. LimiterInv
  BY <1>1, LimiterStart DEF Init
<1>3. <<>> \in Seq(UNION {Elems(l) : l \in RoleLists}) /\ <<>> \in Seq(Nat)
  OBVIOUS
<1>4. /\ Fresh \in Known /\ Fresh.replies = <<>> /\ ~Fresh.ran /\ ~Fresh.panicked
      /\ ~Fresh.cors /\ Fresh.check = "none"
  BY <1>3 DEF Fresh, Known, Who
<1>5. ASSUME NEW e PROVE RequestOK("new", Fresh, {}, config, e)
  BY <1>4 DEF RequestOK, Place, Replied, Judged
<1>6. ChainInv
  BY <1>1, <1>4, <1>5, PipelineAssumption DEF Init, ChainInv, Place
<1>. QED BY <1>2, <1>6 DEF IInv

LEMMA Preserved == IInv /\ [Next]_vars => IInv'
BY ChainStep, LimiterFrame, LimiterStep DEF IInv

LEMMA Invariant == Spec => []IInv
BY Start, Preserved, PTL DEF Spec

-----------------------------------------------------------------------------
(* Theorems.                                                               *)

\* Requests, limits, buckets and policies are what they are said to be, however
\* many requests, reloads and seconds there are.
THEOREM PipelineTypeCorrect == Spec => []TypeOK
<1>1. IInv => TypeOK
  <2>. SUFFICES ASSUME IInv PROVE TypeOK
    OBVIOUS
  <2>1. ASSUME NEW r \in Req
        PROVE  /\ q[r].path \in Path \cup {"health"} /\ q[r].user \in User \cup {Root, NoUser}
               /\ q[r].policy \in Policies \cup {NoPolicy}
               /\ q[r].check \in {"none", "skipped", "granted", "denied"}
               /\ q[r].ran \in BOOLEAN /\ q[r].counted \in BOOLEAN /\ q[r].panicked \in BOOLEAN
               /\ inForce[r] \subseteq Policies \cup {NoPolicy}
    BY OnTheWay DEF IInv, Known, Who
  <2>2. ASSUME NEW r \in Req PROVE Len(q[r].replies) <= 2
    <3>1. Len(<<>>) = 0 /\ ChainInv
      BY DEF IInv
    <3>2. Len(q[r].replies) = 0 \/ Len(q[r].replies) = 1 \/ Len(q[r].replies) = 2
      BY <3>1, OnTheWay DEF Replied, Place
    <3>3. \A n : n = 0 \/ n = 1 \/ n = 2 => n <= 2
      OBVIOUS
    <3>. QED BY <3>2, <3>3, Zenon
  <2>. QED BY <2>1, <2>2 DEF IInv, ChainInv, LimiterInv, LimiterTypeInv, TypeOK, Place
<1>. QED BY <1>1, Invariant, PTL

\* Nobody is served more than the bucket held and has gained, in either store.
THEOREM BurstsHold == Spec => []BurstHolds
<1>1. IInv => BurstHolds
  BY BurstFollows DEF IInv
<1>. QED BY <1>1, Invariant, PTL

\* No operation runs for someone whom neither the configuration nor one policy
\* in force admits, whatever reloads come between the questions of Casbin.
THEOREM AdmissionIsJustified == Spec => []AdmissionJustified
<1>1. IInv => AdmissionJustified
  BY OnTheWay DEF IInv, AdmissionJustified, Judged, Admitted, Elems
<1>. QED BY <1>1, Invariant, PTL

\* Nobody is refused by parts of two policies.
THEOREM RefusalIsJustified == Spec => []RefusalJustified
<1>1. IInv => RefusalJustified
  BY OnTheWay DEF IInv, RefusalJustified, Judged, Refused
<1>. QED BY <1>1, Invariant, PTL

\* Whichever middleware or handler answers, or panics, one reply is written.
THEOREM OneReplyEach == Spec => []OneReply
<1>1. IInv => OneReply
  BY OnTheWay DEF IInv, OneReply, Replied
<1>. QED BY <1>1, Invariant, PTL

\* Every request that neither CORS nor a panic took off the way is logged, if Logger
\* does not skip it, with its user and code; and what it ran is counted.
THEOREM AllAccounted == Spec => []Accounted
<1>1. IInv => Accounted
  BY OnTheWay DEF IInv, Accounted, Replied
<1>. QED BY <1>1, Invariant, PTL
==============================================================================
