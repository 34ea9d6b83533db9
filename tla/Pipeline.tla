------------------------------ MODULE Pipeline ------------------------------
(***************************************************************************)
(* The way of a request through the middlewares to a handler and back      *)
(* (internal/bootstrap/http.go, pkg/middleware, pkg/util/gin.go).          *)
(*                                                                         *)
(* All requests pass Recovery, CORS, Trace, Logger, CopyBody, Auth, the    *)
(* rate limiter, Casbin and Prometheus in this order, each of which calls  *)
(* the rest of the chain, or answers and thereby ends it.  On the way back *)
(* Prometheus counts and Logger logs; a panic skips what is left of the    *)
(* way and ends in Recovery.  Requests share the limiter's buckets and the *)
(* enforcer, which the loader replaces at any moment (PolicySync).  What   *)
(* ParseUserID finds is a choice here (UserSession).                       *)
(***************************************************************************)
EXTENDS RateLimiter, Routes, Sequences

CONSTANTS Root,         \* General.Root.ID
          User,         \* the other users
          Address,      \* the address of all requests, which limits those without a user
          NoUser, NoPolicy,
          RoleLists,    \* the lists of roles a user may have
          Policies,     \* policies: sets of pairs of a role and a path it may use
          Path,         \* the paths that are asked for
          LoggerSkips, AuthSkips, LimiterSkips, CasbinSkips, \* paths under the SkippedPathPrefixes of each
          Configs,      \* configurations
          MaxReloads,   \* bound: policies loaded
          MaxFaults     \* bound: panics, and errors of Casbin

VARIABLES
    config,    \* [cors, casbin, static, prom : BOOLEAN, limits]
    enforcer,  \* the stored enforcer's policy, or NoPolicy
    pc,        \* where each request is
    q,         \* what is known of it
    inForce,   \* history: policies in force since it began
    reloads, faults

requestVars == <<pc, q, inForce>>
vars == <<config, limits, limiterVars, ticks, enforcer, requestVars, reloads, faults>>

Fresh == [path |-> "health", user |-> NoUser, roles |-> <<>>, left |-> <<>>, policy |-> NoPolicy,
          check |-> "none", replies |-> <<>>, ran |-> FALSE, counted |-> FALSE,
          log |-> <<>>, panicked |-> FALSE, cors |-> FALSE]

ASSUME PipelineAssumption ==
    /\ Ident = User \cup {Root, Address} /\ None \notin Ident
    /\ Root \notin User /\ NoUser \notin User \cup {Root}
    /\ NoPolicy \notin Policies
    /\ Path \subseteq DOMAIN ApiRoutes \cup OtherPaths
    /\ \A l \in RoleLists : l \in Seq({l[n] : n \in DOMAIN l})
    /\ \A c \in Configs :
         /\ c.cors \in BOOLEAN /\ c.casbin \in BOOLEAN
         /\ c.static \in BOOLEAN /\ c.prom \in BOOLEAN
         /\ c.limits \in [store : {"off", "memory", "redis"}, max : Nat, period : Nat]
    /\ MaxReloads \in Nat /\ MaxFaults \in Nat

Init ==
    /\ config \in Configs /\ limits = config.limits
    /\ LimiterInit
    /\ enforcer \in IF config.casbin THEN Policies \cup {NoPolicy} ELSE {NoPolicy}
    /\ pc = [r \in Req |-> "new"]
    /\ q = [r \in Req |-> Fresh]
    /\ inForce = [r \in Req |-> {}]
    /\ reloads = 0 /\ faults = 0

\* ResError and its like: the reply is written and the chain is at its end.
Reply(r, code) ==
    /\ q' = [q EXCEPT ![r].replies = Append(@, code)]
    /\ pc' = [pc EXCEPT ![r] = "back"]

GoTo(r, place) == pc' = [pc EXCEPT ![r] = place]

Elsewhere == UNCHANGED <<config, limits, ticks, enforcer, inForce, reloads>>

-----------------------------------------------------------------------------
(* Middlewares.                                                            *)

\* Of several middlewares each may be the one that answers; the health route was
\* registered before any of them.
Health(r, path) ==
    /\ path = "health"
    /\ q' = [q EXCEPT ![r] = [Fresh EXCEPT !.path = path, !.replies = <<200>>]]
    /\ GoTo(r, "done")

\* CORS answers a preflight request by itself, and refuses a foreign origin, before
\* either is logged.
CORS(r, path) ==
    /\ path # "health" /\ config.cors
    /\ \E code \in {204, CodeOf.forbidden} :
          q' = [q EXCEPT ![r] = [Fresh EXCEPT !.path = path, !.replies = <<code>>, !.cors = TRUE]]
    /\ GoTo(r, "done")

\* CopyBody refuses a body that is too long or cannot be read.
TooLong(r, path) ==
    /\ InApi(path)
    /\ q' = [q EXCEPT ![r] = [Fresh EXCEPT !.path = path,
                 !.replies = <<CodeOf.request_entity_too_large>>]]
    /\ GoTo(r, "back")

\* Trace, Logger and CopyBody let the request pass.
Enter(r, path) ==
    /\ path # "health"
    /\ q' = [q EXCEPT ![r] = [Fresh EXCEPT !.path = path]]
    /\ GoTo(r, IF InApi(path) THEN "auth" ELSE "endpoint")

Arrive(r) ==
    /\ pc[r] = "new"
    /\ inForce' = [inForce EXCEPT ![r] = {enforcer}]
    /\ \E path \in Path :
          Health(r, path) \/ CORS(r, path) \/ TooLong(r, path) \/ Enter(r, path)
    /\ UNCHANGED <<config, limits, limiterVars, ticks, enforcer, reloads, faults>>

\* Auth: the token is refused, ParseUserID fails, or there is a user.
Auth(r) ==
    /\ pc[r] = "auth"
    /\ \/ /\ q[r].path \in AuthSkips
          /\ GoTo(r, "limit") /\ UNCHANGED q
       \/ /\ q[r].path \notin AuthSkips
          /\ \/ Reply(r, CodeOf.unauthorized)
             \/ Reply(r, CodeOf.plain)
             \/ /\ \/ q' = [q EXCEPT ![r].user = Root]
                   \/ \E u \in User, roles \in RoleLists :
                         q' = [q EXCEPT ![r].user = u, ![r].roles = roles]
                /\ GoTo(r, "limit")
    /\ Elsewhere /\ UNCHANGED <<limiterVars, faults>>

IdentOf(r) == IF q[r].user = NoUser THEN Address ELSE q[r].user

\* The limiter is off for this path or in all.
LimitSkipped(r) ==
    /\ pc[r] = "limit"
    /\ q[r].path \in LimiterSkips \/ Unlimited
    /\ GoTo(r, "casbin") /\ UNCHANGED q
    /\ Elsewhere /\ UNCHANGED <<limiterVars, faults>>

\* The steps of Allow.
Limit(r) ==
    /\ pc[r] = "limit"
    /\ q[r].path \notin LimiterSkips /\ ~Unlimited
    /\ Allow(r, IdentOf(r))
    /\ UNCHANGED <<pc, q>>
    /\ Elsewhere /\ UNCHANGED faults

\* What RateLimiterWithConfig makes of the result; an error of redis is a 500.
Limited(r) ==
    /\ pc[r] = "limit"
    /\ \/ /\ rstep[r] = "out"
          /\ IF ok[r] THEN GoTo(r, "casbin") /\ UNCHANGED q
             ELSE Reply(r, CodeOf.too_many_requests)
          /\ UNCHANGED faults
       \/ /\ rstep[r] = "look" /\ limits.store = "redis" /\ ~Unlimited
          /\ q[r].path \notin LimiterSkips
          /\ faults < MaxFaults /\ faults' = faults + 1
          /\ Reply(r, CodeOf.internal_server_error)
    /\ Elsewhere /\ UNCHANGED limiterVars

CasbinSkipped(r) == q[r].path \in CasbinSkips \/ ~config.casbin \/ q[r].user = Root

\* Mutant: Casbin lets pass whoever Auth has found.
CasbinUnlessUser(r) ==
    /\ pc[r] = "casbin"
    /\ IF CasbinSkipped(r) \/ q[r].user # NoUser
       THEN q' = [q EXCEPT ![r].check = "skipped"] /\ GoTo(r, "endpoint")
       ELSE Reply(r, CodeOf.forbidden)
    /\ Elsewhere /\ UNCHANGED <<limiterVars, faults>>

\* Casbin takes the enforcer of this moment for all roles of the request.
Casbin(r) ==
    /\ pc[r] = "casbin"
    /\ \/ /\ CasbinSkipped(r)
          /\ q' = [q EXCEPT ![r].check = "skipped"] /\ GoTo(r, "endpoint")
       \/ /\ ~CasbinSkipped(r) /\ enforcer = NoPolicy
          /\ q' = [q EXCEPT ![r].check = "denied", ![r].replies = Append(@, CodeOf.forbidden)]
          /\ GoTo(r, "back")
       \/ /\ ~CasbinSkipped(r) /\ enforcer # NoPolicy
          /\ q' = [q EXCEPT ![r].policy = enforcer, ![r].left = q[r].roles] /\ GoTo(r, "enforce")
    /\ Elsewhere /\ UNCHANGED <<limiterVars, faults>>

\* Mutant: the enforcer is asked for again for each role.
EnforceNow(r) ==
    /\ pc[r] = "enforce"
    /\ LET left == q[r].left IN
       IF left = <<>>
       THEN /\ q' = [q EXCEPT ![r].check = "denied", ![r].replies = Append(@, CodeOf.forbidden)]
            /\ GoTo(r, "back")
       ELSE IF enforcer # NoPolicy /\ <<Head(left), q[r].path>> \in enforcer
       THEN q' = [q EXCEPT ![r].check = "granted"] /\ GoTo(r, "endpoint")
       ELSE q' = [q EXCEPT ![r].left = Tail(@)] /\ UNCHANGED pc
    /\ Elsewhere /\ UNCHANGED <<limiterVars, faults>>

\* Mutant: a role that is refused is asked again.
EnforceAgain(r) ==
    /\ pc[r] = "enforce"
    /\ LET left == q[r].left IN
       IF left = <<>>
       THEN /\ q' = [q EXCEPT ![r].check = "denied", ![r].replies = Append(@, CodeOf.forbidden)]
            /\ GoTo(r, "back")
       ELSE /\ <<Head(left), q[r].path>> \in q[r].policy
            /\ q' = [q EXCEPT ![r].check = "granted"] /\ GoTo(r, "endpoint")
    /\ Elsewhere /\ UNCHANGED <<limiterVars, faults>>

\* One call of Enforce: the next role is granted the path or not; or all are
\* asked; or Casbin fails.
Enforce(r) ==
    /\ pc[r] = "enforce"
    /\ LET left == q[r].left IN
       \/ /\ left = <<>>
          /\ q' = [q EXCEPT ![r].check = "denied", ![r].replies = Append(@, CodeOf.forbidden)]
          /\ GoTo(r, "back")
          /\ UNCHANGED faults
       \/ /\ left # <<>> /\ <<Head(left), q[r].path>> \in q[r].policy
          /\ q' = [q EXCEPT ![r].check = "granted"] /\ GoTo(r, "endpoint")
          /\ UNCHANGED faults
       \/ /\ left # <<>> /\ <<Head(left), q[r].path>> \notin q[r].policy
          /\ q' = [q EXCEPT ![r].left = Tail(@)] /\ UNCHANGED <<pc, faults>>
       \/ /\ left # <<>>
          /\ faults < MaxFaults /\ faults' = faults + 1
          /\ Reply(r, CodeOf.plain)
    /\ Elsewhere /\ UNCHANGED limiterVars

-----------------------------------------------------------------------------
(* The end of the chain.                                                   *)

\* Prometheus counts every request, as long as no filter is configured.
Counts == config.prom

\* Recovery turns a panic into a reply, after what was written before it; the way
\* back is skipped.
Recover(r, written, ran) ==
    /\ faults < MaxFaults /\ faults' = faults + 1
    /\ q' = [q EXCEPT ![r].replies = @ \o Append(written, CodeOf.internal_server_error),
                      ![r].ran = ran, ![r].panicked = TRUE]
    /\ GoTo(r, "done")

\* The handler has replied; it may panic yet, and so may Prometheus (for a path
\* that is no text).
Answered(r, code, ran) ==
    \/ /\ q' = [q EXCEPT ![r].replies = Append(@, code), ![r].ran = ran, ![r].counted = Counts]
       /\ GoTo(r, "back")
       /\ UNCHANGED faults
    \/ Recover(r, <<code>>, ran)

\* Mutant: a handler goes on after it answered that the form is bad.
HandleBoth(r) ==
    /\ pc[r] = "endpoint"
    /\ q[r].path \in DOMAIN ApiRoutes
    /\ \/ ApiRoutes[q[r].path].form # "none"
          /\ q' = [q EXCEPT ![r].replies = @ \o <<CodeOf.bad_request, 200>>, ![r].ran = TRUE]
          /\ GoTo(r, "back")
          /\ UNCHANGED faults
       \/ Answered(r, 200, TRUE)
    /\ Elsewhere /\ UNCHANGED limiterVars

\* The handlers of package api: a form that does not parse or is not valid, an
\* operation that fails, one that succeeds, a panic.
Handle(r) ==
    /\ pc[r] = "endpoint"
    /\ q[r].path \in DOMAIN ApiRoutes
    /\ LET h == ApiRoutes[q[r].path] IN
       \/ /\ h.form # "none" \/ h.validates
          /\ Answered(r, CodeOf.bad_request, FALSE)
       \/ \E e \in {"not_found", "plain"} : Answered(r, CodeOf[e], TRUE)
       \/ Answered(r, 200, TRUE)
       \/ Recover(r, <<>>, TRUE)
    /\ Elsewhere /\ UNCHANGED limiterVars

\* Other routes, files, and what no route has.  The middleware for files was
\* registered after the routes, so that only requests without one reach it.
NoHandler(r) ==
    /\ pc[r] = "endpoint"
    /\ \/ /\ q[r].path = "swagger" \/ (q[r].path = "file" /\ config.static)
          /\ \E code \in {200, 404} : Answered(r, code, FALSE)
       \/ /\ q[r].path = "unknownApi" \/ (q[r].path = "file" /\ ~config.static)
          /\ Answered(r, CodeOf.not_found, FALSE)
    /\ Elsewhere /\ UNCHANGED limiterVars

\* Logger passes over what is not of the API or is to be skipped.
Logged(path) == InApi(path) /\ path \notin LoggerSkips

\* Mutant: the entry is made with the context of the way there.
BackOldContext(r) ==
    /\ pc[r] = "back"
    /\ q' = [q EXCEPT ![r].log = IF Logged(q[r].path) THEN <<NoUser, q[r].replies[1]>> ELSE <<>>]
    /\ GoTo(r, "done")
    /\ Elsewhere /\ UNCHANGED <<limiterVars, faults>>

\* The way back through Logger, which logs with the context that Auth has made;
\* the log may panic while the process ends (LogHook).
Back(r) ==
    /\ pc[r] = "back"
    /\ \/ /\ q' = [q EXCEPT ![r].log =
                      IF Logged(q[r].path) THEN <<q[r].user, q[r].replies[1]>> ELSE <<>>]
          /\ GoTo(r, "done")
          /\ UNCHANGED faults
       \/ Logged(q[r].path) /\ Recover(r, <<>>, q[r].ran)
    /\ Elsewhere /\ UNCHANGED limiterVars

\* The loader stores an enforcer.
Reload ==
    /\ reloads < MaxReloads /\ config.casbin
    /\ reloads' = reloads + 1
    /\ enforcer' \in Policies
    /\ inForce' = [r \in Req |->
          IF pc[r] \in {"new", "done"} THEN inForce[r] ELSE inForce[r] \cup {enforcer'}]
    /\ UNCHANGED <<config, limits, limiterVars, ticks, pc, q, faults>>

TimePasses ==
    /\ LimiterTick
    /\ UNCHANGED <<config, limits, enforcer, requestVars, reloads, faults>>

-----------------------------------------------------------------------------

Step(r) ==
    \/ Auth(r) \/ LimitSkipped(r) \/ Limit(r) \/ Limited(r) \/ Casbin(r) \/ Enforce(r)
    \/ Handle(r) \/ NoHandler(r) \/ Back(r)

Next == \/ \E r \in Req : Arrive(r) \/ Step(r)
        \/ Reload \/ TimePasses

\* A request that has arrived goes on.
Spec == Init /\ [][Next]_vars /\ \A r \in Req : WF_vars(Step(r))

-----------------------------------------------------------------------------
(* Properties.                                                             *)

TypeOK ==
    /\ config \in Configs /\ limits = config.limits
    /\ LimiterTypeOK
    /\ enforcer \in Policies \cup {NoPolicy}
    /\ pc \in [Req -> {"new", "auth", "limit", "casbin", "enforce", "endpoint", "back", "done"}]
    /\ \A r \in Req :
          /\ q[r].path \in Path \cup {"health"}
          /\ q[r].user \in User \cup {Root, NoUser}
          /\ q[r].policy \in Policies \cup {NoPolicy}
          /\ q[r].check \in {"none", "skipped", "granted", "denied"}
          /\ q[r].ran \in BOOLEAN /\ q[r].counted \in BOOLEAN /\ q[r].panicked \in BOOLEAN
          /\ Len(q[r].replies) <= 2
          /\ inForce[r] \subseteq Policies \cup {NoPolicy}
    /\ reloads \in 0..MaxReloads /\ faults \in 0..MaxFaults

\* No business operation runs unless Auth skips the path or finds a user, and
\* Casbin is off or skips the path too, or the root user asks, or one policy that
\* was in force while the request ran grants the path to a role of the user.
AdmissionJustified ==
    \A r \in Req : q[r].ran =>
       \/ q[r].user = Root
       \/ /\ q[r].path \in AuthSkips \/ q[r].user # NoUser
          /\ q[r].path \in CasbinSkips \/ ~config.casbin
       \/ \E p \in inForce[r] \ {NoPolicy}, role \in {q[r].roles[n] : n \in DOMAIN q[r].roles} :
             <<role, q[r].path>> \in p

\* A request is refused by Casbin only if one policy that was in force while it
\* ran grants the path to none of its roles, or there was none; never because it
\* was judged by parts of two policies.
RefusalJustified ==
    \A r \in Req : q[r].check = "denied" =>
       \E p \in inForce[r] :
          p = NoPolicy \/ \A n \in DOMAIN q[r].roles : <<q[r].roles[n], q[r].path>> \notin p

\* A request that is done has been answered once, however it went: refused by a
\* middleware, answered by its handler, or broken off by a panic.  Only a panic
\* after the reply (of the handler, of Prometheus, of the log) adds that of Recovery.
OneReply ==
    \A r \in Req : pc[r] = "done" =>
       \/ Len(q[r].replies) = 1
       \/ Len(q[r].replies) = 2 /\ q[r].panicked /\ q[r].replies[2] = CodeOf.internal_server_error

\* Every request that Logger does not skip is logged with the user that Auth found
\* and the code of the one reply, refused ones too, and every operation that ran
\* is counted; but for requests that a panic took off the way back, and those that
\* CORS answered or refused before Logger.
Accounted ==
    \A r \in Req : pc[r] = "done" /\ ~q[r].panicked /\ ~q[r].cors =>
       /\ Logged(q[r].path) => q[r].log = <<q[r].user, q[r].replies[1]>>
       /\ q[r].ran /\ config.prom => q[r].counted

\* A request that arrived is answered and ends.
RequestsEnd == \A r \in Req : (pc[r] # "new") ~> (pc[r] = "done")

==============================================================================
