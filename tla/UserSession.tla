----------------------------- MODULE UserSession -----------------------------
(***************************************************************************)
(* Tokens and the user cache: who is let in, with which roles.             *)
(*                                                                         *)
(* A token is a signed string of the subject and the second it was issued  *)
(* in (pkg/jwtx/jwt.go); logging out stores the string, for as long as it  *)
(* is valid, among the destroyed ones.  A request with a token that is     *)
(* neither expired nor destroyed takes the user's roles from the cache, or *)
(* else reads status and roles and fills the cache (ParseUserID of         *)
(* biz/login.biz.go).  Changes of a user delete the cache entry inside     *)
(* their transaction (biz/user.biz.go); removing a role does not.          *)
(*                                                                         *)
(* A cache entry is kept with the time it has left, a token with the       *)
(* number of seconds, this one included, in which it is still accepted, so *)
(* time needs no clock: two tokens of one subject issued between two ticks *)
(* are the same string.  A tick is the begin of a second.  Whole seconds   *)
(* are compared, so a token is accepted through the second it expires in;  *)
(* the record of its logout ends as that second begins.                    *)
(***************************************************************************)
EXTENDS Naturals, FiniteSets

CONSTANTS Request,    \* goroutines that serve requests
          Admin,      \* goroutines that change users and roles
          User, Role,
          Root,       \* General.Root.ID
          Nil,        \* no entry, no operation
          InitUsers,  \* the users at start, one way or another
          InitRoles,  \* their roles at start
          RoleSets,   \* the sets of roles a user form may carry
          Lifetime,   \* ticks from the issue of a token to its expiry, Auth.Expired
          CacheLife,  \* ticks of Dictionary.UserCacheExp
          MaxOps,     \* bound: changes begun and tokens asked for
          MaxFaults   \* bound: failed calls and crashes

VARIABLES
    user,       \* committed status of each user
    userRole,   \* committed roles of each user
    gone,       \* removed roles
    apc, aop,   \* each admin's program counter and operation
    cache,      \* the user cache: roles and time left, 0 when it never ends
    held,       \* issued tokens that are still accepted
    destroyed,  \* the token store
    loggedOut,  \* history: tokens whose logout the store has confirmed
    pc,         \* each request's program counter
    tok,        \* its subject, and the seconds its token has left, 0 without one
    roles,      \* the roles it works with
    obs,        \* history: what was committed of its user since it began
    raced,      \* history: see Overlap
    ops, faults \* counters of the bounds

rowVars == <<user, userRole, gone>>
adminVars == <<apc, aop>>
tokenVars == <<held, destroyed, loggedOut>>
requestVars == <<pc, tok, roles, obs>>
vars == <<rowVars, adminVars, cache, tokenVars, requestVars, raced, ops, faults>>

Subject == User \cup {Root}
Token == Subject \X (1..Lifetime + 1)
Entry == [roles : SUBSET Role, left : 0..CacheLife]
Fact == [status : {"unborn", "activated", "freezed", "deleted"}, roles : SUBSET Role]
UserOp == [kind : {"user.create", "user.update", "user.delete"}, user : User,
           status : {"activated", "freezed"}, roles : SUBSET Role]
RoleOp == [kind : {"role.delete"}, role : Role]

ASSUME UserSessionAssumption ==
    /\ Root \notin User
    /\ InitUsers \subseteq [User -> {"unborn", "activated", "freezed"}]
    /\ InitRoles \in [User -> SUBSET Role]
    /\ RoleSets \subseteq SUBSET Role
    /\ Nil \notin Entry
    /\ Lifetime \in Nat \ {0} /\ CacheLife \in Nat \ {0}
    /\ MaxOps \in Nat /\ MaxFaults \in Nat

Init ==
    /\ user \in InitUsers /\ gone = {}
    /\ userRole = [u \in User |-> IF user[u] = "unborn" THEN {} ELSE InitRoles[u]]
    /\ apc = [a \in Admin |-> "idle"] /\ aop = [a \in Admin |-> Nil]
    /\ cache = [u \in User |-> Nil]
    /\ held = {} /\ destroyed = {} /\ loggedOut = {}
    /\ pc = [c \in Request |-> "idle"]
    /\ tok = [c \in Request |-> <<Root, 0>>]
    /\ roles = [c \in Request |-> {}]
    /\ obs = [c \in Request |-> {}]
    /\ raced = {}
    /\ ops = 0 /\ faults = 0

-----------------------------------------------------------------------------
(* The cache of users, and the races its readers may have with a change.   *)

Sub(c) == tok[c][1]

\* c has read rows of u that it is about to put into the cache.
Reading(c, u) == /\ pc[c] \in {"roles", "fill", "login roles", "login fill"}
                 /\ Sub(c) = u

\* a has deleted the entry of u and has yet to commit the change.
Pending(a, u) == apc[a] = "cleared" /\ aop[a].user = u

\* A user is raced from the moment a fill of the cache overlaps a change
\* between its Cache.Delete and its commit, until the entry is gone and
\* nobody is about to put it back.
Overlap == {u \in User : \E c \in Request, a \in Admin : Reading(c, u) /\ Pending(a, u)}
Cleared == {u \in User : /\ cache[u] = Nil
                         /\ \A c \in Request : ~Reading(c, u)
                         /\ \A a \in Admin : ~Pending(a, u)}
Races == raced' = (raced \ Cleared') \cup Overlap'

Count == ops < MaxOps /\ ops' = ops + 1
Fail == faults < MaxFaults /\ faults' = faults + 1

-----------------------------------------------------------------------------
(* Requests.                                                               *)

Goto(c, where) == pc' = [pc EXCEPT ![c] = where]

End(c) ==
    /\ Goto(c, "idle")
    /\ tok' = [tok EXCEPT ![c] = <<Root, 0>>]
    /\ roles' = [roles EXCEPT ![c] = {}]
    /\ obs' = [obs EXCEPT ![c] = {}]

\* The request is about the user s from here on.
Start(c, s, t, where) ==
    /\ pc[c] = "idle"
    /\ Goto(c, where)
    /\ tok' = [tok EXCEPT ![c] = t]
    /\ obs' = [obs EXCEPT ![c] = IF s \in User THEN {[status |-> user[s], roles |-> userRole[s]]}
                                 ELSE {}]
    /\ UNCHANGED roles

\* JWTAuth.ParseSubject: the token must be valid and not destroyed.  The
\* root user needs neither cache nor rows.
ParseSubject(c) ==
    /\ \E t \in held \ destroyed : Start(c, t[1], t, IF t[1] = Root THEN "accepted" ELSE "cache")
    /\ UNCHANGED <<rowVars, adminVars, cache, tokenVars, raced, ops, faults>>

\* An entry is trusted as it is.
CacheHit(c) ==
    /\ pc[c] = "cache"
    /\ cache[Sub(c)] # Nil
    /\ roles' = [roles EXCEPT ![c] = cache[Sub(c)].roles]
    /\ Goto(c, "accepted")
    /\ UNCHANGED <<rowVars, adminVars, cache, tokenVars, tok, obs, raced, ops, faults>>

CacheMiss(c) ==
    /\ pc[c] = "cache"
    /\ cache[Sub(c)] = Nil
    /\ Goto(c, "status")
    /\ UNCHANGED <<rowVars, adminVars, cache, tokenVars, tok, roles, obs, raced, ops, faults>>

\* Mutant: the status is not looked at.
CheckStatusBlindly(c) ==
    /\ pc[c] = "status"
    /\ Goto(c, "roles")
    /\ UNCHANGED <<tok, roles, obs>>
    /\ UNCHANGED <<rowVars, adminVars, cache, tokenVars, ops, faults>>
    /\ Races

\* A user who is not activated is turned away.
CheckStatus(c) ==
    /\ pc[c] = "status"
    /\ IF user[Sub(c)] = "activated"
       THEN Goto(c, "roles") /\ UNCHANGED <<tok, roles, obs>>
       ELSE End(c)
    /\ UNCHANGED <<rowVars, adminVars, cache, tokenVars, ops, faults>>
    /\ Races

\* User.GetRoleIDs, for a request and for a login.
ReadRoles(c) ==
    /\ pc[c] \in {"roles", "login roles"}
    /\ roles' = [roles EXCEPT ![c] = userRole[Sub(c)]]
    /\ Goto(c, IF pc[c] = "roles" THEN "fill" ELSE "login fill")
    /\ UNCHANGED <<rowVars, adminVars, cache, tokenVars, tok, obs, raced, ops, faults>>

\* The request's own fill sets no expiry, that of a login does.
Fill(c) ==
    /\ pc[c] \in {"fill", "login fill"}
    /\ cache' = [cache EXCEPT ![Sub(c)] =
                   [roles |-> roles[c], left |-> IF pc[c] = "fill" THEN 0 ELSE CacheLife]]
    /\ Goto(c, IF pc[c] = "fill" THEN "accepted" ELSE "token")
    /\ UNCHANGED <<rowVars, adminVars, tokenVars, tok, roles, obs, ops, faults>>
    /\ Races

\* The handler does nothing to tokens and users.
Serve(c) ==
    /\ pc[c] = "accepted"
    /\ End(c)
    /\ UNCHANGED <<rowVars, adminVars, cache, tokenVars, raced, ops, faults>>

\* The rest of the request works with the subject alone.
Drop(c) ==
    /\ tok' = [tok EXCEPT ![c] = <<Sub(c), 0>>]
    /\ roles' = [roles EXCEPT ![c] = {}]

\* Logout: the token is parsed again and stored until the second of its expiry
\* begins.  In that second nothing is left of the time: memory and redis take a
\* record without an end for one that never ends, badger for one that is over.
DestroyToken(c) ==
    /\ pc[c] = "accepted"
    /\ tok[c] \in held
    /\ \/ destroyed' = destroyed \cup {tok[c]}
       \/ tok[c][2] = 1 /\ UNCHANGED destroyed
    /\ loggedOut' = loggedOut \cup {tok[c]}
    /\ Goto(c, "forget") /\ Drop(c)
    /\ UNCHANGED <<rowVars, adminVars, cache, held, obs, raced, ops, faults>>

\* Logout goes on with the cache; an error of that is only logged.
ForgetUser(c) ==
    /\ pc[c] = "forget"
    /\ \/ cache' = [u \in User |-> IF u = Sub(c) THEN Nil ELSE cache[u]] /\ UNCHANGED faults
       \/ Fail /\ UNCHANGED cache
    /\ End(c)
    /\ UNCHANGED <<rowVars, adminVars, tokenVars, ops>>
    /\ Races

\* RefreshToken reads the status again; the root user has no row.
RefreshToken(c) ==
    /\ pc[c] = "accepted"
    /\ Sub(c) \in User
    /\ user[Sub(c)] = "activated"
    /\ Count
    /\ Goto(c, "token") /\ Drop(c)
    /\ UNCHANGED <<rowVars, adminVars, cache, tokenVars, obs, raced, faults>>

\* Mutant: the status is not looked at.
LoginFrozen(c) ==
    /\ \E u \in User : user[u] # "unborn" /\ Start(c, u, <<u, 0>>, "login roles")
    /\ Count
    /\ UNCHANGED <<rowVars, adminVars, cache, tokenVars, faults>>
    /\ Races

\* Login with the right password.
Login(c) ==
    /\ \E u \in User : user[u] = "activated" /\ Start(c, u, <<u, 0>>, "login roles")
    /\ Count
    /\ UNCHANGED <<rowVars, adminVars, cache, tokenVars, faults>>
    /\ Races

LoginByRoot(c) ==
    /\ Start(c, Root, <<Root, 0>>, "token")
    /\ Count
    /\ UNCHANGED <<rowVars, adminVars, cache, tokenVars, raced, faults>>

\* A login goes on when the cache fails.
FillFails(c) ==
    /\ pc[c] = "login fill"
    /\ Fail
    /\ Goto(c, "token")
    /\ UNCHANGED <<rowVars, adminVars, cache, tokenVars, tok, roles, obs, ops>>
    /\ Races

\* genUserToken.
GenerateToken(c) ==
    /\ pc[c] = "token"
    /\ held' = held \cup {<<Sub(c), Lifetime + 1>>}
    /\ End(c)
    /\ UNCHANGED <<rowVars, adminVars, cache, destroyed, loggedOut, raced, ops, faults>>

\* Any other error ends the request.
RequestFails(c) ==
    /\ pc[c] # "idle"
    /\ Fail
    /\ End(c)
    /\ UNCHANGED <<rowVars, adminVars, cache, tokenVars, ops>>
    /\ Races

-----------------------------------------------------------------------------
(* Changes of users and roles.                                             *)

Begin(a, o) ==
    /\ apc[a] = "idle"
    /\ Count
    /\ apc' = [apc EXCEPT ![a] = "ready"]
    /\ aop' = [aop EXCEPT ![a] = o]
    /\ UNCHANGED <<rowVars, cache, tokenVars, requestVars, raced, faults>>

\* Identifiers are fresh, so nobody else creates the same user.
UserCreate(a) ==
    \E u \in User, s \in {"activated", "freezed"}, rs \in RoleSets :
        /\ user[u] = "unborn"
        /\ \A b \in Admin : aop[b] \in UserOp => aop[b].user # u
        /\ Begin(a, [kind |-> "user.create", user |-> u, status |-> s, roles |-> rs])

UserUpdate(a) ==
    \E u \in User, s \in {"activated", "freezed"}, rs \in RoleSets :
        /\ user[u] \in {"activated", "freezed"}
        /\ Begin(a, [kind |-> "user.update", user |-> u, status |-> s, roles |-> rs])

UserDelete(a) ==
    \E u \in User :
        /\ user[u] \in {"activated", "freezed"}
        /\ Begin(a, [kind |-> "user.delete", user |-> u, status |-> "freezed", roles |-> {}])

RoleDelete(a) ==
    \E r \in Role \ gone : Begin(a, [kind |-> "role.delete", role |-> r])

\* The rows of a change, and whether it deletes a cache entry.
Rows(o) == IF o.kind = "role.delete" THEN User ELSE {o.user}

\* Mutant: User.Update leaves the entry where it is.
ClearsOnlyOnDelete(o) == o.kind = "user.delete"

Clears(o) == o.kind \in {"user.update", "user.delete"}

\* The statements of the transaction; rows another one has written are locked.
WriteRows(a) ==
    /\ apc[a] = "ready"
    /\ \A b \in Admin \ {a} :
         apc[b] \in {"written", "cleared"} => Rows(aop[b]) \cap Rows(aop[a]) = {}
    /\ apc' = [apc EXCEPT ![a] = "written"]
    /\ UNCHANGED <<rowVars, aop, cache, tokenVars, requestVars, raced, ops, faults>>

\* The last call inside the transaction.
CacheDelete(a) ==
    /\ apc[a] = "written"
    /\ Clears(aop[a])
    /\ cache' = [cache EXCEPT ![aop[a].user] = Nil]
    /\ apc' = [apc EXCEPT ![a] = "cleared"]
    /\ UNCHANGED <<rowVars, aop, tokenVars, requestVars, ops, faults>>
    /\ Races

Finish(a) ==
    /\ apc' = [apc EXCEPT ![a] = "idle"]
    /\ aop' = [aop EXCEPT ![a] = Nil]

\* An UPDATE of a row that is gone changes no row, the roles are inserted all
\* the same.  Removing a role removes it from every user.
Effect(o) ==
    \/ /\ o.kind = "user.create"
       /\ user' = [user EXCEPT ![o.user] = o.status]
       /\ userRole' = [userRole EXCEPT ![o.user] = o.roles]
       /\ UNCHANGED gone
    \/ /\ o.kind = "user.update"
       /\ user' = [user EXCEPT ![o.user] = IF @ = "deleted" THEN @ ELSE o.status]
       /\ userRole' = [userRole EXCEPT ![o.user] = o.roles]
       /\ UNCHANGED gone
    \/ /\ o.kind = "user.delete"
       /\ user' = [user EXCEPT ![o.user] = "deleted"]
       /\ userRole' = [userRole EXCEPT ![o.user] = {}]
       /\ UNCHANGED gone
    \/ /\ o.kind = "role.delete"
       /\ userRole' = [u \in User |-> userRole[u] \ {o.role}]
       /\ gone' = gone \cup {o.role}
       /\ UNCHANGED user

Commit(a) ==
    /\ apc[a] = "cleared" \/ (apc[a] = "written" /\ ~Clears(aop[a]))
    /\ Effect(aop[a])
    /\ obs' = [c \in Request |->
                 IF pc[c] # "idle" /\ Sub(c) \in User
                 THEN obs[c] \cup {[status |-> user'[Sub(c)], roles |-> userRole'[Sub(c)]]}
                 ELSE obs[c]]
    /\ Finish(a)
    /\ UNCHANGED <<cache, tokenVars, pc, tok, roles, ops, faults>>
    /\ Races

Rollback(a) ==
    /\ apc[a] # "idle"
    /\ Fail
    /\ Finish(a)
    /\ UNCHANGED <<rowVars, cache, tokenVars, requestVars, ops>>
    /\ Races

-----------------------------------------------------------------------------
(* Time, and the process.                                                  *)

\* Mutant: what is over is kept for another tick.
OlderByLess(ts) == {<<t[1], t[2] - 1>> : t \in {t \in ts : t[2] > 0}}

Older(ts) == {<<t[1], t[2] - 1>> : t \in {t \in ts : t[2] > 1}}

\* Mutant: a record ends a second early.
KeptBriefly(ts) == {t \in Older(ts) : t[2] > 2}

\* A record that has an end ends as the last second of its token begins; of
\* one without an end nothing is kept once the token is over.
Kept(ts) == {t \in Older(ts) : t[2] > 1}

Elapse ==
    /\ held' = Older(held)
    /\ destroyed' = Kept(destroyed)
    /\ loggedOut' = Older(loggedOut)
    /\ tok' = [c \in Request |-> <<tok[c][1], IF tok[c][2] = 0 THEN 0 ELSE tok[c][2] - 1>>]
    /\ cache' = [u \in User |->
                   IF cache[u] = Nil \/ cache[u].left = 0 THEN cache[u]
                   ELSE IF cache[u].left = 1 THEN Nil
                   ELSE [cache[u] EXCEPT !.left = @ - 1]]
    /\ UNCHANGED <<rowVars, adminVars, pc, roles, obs, ops, faults>>
    /\ Races

\* A process dies.  A memory store of the users or of the tokens belongs to one
\* process and is lost with it, and so is what logouts were told; redis and
\* badger stay, and with redis other processes live on.
Crash ==
    /\ Fail
    /\ \E dead \in SUBSET (Request \cup Admin) :
         /\ pc' = [c \in Request |-> IF c \in dead THEN "idle" ELSE pc[c]]
         /\ tok' = [c \in Request |-> IF c \in dead THEN <<Root, 0>> ELSE tok[c]]
         /\ roles' = [c \in Request |-> IF c \in dead THEN {} ELSE roles[c]]
         /\ obs' = [c \in Request |-> IF c \in dead THEN {} ELSE obs[c]]
         /\ apc' = [a \in Admin |-> IF a \in dead THEN "idle" ELSE apc[a]]
         /\ aop' = [a \in Admin |-> IF a \in dead THEN Nil ELSE aop[a]]
         /\ \/ UNCHANGED cache
            \/ dead = Request \cup Admin /\ cache' = [u \in User |-> Nil]
         /\ \/ UNCHANGED <<destroyed, loggedOut>>
            \/ dead = Request \cup Admin /\ destroyed' = {} /\ loggedOut' = {}
    /\ UNCHANGED <<rowVars, held, ops>>
    /\ Races

-----------------------------------------------------------------------------

Authenticate(c) == \/ ParseSubject(c) \/ CacheHit(c) \/ CacheMiss(c) \/ CheckStatus(c)
                   \/ ReadRoles(c) \/ Fill(c)
Handle(c) == \/ Serve(c) \/ DestroyToken(c) \/ ForgetUser(c) \/ RefreshToken(c)
             \/ Login(c) \/ LoginByRoot(c) \/ FillFails(c) \/ GenerateToken(c)
             \/ RequestFails(c)
Change(a) == \/ UserCreate(a) \/ UserUpdate(a) \/ UserDelete(a) \/ RoleDelete(a)
             \/ WriteRows(a) \/ CacheDelete(a) \/ Commit(a) \/ Rollback(a)

Next == \/ \E c \in Request : Authenticate(c) \/ Handle(c)
        \/ \E a \in Admin : Change(a)
        \/ Elapse \/ Crash

Spec == Init /\ [][Next]_vars

\* Time passes.  Nothing is assumed of requests and changes.
FairSpec == Spec /\ WF_vars(Elapse)

-----------------------------------------------------------------------------
(* Properties.                                                             *)

TypeOK ==
    /\ user \in [User -> {"unborn", "activated", "freezed", "deleted"}]
    /\ userRole \in [User -> SUBSET Role] /\ gone \subseteq Role
    /\ apc \in [Admin -> {"idle", "ready", "written", "cleared"}]
    /\ aop \in [Admin -> UserOp \cup RoleOp \cup {Nil}]
    /\ cache \in [User -> Entry \cup {Nil}]
    /\ held \subseteq Token /\ destroyed \subseteq Token /\ loggedOut \subseteq Token
    /\ pc \in [Request -> {"idle", "cache", "status", "roles", "fill", "accepted", "forget",
                           "login roles", "login fill", "token"}]
    /\ tok \in [Request -> Subject \X (0..Lifetime + 1)]
    /\ roles \in [Request -> SUBSET Role]
    /\ obs \in [Request -> SUBSET Fact]
    /\ raced \subseteq User
    /\ ops \in 0..MaxOps /\ faults \in 0..MaxFaults

\* The roles that still exist: a removed one is in no policy.
Live(rs) == rs \ gone

\* Unless a fill raced a change, a cached user is activated and has the cached
\* roles, those aside that were removed since.
CacheCoherent ==
    \A u \in User \ raced :
        cache[u] # Nil => user[u] = "activated" /\ Live(cache[u].roles) = Live(userRole[u])

\* Unless a fill raced a change, a request is let in only when its user was
\* activated, and only with roles the user had, at some moment since the
\* request began.
AdmittedSoundly(c) ==
    Sub(c) \in User \ raced =>
        /\ \E f \in obs[c] : f.status = "activated"
        /\ \E f \in obs[c] : Live(f.roles) = Live(roles'[c])
AdmissionSound ==
    [][\A c \in Request : pc[c] # "accepted" /\ pc'[c] = "accepted" => AdmittedSoundly(c)]_vars

\* A new token goes to a user who was activated at some moment since the
\* request began, races of the cache or not.
TokensToActivated ==
    \A c \in Request : pc[c] = "token" /\ Sub(c) \in User =>
        \E f \in obs[c] : f.status = "activated"

\* A token that was logged out stays refused until the second it expires in,
\* and its record does not end before: only in that last second, in which it is
\* accepted and its record is over, may it be let in again.
LogoutLasts == \A t \in loggedOut : t \in destroyed \/ t[2] = 1

\* "Check user status, if not activated, force to logout" (login.biz.go:68),
\* and user cache entries expire after UserCacheExp hours (config.go:110): a
\* user who was frozen does not stay in the cache for ever.
FrozenForcedOut ==
    \A u \in User : (cache[u] # Nil /\ user[u] = "freezed")
                        ~> (cache[u] = Nil \/ user[u] # "freezed")

=============================================================================
