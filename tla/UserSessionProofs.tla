-------------------------- MODULE UserSessionProofs --------------------------
(***************************************************************************)
(* Theorems about UserSession for any users, roles, requests and changes   *)
(* at a time, any lifetimes and any number of operations and faults.       *)
(*                                                                         *)
(* The argument about the cache: a reader that fills it has read rows of   *)
(* the present, unless a change of its user was between deleting the entry *)
(* and committing at some moment of the fill, and that moment is what      *)
(* raced records.                                                          *)
(***************************************************************************)
EXTENDS UserSession, TLAPS

Op == UserOp \cup RoleOp
Active(a) == apc[a] # "idle"

\* Where a request works with the rows or the cache entry of its user.
OfUser == {"cache", "status", "roles", "fill", "login roles", "login fill"}

\* An idle request has no subject, one that works for a user names one; a change
\* under way has an operation, which deletes an entry if it is past that point.
TypeInv ==
    /\ TypeOK
    /\ \A a \in Admin : Active(a) => aop[a] \in Op
    /\ \A a \in Admin : apc[a] = "cleared" => aop[a] \in UserOp /\ Clears(aop[a])
    /\ \A c \in Request : pc[c] \in OfUser => Sub(c) \in User
    /\ \A c \in Request : pc[c] = "idle" => tok[c] = <<Root, 0>>

\* Whose row a change found, or did not find, when it began.
Creates(a) == Active(a) /\ aop[a].kind = "user.create"
ChangesInv ==
    /\ \A a \in Admin : Creates(a) => user[aop[a].user] = "unborn"
    /\ \A a \in Admin : Active(a) /\ Clears(aop[a]) => user[aop[a].user] # "unborn"
    /\ \A a, b \in Admin : a # b /\ Creates(a) /\ Creates(b) => aop[a].user # aop[b].user

\* What is known of a user whom no fill of the cache has raced.
Unraced(u) ==
    /\ \A c \in Request, a \in Admin : ~(Reading(c, u) /\ Pending(a, u))
    /\ \A a \in Admin : Pending(a, u) => cache[u] = Nil
    /\ \A c \in Request : Reading(c, u) => user[u] = "activated"
    /\ \A c \in Request : Reading(c, u) /\ pc[c] \in {"fill", "login fill"}
                             => Live(roles[c]) = Live(userRole[u])
    /\ cache[u] # Nil => user[u] = "activated" /\ Live(cache[u].roles) = Live(userRole[u])
RacesInv == \A u \in User \ raced : Unraced(u)

\* The rows of the present are among what a request could have observed, and
\* a login, or a refresh, goes on from an activated user.
Now(u) == [status |-> user[u], roles |-> userRole[u]]
ObsInv ==
    /\ \A c \in Request : pc[c] # "idle" /\ Sub(c) \in User => Now(Sub(c)) \in obs[c]
    /\ \A c \in Request : pc[c] \in {"login roles", "login fill", "token"} /\ Sub(c) \in User
                             => \E f \in obs[c] : f.status = "activated"

\* The inductive invariant.
IInv == TypeInv /\ ChangesInv /\ RacesInv /\ ObsInv /\ LogoutLasts

-----------------------------------------------------------------------------
(* Types.                                                                  *)

Places == {"idle", "cache", "status", "roles", "fill", "accepted", "forget",
           "login roles", "login fill", "token"}

\* The part of the types that belongs to requests, and the rest.
RequestTypes ==
    /\ pc \in [Request -> Places]
    /\ tok \in [Request -> Subject \X (0..Lifetime + 1)]
    /\ roles \in [Request -> SUBSET Role]
    /\ obs \in [Request -> SUBSET Fact]
    /\ \A c \in Request : pc[c] \in OfUser => Sub(c) \in User
    /\ \A c \in Request : pc[c] = "idle" => tok[c] = <<Root, 0>>

AdminTypes ==
    /\ apc \in [Admin -> {"idle", "ready", "written", "cleared"}]
    /\ aop \in [Admin -> UserOp \cup RoleOp \cup {Nil}]
    /\ \A a \in Admin : Active(a) => aop[a] \in Op
    /\ \A a \in Admin : apc[a] = "cleared" => aop[a] \in UserOp /\ Clears(aop[a])

StoreTypes ==
    /\ user \in [User -> {"unborn", "activated", "freezed", "deleted"}]
    /\ userRole \in [User -> SUBSET Role] /\ gone \subseteq Role
    /\ cache \in [User -> Entry \cup {Nil}]
    /\ held \subseteq Token /\ destroyed \subseteq Token /\ loggedOut \subseteq Token
    /\ raced \subseteq User
    /\ ops \in 0..MaxOps /\ faults \in 0..MaxFaults

LEMMA TypesSplit ==
    /\ TypeInv <=> RequestTypes /\ AdminTypes /\ StoreTypes
    /\ TypeInv' <=> RequestTypes' /\ AdminTypes' /\ StoreTypes'
BY DEF TypeInv, TypeOK, RequestTypes, AdminTypes, StoreTypes, Places

LEMMA BoundTypes ==
    ASSUME StoreTypes
    PROVE  /\ Fail => faults' \in 0..MaxFaults
           /\ Count => ops' \in 0..MaxOps
BY UserSessionAssumption DEF StoreTypes, Fail, Count

\* A request that moves from one place to another with a subject that fits.
LEMMA RequestMoves ==
    ASSUME RequestTypes, NEW c \in Request, NEW p \in Places,
           NEW t \in Subject \X (0..Lifetime + 1), NEW rs \in SUBSET Role, NEW os \in SUBSET Fact,
           p \in OfUser => t[1] \in User, p = "idle" => t = <<Root, 0>>,
           pc' = [pc EXCEPT ![c] = p],
           tok' = [tok EXCEPT ![c] = t] \/ (tok' = tok /\ t = tok[c]),
           roles' = [roles EXCEPT ![c] = rs] \/ roles' = roles,
           obs' = [obs EXCEPT ![c] = os] \/ obs' = obs
    PROVE  RequestTypes'
BY DEF RequestTypes, Sub

LEMMA RootToken == <<Root, 0>> \in Subject \X (0..Lifetime + 1)
BY UserSessionAssumption DEF Subject

LEMMA EndTypes ==
    ASSUME RequestTypes, NEW c \in Request, End(c) PROVE RequestTypes'
<1>1. {} \in SUBSET Role /\ {} \in SUBSET Fact /\ "idle" \in Places /\ "idle" \notin OfUser
  BY DEF Places, OfUser
<1> QED BY <1>1, RequestMoves, RootToken DEF End, Goto

\* What a request that starts observes is a fact.
LEMMA NowType ==
    ASSUME StoreTypes, NEW u \in User PROVE Now(u) \in Fact
BY DEF StoreTypes, Now, Fact

LEMMA StartTypes ==
    ASSUME RequestTypes, StoreTypes, NEW c \in Request, NEW s \in Subject,
           NEW t \in Subject \X (0..Lifetime + 1), NEW p \in Places \ {"idle"},
           p \in OfUser => t[1] \in User, Start(c, s, t, p)
    PROVE  RequestTypes'
<1>1. (IF s \in User THEN {[status |-> user[s], roles |-> userRole[s]]} ELSE {}) \in SUBSET Fact
  BY NowType DEF Now
<1> QED BY <1>1, RequestMoves DEF Start, Goto, Places

\* A step of a request keeps its types.
LEMMA RequestStepTypes ==
    ASSUME RequestTypes, StoreTypes, NEW c \in Request, Authenticate(c) \/ Handle(c)
    PROVE  RequestTypes'
<1>1. /\ pc[c] \in Places /\ tok[c] \in Subject \X (0..Lifetime + 1) /\ Sub(c) \in Subject
      /\ roles[c] \in SUBSET Role /\ obs[c] \in SUBSET Fact
  BY DEF RequestTypes, Sub
<1>2. CASE ParseSubject(c)
  <2>1. PICK t \in held \ destroyed :
            Start(c, t[1], t, IF t[1] = Root THEN "accepted" ELSE "cache")
    BY <1>2 DEF ParseSubject
  <2>2. t \in Subject \X (0..Lifetime + 1) /\ t[1] \in Subject
    BY UserSessionAssumption DEF StoreTypes, Token
  <2>3. CASE t[1] = Root
    BY <2>1, <2>2, <2>3, StartTypes DEF Places, OfUser
  <2>4. CASE t[1] # Root
    BY <2>1, <2>2, <2>4, StartTypes DEF Places, OfUser, Subject
  <2> QED BY <2>3, <2>4
<1>3. CASE CacheHit(c)
  <2>1. cache[Sub(c)] \in Entry
    BY <1>3 DEF CacheHit, RequestTypes, StoreTypes, OfUser
  <2>2. cache[Sub(c)].roles \in SUBSET Role
    BY <2>1 DEF Entry
  <2>3. "accepted" \in Places \ {"idle"} /\ "accepted" \notin OfUser
    BY DEF Places, OfUser
  <2> QED BY <1>1, <1>3, <2>2, <2>3, RequestMoves DEF CacheHit, Goto
<1>4. CASE CacheMiss(c)
  <2>1. Sub(c) \in User
    BY <1>4 DEF CacheMiss, RequestTypes, OfUser
  <2> QED BY <1>1, <1>4, <2>1, RequestMoves DEF CacheMiss, Goto, Places, Sub, RequestTypes
<1>5. CASE CheckStatus(c)
  <2>1. Sub(c) \in User
    BY <1>5 DEF CheckStatus, RequestTypes, OfUser
  <2>2. CASE user[Sub(c)] = "activated"
    BY <1>1, <1>5, <2>1, <2>2, RequestMoves DEF CheckStatus, Goto, Places, Sub, RequestTypes
  <2> QED BY <1>5, <2>2, EndTypes DEF CheckStatus
<1>6. CASE ReadRoles(c)
  <2>1. Sub(c) \in User
    BY <1>6 DEF ReadRoles, RequestTypes, OfUser
  <2>2. userRole[Sub(c)] \in SUBSET Role
    BY <2>1 DEF StoreTypes
  <2> QED BY <1>1, <1>6, <2>1, <2>2, RequestMoves DEF ReadRoles, Goto, Places, Sub, RequestTypes
<1>7. CASE Fill(c)
  <2>1. PICK p \in {"accepted", "token"} : Goto(c, p) /\ UNCHANGED <<tok, roles, obs>>
    BY <1>7 DEF Fill
  <2>2. p \in Places \ {"idle"} /\ p \notin OfUser
    BY DEF Places, OfUser
  <2> QED BY <1>1, <2>1, <2>2, RequestMoves DEF Goto
<1>8. CASE Serve(c)
  BY <1>8, EndTypes DEF Serve
<1>9. CASE DestroyToken(c) \/ RefreshToken(c)
  <2>1. <<Sub(c), 0>> \in Subject \X (0..Lifetime + 1)
    BY <1>1, UserSessionAssumption
  <2>2. PICK p \in {"forget", "token"} : Goto(c, p) /\ Drop(c) /\ UNCHANGED obs
    BY <1>9 DEF DestroyToken, RefreshToken
  <2> QED BY <2>1, <2>2, RequestMoves DEF Drop, Goto, Places, OfUser
<1>10. CASE ForgetUser(c) \/ GenerateToken(c) \/ RequestFails(c)
  BY <1>10, EndTypes DEF ForgetUser, GenerateToken, RequestFails
<1>11. CASE Login(c)
  <2>1. PICK u \in User : Start(c, u, <<u, 0>>, "login roles")
    BY <1>11 DEF Login
  <2>2. <<u, 0>> \in Subject \X (0..Lifetime + 1) /\ u \in Subject
    BY UserSessionAssumption DEF Subject
  <2> QED BY <2>1, <2>2, StartTypes DEF Places
<1>12. CASE LoginByRoot(c)
  BY <1>12, RootToken, StartTypes DEF LoginByRoot, Places, OfUser, Subject
<1>13. CASE FillFails(c)
  BY <1>1, <1>13, RequestMoves DEF FillFails, Goto, Places, OfUser, RequestTypes
<1> QED BY <1>2, <1>3, <1>4, <1>5, <1>6, <1>7, <1>8, <1>9, <1>10, <1>11, <1>12, <1>13
           DEF Authenticate, Handle

\* What a request does to the stores keeps their types.
LEMMA RequestStoreTypes ==
    ASSUME TypeInv, NEW c \in Request, Authenticate(c) \/ Handle(c)
    PROVE  StoreTypes' /\ UNCHANGED <<adminVars, rowVars>>
<1> USE TypesSplit
<1>1. /\ Sub(c) \in Subject /\ roles[c] \in SUBSET Role
      /\ pc[c] \in OfUser => Sub(c) \in User
      /\ CacheLife \in Nat /\ Lifetime \in Nat \ {0} /\ MaxOps \in Nat /\ MaxFaults \in Nat
  BY UserSessionAssumption DEF RequestTypes, Sub
<1>2. CASE ParseSubject(c) \/ CacheHit(c) \/ CacheMiss(c) \/ ReadRoles(c) \/ Serve(c)
  BY <1>2 DEF ParseSubject, CacheHit, CacheMiss, ReadRoles, Serve, StoreTypes,
              rowVars, adminVars, tokenVars
<1>3. raced' = (raced \ Cleared') \cup Overlap' => raced' \subseteq User
  BY DEF Overlap, StoreTypes
<1>4. CASE CheckStatus(c)
  BY <1>3, <1>4 DEF CheckStatus, Races, StoreTypes, rowVars, adminVars, tokenVars
<1>5. CASE Fill(c)
  <2>1. \A n \in {0, CacheLife} : [roles |-> roles[c], left |-> n] \in Entry
    BY <1>1 DEF Entry
  <2>2. cache' \in [User -> Entry \cup {Nil}]
    BY <1>1, <1>5, <2>1 DEF Fill, StoreTypes
  <2> QED BY <1>3, <1>5, <2>2 DEF Fill, Races, StoreTypes, rowVars, adminVars, tokenVars
<1>6. CASE DestroyToken(c)
  BY <1>6 DEF DestroyToken, StoreTypes, rowVars, adminVars
<1>7. CASE ForgetUser(c) \/ FillFails(c) \/ RequestFails(c)
  <2>1. faults' \in 0..MaxFaults
    BY <1>7, BoundTypes DEF ForgetUser, FillFails, RequestFails, StoreTypes
  <2>2. cache' \in [User -> Entry \cup {Nil}]
    BY <1>7 DEF ForgetUser, FillFails, RequestFails, StoreTypes
  <2> QED BY <1>3, <1>7, <2>1, <2>2
          DEF ForgetUser, FillFails, RequestFails, Races, StoreTypes, rowVars, adminVars, tokenVars
<1>8. CASE RefreshToken(c) \/ Login(c) \/ LoginByRoot(c)
  <2>1. ops' \in 0..MaxOps
    BY <1>8, BoundTypes DEF RefreshToken, Login, LoginByRoot, StoreTypes
  <2> QED BY <1>3, <1>8, <2>1
          DEF RefreshToken, Login, LoginByRoot, Races, StoreTypes, rowVars, adminVars, tokenVars
<1>9. CASE GenerateToken(c)
  <2>1. <<Sub(c), Lifetime + 1>> \in Token
    BY <1>1 DEF Token
  <2> QED BY <1>9, <2>1 DEF GenerateToken, StoreTypes, rowVars, adminVars
<1> QED BY <1>2, <1>4, <1>5, <1>6, <1>7, <1>8, <1>9 DEF Authenticate, Handle

\* A change that begins is well formed.
LEMMA BeginWellFormed ==
    ASSUME NEW a \in Admin, UserCreate(a) \/ UserUpdate(a) \/ UserDelete(a) \/ RoleDelete(a)
    PROVE  \E o \in Op : Begin(a, o)
<1>1. CASE UserCreate(a)
  BY <1>1, UserSessionAssumption DEF UserCreate, Op, UserOp
<1>2. CASE UserUpdate(a)
  BY <1>2, UserSessionAssumption DEF UserUpdate, Op, UserOp
<1>3. CASE UserDelete(a)
  BY <1>3 DEF UserDelete, Op, UserOp
<1>4. CASE RoleDelete(a)
  BY <1>4 DEF RoleDelete, Op, RoleOp
<1> QED BY <1>1, <1>2, <1>3, <1>4

LEMMA OpKinds ==
    ASSUME NEW o \in Op
    PROVE  /\ Clears(o) => o \in UserOp
           /\ o.kind = "user.create" => o \in UserOp
           /\ o \in UserOp => o.user \in User /\ o.status \in {"activated", "freezed"}
                              /\ o.roles \subseteq Role
           /\ o.kind # "role.delete" => o \in UserOp
           /\ o.kind = "role.delete" => o \in RoleOp /\ o.role \in Role
BY DEF Op, UserOp, RoleOp, Clears

\* A committed change leaves rows.
LEMMA EffectTypes ==
    ASSUME StoreTypes, NEW o \in Op, Effect(o)
    PROVE  /\ user' \in [User -> {"unborn", "activated", "freezed", "deleted"}]
           /\ userRole' \in [User -> SUBSET Role] /\ gone' \subseteq Role
<1>1. CASE o.kind = "role.delete"
  BY <1>1, OpKinds DEF Effect, StoreTypes
<1>2. CASE o.kind # "role.delete"
  BY <1>2, OpKinds DEF Effect, StoreTypes
<1> QED BY <1>1, <1>2

\* A step of a change keeps all types.
LEMMA ChangeTypes ==
    ASSUME TypeInv, NEW a \in Admin, Change(a) PROVE TypeInv'
<1> USE TypesSplit
<1>1. MaxOps \in Nat /\ MaxFaults \in Nat
  BY UserSessionAssumption
<1>2. raced' = (raced \ Cleared') \cup Overlap' => raced' \subseteq User
  BY DEF Overlap, StoreTypes
<1>3. UNCHANGED requestVars => RequestTypes'
  BY DEF requestVars, RequestTypes, Sub
<1>4. CASE UserCreate(a) \/ UserUpdate(a) \/ UserDelete(a) \/ RoleDelete(a)
  <2>1. PICK o \in Op : Begin(a, o)
    BY <1>4, BeginWellFormed
  <2>2. AdminTypes'
    BY <2>1 DEF Begin, AdminTypes, Active, Op
  <2>3. StoreTypes'
    BY <1>1, <2>1 DEF Begin, Count, StoreTypes, rowVars, tokenVars
  <2> QED BY <1>3, <2>1, <2>2, <2>3 DEF Begin
<1>5. CASE WriteRows(a)
  <2>1. AdminTypes'
    BY <1>5 DEF WriteRows, AdminTypes, Active
  <2> QED BY <1>3, <1>5, <2>1 DEF WriteRows, StoreTypes, rowVars, tokenVars
<1>6. CASE CacheDelete(a)
  <2>1. AdminTypes'
    BY <1>6, OpKinds DEF CacheDelete, AdminTypes, Active
  <2>2. StoreTypes'
    BY <1>2, <1>6 DEF CacheDelete, Races, StoreTypes, rowVars, tokenVars
  <2> QED BY <1>3, <1>6, <2>1, <2>2 DEF CacheDelete
<1>7. Finish(a) => AdminTypes'
  BY DEF Finish, AdminTypes, Active
<1>8. CASE Commit(a)
  <2>1. aop[a] \in Op /\ Effect(aop[a])
    BY <1>8 DEF Commit, AdminTypes, Active
  <2>2. StoreTypes'
    BY <1>2, <1>8, <2>1, EffectTypes DEF Commit, Races, StoreTypes, tokenVars
  <2>3. \A u \in User : Now(u)' \in Fact
    BY <2>2 DEF StoreTypes, Now, Fact
  <2>4. obs' \in [Request -> SUBSET Fact]
    BY <1>8, <2>3 DEF Commit, Now, RequestTypes
  <2>5. RequestTypes'
    BY <1>8, <2>4 DEF Commit, RequestTypes, Sub
  <2> QED BY <1>7, <1>8, <2>2, <2>5 DEF Commit
<1>9. CASE Rollback(a)
  <2>1. StoreTypes'
    BY <1>1, <1>2, <1>9 DEF Rollback, Fail, Races, StoreTypes, rowVars, tokenVars
  <2> QED BY <1>3, <1>7, <1>9, <2>1 DEF Rollback
<1> QED BY <1>4, <1>5, <1>6, <1>8, <1>9 DEF Change

\* What a tick makes of tokens and entries are tokens and entries.
LEMMA OlderTypes ==
    ASSUME NEW ts, ts \subseteq Token
    PROVE  Older(ts) \subseteq Token /\ Kept(ts) \subseteq Token
BY UserSessionAssumption DEF Older, Kept, Token

LEMMA ElapseTypes == ASSUME TypeInv, Elapse PROVE TypeInv'
<1> USE TypesSplit
<1>1. AdminTypes'
  BY DEF Elapse, adminVars, AdminTypes, Active
<1>2. \A c \in Request : tok[c] \in Subject \X (0..Lifetime + 1)
  BY DEF RequestTypes
<1>3. \A c \in Request : tok'[c] = <<tok[c][1], IF tok[c][2] = 0 THEN 0 ELSE tok[c][2] - 1>>
  BY DEF Elapse
<1>4. tok' \in [Request -> Subject \X (0..Lifetime + 1)]
  BY <1>2, UserSessionAssumption DEF Elapse
<1>5. \A c \in Request : tok'[c][1] = tok[c][1] /\ (tok[c] = <<Root, 0>> => tok'[c] = <<Root, 0>>)
  BY <1>3
<1>6. RequestTypes'
  BY <1>4, <1>5 DEF Elapse, RequestTypes, Sub
<1>7. cache' \in [User -> Entry \cup {Nil}]
  <2>1. ASSUME NEW u \in User, cache[u] # Nil, cache[u].left # 0, cache[u].left # 1
        PROVE  [cache[u] EXCEPT !.left = @ - 1] \in Entry
    <3>1. cache[u] \in Entry
      BY <2>1 DEF StoreTypes
    <3> QED BY <2>1, <3>1, UserSessionAssumption DEF Entry
  <2> QED BY <2>1 DEF Elapse, StoreTypes
<1>8. held' \subseteq Token /\ destroyed' \subseteq Token /\ loggedOut' \subseteq Token
  BY OlderTypes DEF Elapse, StoreTypes
<1>9. StoreTypes'
  BY <1>7, <1>8 DEF Elapse, Races, Overlap, StoreTypes, rowVars
<1> QED BY <1>1, <1>6, <1>9

LEMMA CrashTypes == ASSUME TypeInv, Crash PROVE TypeInv'
<1> USE TypesSplit
<1>1. PICK dead \in SUBSET (Request \cup Admin) :
        /\ pc' = [c \in Request |-> IF c \in dead THEN "idle" ELSE pc[c]]
        /\ tok' = [c \in Request |-> IF c \in dead THEN <<Root, 0>> ELSE tok[c]]
        /\ roles' = [c \in Request |-> IF c \in dead THEN {} ELSE roles[c]]
        /\ obs' = [c \in Request |-> IF c \in dead THEN {} ELSE obs[c]]
        /\ apc' = [a \in Admin |-> IF a \in dead THEN "idle" ELSE apc[a]]
        /\ aop' = [a \in Admin |-> IF a \in dead THEN Nil ELSE aop[a]]
  BY DEF Crash
<1>2. AdminTypes'
  BY <1>1 DEF AdminTypes, Active
<1>3. RequestTypes'
  BY <1>1, RootToken DEF RequestTypes, Places, OfUser, Sub
<1>4. /\ cache' \in [User -> Entry \cup {Nil}]
      /\ destroyed' \subseteq Token /\ loggedOut' \subseteq Token
  BY DEF Crash, StoreTypes
<1>5. StoreTypes'
  BY <1>4, UserSessionAssumption DEF Crash, Fail, Races, Overlap, StoreTypes, rowVars
<1> QED BY <1>2, <1>3, <1>5

LEMMA TypeStep == TypeInv /\ [Next]_vars => TypeInv'
<1> SUFFICES ASSUME TypeInv, [Next]_vars PROVE TypeInv'
  OBVIOUS
<1>1. ASSUME NEW c \in Request, Authenticate(c) \/ Handle(c) PROVE TypeInv'
  <2>1. AdminTypes'
    BY <1>1, TypesSplit, RequestStoreTypes DEF AdminTypes, adminVars, Active
  <2> QED BY <1>1, <2>1, TypesSplit, RequestStepTypes, RequestStoreTypes
<1>2. CASE UNCHANGED vars
  BY <1>2 DEF vars, rowVars, adminVars, tokenVars, requestVars, TypeInv, TypeOK, Active, Sub
<1> QED BY <1>1, <1>2, ChangeTypes, ElapseTypes, CrashTypes DEF Next

LEMMA TypeInit == Init => TypeInv
<1> SUFFICES ASSUME Init PROVE TypeInv
  OBVIOUS
<1>1. RequestTypes
  BY RootToken DEF Init, RequestTypes, Places, OfUser, Sub
<1>2. AdminTypes
  BY DEF Init, AdminTypes, Active
<1>3. StoreTypes
  BY UserSessionAssumption DEF Init, StoreTypes
<1> QED BY <1>1, <1>2, <1>3, TypesSplit

\* The variables keep their types in every instance.
THEOREM SessionTypeCorrect == Spec => []TypeOK
<1>1. TypeInv => TypeOK
  BY DEF TypeInv
<1> QED BY <1>1, TypeInit, TypeStep, PTL DEF Spec

-----------------------------------------------------------------------------
(* Whose row a change has.                                                 *)

LEMMA ChangesStep ==
    ASSUME TypeInv, ChangesInv, [Next]_vars PROVE ChangesInv'
<1>1. ASSUME UNCHANGED <<user, adminVars>> PROVE ChangesInv'
  BY <1>1 DEF ChangesInv, Creates, Active, adminVars
<1>2. ASSUME NEW c \in Request, Authenticate(c) \/ Handle(c) PROVE ChangesInv'
  BY <1>1, <1>2, RequestStoreTypes DEF rowVars
<1>3. \A b \in Admin : Active(b) => aop[b] \in Op
  BY DEF TypeInv
<1>4. ASSUME NEW a \in Admin, NEW o \in Op, Begin(a, o),
             o.kind = "user.create" => /\ user[o.user] = "unborn"
                                       /\ \A b \in Admin : Creates(b) => aop[b].user # o.user,
             Clears(o) => user[o.user] # "unborn"
      PROVE  ChangesInv'
  <2>1. \A b \in Admin : b # a => apc'[b] = apc[b] /\ aop'[b] = aop[b]
    BY <1>4 DEF Begin, TypeInv, TypeOK
  <2>2. aop'[a] = o /\ user' = user
    BY <1>4 DEF Begin, TypeInv, TypeOK, rowVars
  <2> QED BY <1>4, <2>1, <2>2 DEF ChangesInv, Creates, Active
<1>5. ASSUME NEW a \in Admin,
             \/ UserCreate(a) \/ UserUpdate(a) \/ UserDelete(a) \/ RoleDelete(a)
      PROVE  ChangesInv'
  <2>1. CASE UserCreate(a)
    <3>1. PICK u \in User, st \in {"activated", "freezed"}, rs \in RoleSets :
            /\ user[u] = "unborn"
            /\ \A b \in Admin : aop[b] \in UserOp => aop[b].user # u
            /\ Begin(a, [kind |-> "user.create", user |-> u, status |-> st, roles |-> rs])
      BY <2>1 DEF UserCreate
    <3>2. [kind |-> "user.create", user |-> u, status |-> st, roles |-> rs] \in Op
      BY UserSessionAssumption DEF Op, UserOp
    <3> QED BY <1>3, <1>4, <3>1, <3>2, OpKinds DEF Creates, Clears
  <2>2. CASE UserUpdate(a)
    <3>1. PICK u \in User, st \in {"activated", "freezed"}, rs \in RoleSets :
            /\ user[u] # "unborn"
            /\ Begin(a, [kind |-> "user.update", user |-> u, status |-> st, roles |-> rs])
      BY <2>2 DEF UserUpdate
    <3>2. [kind |-> "user.update", user |-> u, status |-> st, roles |-> rs] \in Op
      BY UserSessionAssumption DEF Op, UserOp
    <3> QED BY <1>4, <3>1, <3>2
  <2>3. CASE UserDelete(a)
    <3>1. PICK u \in User :
            /\ user[u] # "unborn"
            /\ Begin(a, [kind |-> "user.delete", user |-> u, status |-> "freezed", roles |-> {}])
      BY <2>3 DEF UserDelete
    <3>2. [kind |-> "user.delete", user |-> u, status |-> "freezed", roles |-> {}] \in Op
      BY DEF Op, UserOp
    <3> QED BY <1>4, <3>1, <3>2
  <2>4. CASE RoleDelete(a)
    <3>1. PICK r \in Role : Begin(a, [kind |-> "role.delete", role |-> r])
      BY <2>4 DEF RoleDelete
    <3>2. [kind |-> "role.delete", role |-> r] \in Op
      BY DEF Op, RoleOp
    <3> QED BY <1>4, <3>1, <3>2 DEF Clears
  <2> QED BY <1>5, <2>1, <2>2, <2>3, <2>4
<1>6. ASSUME NEW a \in Admin, WriteRows(a) \/ CacheDelete(a) PROVE ChangesInv'
  <2>1. /\ UNCHANGED <<user, aop>>
        /\ \A b \in Admin : Active(b)' <=> Active(b)
    BY <1>6 DEF WriteRows, CacheDelete, TypeInv, TypeOK, rowVars, Active
  <2> QED BY <2>1 DEF ChangesInv, Creates
<1>7. ASSUME NEW a \in Admin, Finish(a), UNCHANGED user PROVE ChangesInv'
  BY <1>7 DEF Finish, ChangesInv, Creates, Active, TypeInv, TypeOK
<1>8. ASSUME NEW a \in Admin, Commit(a) PROVE ChangesInv'
  <2> DEFINE o == aop[a]
  <2>1. o \in Op /\ Effect(o) /\ Active(a) /\ Finish(a)
    BY <1>3, <1>8 DEF Commit, Active
  <2>2. \A b \in Admin : Active(b)' => b # a /\ Active(b) /\ aop'[b] = aop[b]
    BY <2>1 DEF Finish, TypeInv, TypeOK, Active
  <2>3. \A u \in User : user[u] # "unborn" => user'[u] # "unborn"
    BY <2>1, OpKinds DEF Effect, TypeInv, TypeOK
  <2>4. \A u \in User : user'[u] # user[u] => o.kind # "role.delete" /\ u = o.user
    BY <2>1 DEF Effect, TypeInv, TypeOK
  <2>5. o.kind # "role.delete" => Creates(a) \/ Clears(o)
    BY <2>1 DEF Op, UserOp, RoleOp, Creates, Clears
  <2>6. ASSUME NEW b \in Admin, Creates(b)' PROVE user'[aop[b].user] = "unborn"
    <3>1. Creates(b) /\ b # a /\ aop[b].user \in User
      BY <1>3, <2>2, <2>6, OpKinds DEF Creates
    <3>2. CASE Creates(a)
      BY <2>4, <3>1, <3>2 DEF ChangesInv
    <3>3. CASE Clears(o)
      BY <2>1, <2>4, <3>1, <3>3 DEF ChangesInv
    <3> QED BY <2>4, <2>5, <3>1, <3>2, <3>3 DEF ChangesInv
  <2>7. ASSUME NEW b \in Admin, Active(b)', Clears(aop[b]) PROVE user'[aop[b].user] # "unborn"
    BY <1>3, <2>2, <2>3, <2>7, OpKinds DEF ChangesInv
  <2> QED BY <2>2, <2>6, <2>7 DEF ChangesInv, Creates
<1>9. CASE Elapse
  BY <1>1, <1>9 DEF Elapse, rowVars
<1>10. CASE Crash
  <2>1. /\ user' = user
        /\ \A a \in Admin : Active(a)' => Active(a) /\ aop'[a] = aop[a]
    BY <1>10 DEF Crash, rowVars, Active
  <2> QED BY <2>1 DEF ChangesInv, Creates
<1>11. CASE UNCHANGED vars
  BY <1>1, <1>11 DEF vars, rowVars
<1>12. ASSUME NEW a \in Admin, Rollback(a) PROVE ChangesInv'
  BY <1>7, <1>12 DEF Rollback, rowVars
<1> QED BY <1>2, <1>5, <1>6, <1>8, <1>9, <1>10, <1>11, <1>12 DEF Next, Change

-----------------------------------------------------------------------------
(* What is known of an unraced user.                                       *)

\* Whoever leaves raced has nothing left to be known of, and nobody else is in
\* an overlap afterwards.
LEMMA RacesRule ==
    ASSUME Races, NEW u \in User, u \notin raced',
           ~(\E c \in Request, a \in Admin : Reading(c, u)' /\ Pending(a, u)') /\ u \notin raced
               => Unraced(u)'
    PROVE  Unraced(u)'
<1>1. CASE u \in Cleared'
  BY <1>1 DEF Cleared, Unraced
<1>2. CASE u \notin Cleared'
  BY <1>2 DEF Races, Overlap
<1> QED BY <1>1, <1>2

\* Of a request that moves only what it reads itself is to be shown.
LEMMA RequestKeeps ==
    ASSUME NEW u \in User, Unraced(u), NEW c \in Request, UNCHANGED <<rowVars, adminVars>>,
           \A d \in Request \ {c} : pc'[d] = pc[d] /\ tok'[d] = tok[d] /\ roles'[d] = roles[d],
           Reading(c, u)' =>
              /\ \A a \in Admin : ~Pending(a, u)
              /\ user[u] = "activated"
              /\ pc'[c] \in {"fill", "login fill"} => Live(roles'[c]) = Live(userRole[u]),
           cache'[u] # Nil =>
              \/ cache'[u] = cache[u]
              \/ /\ \A a \in Admin : ~Pending(a, u)
                 /\ user[u] = "activated" /\ Live(cache'[u].roles) = Live(userRole[u])
    PROVE  Unraced(u)'
<1>1. /\ user' = user /\ userRole' = userRole /\ \A rs : Live(rs)' = Live(rs)
      /\ \A a \in Admin : Pending(a, u)' <=> Pending(a, u)
  BY DEF rowVars, adminVars, Pending, Live
<1>2. \A d \in Request \ {c} : Reading(d, u)' <=> Reading(d, u)
  BY DEF Reading, Sub
<1>3. \A d \in Request, a \in Admin : ~(Reading(d, u)' /\ Pending(a, u)')
  BY <1>1, <1>2 DEF Unraced
<1>4. \A a \in Admin : Pending(a, u)' => cache'[u] = Nil
  BY <1>1 DEF Unraced
<1>5. \A d \in Request : Reading(d, u)' => user'[u] = "activated"
  BY <1>1, <1>2 DEF Unraced
<1>6. ASSUME NEW d \in Request, Reading(d, u)', pc'[d] \in {"fill", "login fill"}
      PROVE  Live(roles'[d]) = Live(userRole[u])
  <2>1. CASE d = c
    BY <1>6, <2>1
  <2>2. CASE d # c
    <3>1. pc'[d] = pc[d] /\ roles'[d] = roles[d] /\ Reading(d, u)
      BY <1>2, <1>6, <2>2
    <3>2. Live(roles[d]) = Live(userRole[u])
      BY <1>6, <3>1 DEF Unraced
    <3> QED BY <3>1, <3>2 DEF Live
  <2> QED BY <2>1, <2>2
<1>7. cache'[u] # Nil => user[u] = "activated" /\ Live(cache'[u].roles) = Live(userRole[u])
  BY DEF Unraced
<1> QED BY <1>1, <1>3, <1>4, <1>5, <1>6, <1>7 DEF Unraced, Live

LEMMA RequestRaces ==
    ASSUME TypeInv, NEW u \in User, Unraced(u), NEW c \in Request, Authenticate(c) \/ Handle(c),
           ~(\E d \in Request, a \in Admin : Reading(d, u)' /\ Pending(a, u)')
    PROVE  Unraced(u)'
<1>1. /\ UNCHANGED <<rowVars, adminVars>>
      /\ \A a \in Admin : Pending(a, u)' <=> Pending(a, u)
  BY RequestStoreTypes DEF adminVars, Pending
<1>2. Reading(c, u)' => \A a \in Admin : ~Pending(a, u)
  BY <1>1
<1>3. /\ pc \in [Request -> Places] /\ roles \in [Request -> SUBSET Role]
      /\ tok \in [Request -> Subject \X (0..Lifetime + 1)] /\ cache \in [User -> Entry \cup {Nil}]
  BY TypesSplit DEF RequestTypes, StoreTypes
<1>4. CASE \/ ParseSubject(c) \/ CacheHit(c) \/ CacheMiss(c) \/ Serve(c) \/ DestroyToken(c)
           \/ RefreshToken(c) \/ LoginByRoot(c) \/ GenerateToken(c) \/ FillFails(c)
           \/ RequestFails(c)
  <2>1. PICK p \in Places : pc' = [pc EXCEPT ![c] = p] /\ p \notin {"roles", "fill", "login roles", "login fill"}
    BY <1>4 DEF ParseSubject, CacheHit, CacheMiss, Serve, DestroyToken, RefreshToken,
                LoginByRoot, GenerateToken, FillFails, RequestFails, Start, End, Goto, Places
  <2>2. ~Reading(c, u)' /\ cache' = cache
    BY <1>3, <1>4, <2>1 DEF Reading, ParseSubject, CacheHit, CacheMiss, Serve, DestroyToken,
                RefreshToken, LoginByRoot, GenerateToken, FillFails, RequestFails
  <2>3. \A d \in Request \ {c} : pc'[d] = pc[d] /\ tok'[d] = tok[d] /\ roles'[d] = roles[d]
    BY <1>3, <1>4, <2>1 DEF ParseSubject, CacheHit, CacheMiss, Serve, DestroyToken, RefreshToken,
                LoginByRoot, GenerateToken, FillFails, RequestFails, Start, End, Goto, Drop
  <2> QED BY <1>1, <2>2, <2>3, RequestKeeps
<1>5. CASE CheckStatus(c)
  <2>1. cache' = cache
    BY <1>5 DEF CheckStatus
  <2>2. \A d \in Request \ {c} : pc'[d] = pc[d] /\ tok'[d] = tok[d] /\ roles'[d] = roles[d]
    BY <1>3, <1>5 DEF CheckStatus, Goto, End
  <2>3. Reading(c, u)' => pc'[c] = "roles" /\ user[u] = "activated"
    BY <1>3, <1>5 DEF CheckStatus, Goto, End, Reading, Sub
  <2> QED BY <1>1, <1>2, <2>1, <2>2, <2>3, RequestKeeps
<1>6. CASE ReadRoles(c)
  <2>1. cache' = cache
    BY <1>6 DEF ReadRoles
  <2>2. \A d \in Request \ {c} : pc'[d] = pc[d] /\ tok'[d] = tok[d] /\ roles'[d] = roles[d]
    BY <1>3, <1>6 DEF ReadRoles, Goto
  <2>3. Reading(c, u)' => Reading(c, u) /\ roles'[c] = userRole[u]
    BY <1>3, <1>6 DEF ReadRoles, Goto, Reading, Sub
  <2>4. Reading(c, u)' => user[u] = "activated"
    BY <2>3 DEF Unraced
  <2> QED BY <1>1, <1>2, <2>1, <2>2, <2>3, <2>4, RequestKeeps
<1>7. CASE Fill(c)
  <2>1. \A d \in Request \ {c} : pc'[d] = pc[d] /\ tok'[d] = tok[d] /\ roles'[d] = roles[d]
    BY <1>3, <1>7 DEF Fill, Goto
  <2>2. ~Reading(c, u)'
    BY <1>3, <1>7 DEF Fill, Goto, Reading
  <2>3. CASE Sub(c) = u
    <3>1. Reading(c, u) /\ pc[c] \in {"fill", "login fill"} /\ cache'[u].roles = roles[c]
      BY <1>3, <1>7, <2>3 DEF Fill, Reading
    <3>2. user[u] = "activated" /\ Live(roles[c]) = Live(userRole[u])
      BY <3>1 DEF Unraced
    <3>3. \A a \in Admin : ~Pending(a, u)
      BY <3>1 DEF Unraced
    <3> QED BY <1>1, <2>1, <2>2, <3>1, <3>2, <3>3, RequestKeeps
  <2>4. CASE Sub(c) # u
    <3>1. cache'[u] = cache[u]
      BY <1>3, <1>7, <2>4 DEF Fill
    <3> QED BY <1>1, <2>1, <2>2, <3>1, RequestKeeps
  <2> QED BY <2>3, <2>4
<1>8. CASE ForgetUser(c)
  <2>1. ~Reading(c, u)' /\ (cache'[u] = Nil \/ cache'[u] = cache[u])
    BY <1>3, <1>8 DEF ForgetUser, End, Goto, Reading
  <2>2. \A d \in Request \ {c} : pc'[d] = pc[d] /\ tok'[d] = tok[d] /\ roles'[d] = roles[d]
    BY <1>3, <1>8 DEF ForgetUser, End, Goto
  <2> QED BY <1>1, <2>1, <2>2, RequestKeeps
<1>9. CASE Login(c)
  <2>1. PICK v \in User : user[v] = "activated" /\ Start(c, v, <<v, 0>>, "login roles")
    BY <1>9 DEF Login
  <2>2. Reading(c, u)' => u = v /\ pc'[c] = "login roles"
    BY <1>3, <2>1 DEF Start, Goto, Reading, Sub
  <2>3. \A d \in Request \ {c} : pc'[d] = pc[d] /\ tok'[d] = tok[d] /\ roles'[d] = roles[d]
    BY <1>3, <2>1 DEF Start, Goto
  <2>4. cache' = cache
    BY <1>9 DEF Login
  <2> QED BY <1>1, <1>2, <2>1, <2>2, <2>3, <2>4, RequestKeeps
<1> QED BY <1>4, <1>5, <1>6, <1>7, <1>8, <1>9 DEF Authenticate, Handle

\* A commit of rows of u that were cleared finds no reader and no entry.
LEMMA CommitRaces ==
    ASSUME TypeInv, ChangesInv, NEW u \in User, Unraced(u), NEW a \in Admin, Commit(a)
    PROVE  Unraced(u)'
<1> DEFINE o == aop[a]
<1>1. o \in Op /\ Effect(o) /\ Active(a) /\ Finish(a)
  BY DEF Commit, TypeInv, Active
<1>2. /\ UNCHANGED <<cache, pc, tok, roles>>
      /\ \A d \in Request : Reading(d, u)' <=> Reading(d, u)
  BY DEF Commit, Reading, Sub
<1>3. \A b \in Admin : Pending(b, u)' => Pending(b, u)
  BY <1>1 DEF Finish, Pending, TypeInv, TypeOK
<1>4. CASE o.kind = "role.delete"
  <2>1. user' = user /\ gone' = gone \cup {o.role} /\ userRole'[u] = userRole[u] \ {o.role}
    BY <1>1, <1>4 DEF Effect
  <2>2. Live(userRole[u])' = Live(userRole[u]) \ {o.role}
    BY <2>1 DEF Live
  <2>3. \A d \in Request : Live(roles[d])' = Live(roles[d]) \ {o.role}
    BY <1>2, <2>1 DEF Live
  <2>4. Live(cache[u].roles)' = Live(cache[u].roles) \ {o.role}
    BY <1>2, <2>1 DEF Live
  <2> QED BY <1>2, <1>3, <2>1, <2>2, <2>3, <2>4 DEF Unraced
<1>5. CASE o.kind # "role.delete" /\ o.user = u
  <2>1. (\A d \in Request : ~Reading(d, u)) /\ cache[u] = Nil
    <3>1. CASE Creates(a)
      BY <1>5, <3>1 DEF ChangesInv, Unraced
    <3>2. CASE ~Creates(a)
      <4>1. Clears(o)
        BY <1>1, <1>5, <3>2 DEF Op, UserOp, RoleOp, Creates, Clears
      <4>2. Pending(a, u)
        BY <1>5, <4>1 DEF Commit, Pending
      <4> QED BY <4>2 DEF Unraced
    <3> QED BY <3>1, <3>2
  <2> QED BY <1>2, <1>3, <2>1 DEF Unraced
<1>6. CASE o.kind # "role.delete" /\ o.user # u
  <2>1. user'[u] = user[u] /\ userRole'[u] = userRole[u] /\ gone' = gone
    BY <1>1, <1>6 DEF Effect, TypeInv, TypeOK
  <2> QED BY <1>2, <1>3, <2>1 DEF Unraced, Live
<1> QED BY <1>4, <1>5, <1>6

LEMMA ChangeRaces ==
    ASSUME TypeInv, ChangesInv, NEW u \in User, Unraced(u), NEW a \in Admin, Change(a),
           ~(\E d \in Request, b \in Admin : Reading(d, u)' /\ Pending(b, u)')
    PROVE  Unraced(u)'
<1>1. ASSUME UNCHANGED <<rowVars, requestVars>>, \A b \in Admin : Pending(b, u)' => Pending(b, u),
             cache'[u] = cache[u]
      PROVE  Unraced(u)'
  BY <1>1 DEF Unraced, rowVars, requestVars, Reading, Sub, Live
<1>2. CASE UserCreate(a) \/ UserUpdate(a) \/ UserDelete(a) \/ RoleDelete(a)
  <2>1. PICK o \in Op : Begin(a, o)
    BY <1>2, BeginWellFormed
  <2> QED BY <1>1, <2>1 DEF Begin, Pending, TypeInv, TypeOK
<1>3. CASE WriteRows(a)
  BY <1>1, <1>3 DEF WriteRows, Pending, TypeInv, TypeOK
<1>4. CASE CacheDelete(a)
  <2>1. UNCHANGED <<rowVars, requestVars>> /\ cache' = [cache EXCEPT ![aop[a].user] = Nil]
    BY <1>4 DEF CacheDelete
  <2>2. \A b \in Admin : Pending(b, u)' => Pending(b, u) \/ (b = a /\ aop[a].user = u)
    BY <1>4 DEF CacheDelete, Pending, TypeInv, TypeOK
  <2>3. CASE aop[a].user = u
    <3>1. cache'[u] = Nil
      BY <2>1, <2>3 DEF TypeInv, TypeOK
    <3> QED BY <2>1, <3>1 DEF Unraced, rowVars, requestVars, Reading, Sub, Live
  <2>4. CASE aop[a].user # u
    <3>1. cache'[u] = cache[u]
      BY <2>1, <2>4 DEF TypeInv, TypeOK
    <3> QED BY <1>1, <2>1, <2>2, <2>4, <3>1
  <2> QED BY <2>3, <2>4
<1>5. CASE Rollback(a)
  BY <1>1, <1>5 DEF Rollback, Finish, Pending, TypeInv, TypeOK
<1> QED BY <1>2, <1>3, <1>4, <1>5, CommitRaces DEF Change

LEMMA ElapseRaces ==
    ASSUME TypeInv, NEW u \in User, Unraced(u), Elapse PROVE Unraced(u)'
<1>1. /\ UNCHANGED <<rowVars, adminVars, pc, roles>>
      /\ \A d \in Request : Sub(d)' = Sub(d)
  BY DEF Elapse, Sub
<1>2. cache'[u] # Nil => cache[u] # Nil /\ cache'[u].roles = cache[u].roles
  <2>1. cache[u] # Nil => cache[u] \in Entry
    BY DEF TypeInv, TypeOK
  <2> QED BY <2>1 DEF Elapse, Entry
<1> QED BY <1>1, <1>2 DEF Unraced, rowVars, adminVars, Reading, Pending, Live

LEMMA CrashRaces ==
    ASSUME TypeInv, NEW u \in User, Unraced(u), Crash PROVE Unraced(u)'
<1>1. PICK gone0 \in SUBSET (Request \cup Admin) :
        /\ pc' = [c \in Request |-> IF c \in gone0 THEN "idle" ELSE pc[c]]
        /\ tok' = [c \in Request |-> IF c \in gone0 THEN <<Root, 0>> ELSE tok[c]]
        /\ roles' = [c \in Request |-> IF c \in gone0 THEN {} ELSE roles[c]]
        /\ apc' = [a \in Admin |-> IF a \in gone0 THEN "idle" ELSE apc[a]]
        /\ aop' = [a \in Admin |-> IF a \in gone0 THEN Nil ELSE aop[a]]
        /\ cache' = cache \/ cache' = [v \in User |-> Nil]
  BY DEF Crash
<1>2. \A d \in Request : Reading(d, u)' => Reading(d, u) /\ roles'[d] = roles[d] /\ pc'[d] = pc[d]
  BY <1>1 DEF Reading, Sub
<1>3. \A b \in Admin : Pending(b, u)' => Pending(b, u)
  BY <1>1 DEF Pending
<1>4. UNCHANGED rowVars /\ (cache'[u] = cache[u] \/ cache'[u] = Nil)
  BY <1>1 DEF Crash
<1> QED BY <1>2, <1>3, <1>4 DEF Unraced, rowVars, Live

LEMMA RacesStep ==
    ASSUME TypeInv, ChangesInv, RacesInv, [Next]_vars PROVE RacesInv'
<1> SUFFICES ASSUME NEW u \in User, u \notin raced' PROVE Unraced(u)'
  BY DEF RacesInv
<1> DEFINE Apart == ~(\E c \in Request, a \in Admin : Reading(c, u)' /\ Pending(a, u)')
<1>1. u \notin raced => Unraced(u)
  BY DEF RacesInv
<1>2. CASE Races
  <2>1. ASSUME u \notin raced, Apart PROVE Unraced(u)'
    <3>1. Unraced(u)
      BY <1>1, <2>1
    <3>2. CASE UNCHANGED vars
      BY <3>1, <3>2 DEF vars, rowVars, adminVars, tokenVars, requestVars, Unraced,
                        Reading, Pending, Sub, Live
    <3>3. CASE Next
      BY <2>1, <3>1, <3>3, RequestRaces, ChangeRaces, ElapseRaces, CrashRaces DEF Next
    <3> QED BY <3>2, <3>3
  <2> QED BY <1>2, <2>1, RacesRule
<1>3. CASE ~Races /\ raced' = raced
  <2>1. Unraced(u)
    BY <1>1, <1>3
  <2>2. ASSUME UNCHANGED rowVars, UNCHANGED requestVars, UNCHANGED cache,
               \A b \in Admin : Pending(b, u)' => Pending(b, u)
        PROVE  Unraced(u)'
    BY <2>1, <2>2 DEF Unraced, rowVars, requestVars, Reading, Sub, Live
  <2>3. ASSUME NEW a \in Admin, Change(a) PROVE Unraced(u)'
    <3>1. CASE UserCreate(a) \/ UserUpdate(a) \/ UserDelete(a) \/ RoleDelete(a)
      <4>1. PICK o \in Op : Begin(a, o)
        BY <3>1, BeginWellFormed
      <4> QED BY <2>2, <4>1 DEF Begin, Pending, TypeInv, TypeOK
    <3>2. CASE WriteRows(a)
      BY <2>2, <3>2 DEF WriteRows, Pending, TypeInv, TypeOK
    <3> QED BY <1>3, <2>3, <3>1, <3>2 DEF Change, CacheDelete, Commit, Rollback
  <2>4. ASSUME NEW c \in Request, Authenticate(c) \/ Handle(c) PROVE Unraced(u)'
    <3>1. CASE Apart
      BY <2>1, <2>4, <3>1, RequestRaces
    <3>2. \A a \in Admin : Pending(a, u)' <=> Pending(a, u)
      BY <2>4, RequestStoreTypes DEF adminVars, Pending
    <3>3. \A d \in Request : Reading(d, u)' => Reading(d, u)
      <4>1. pc \in [Request -> Places] /\ tok \in [Request -> Subject \X (0..Lifetime + 1)]
        BY TypesSplit DEF RequestTypes
      <4>2. CASE ReadRoles(c)
        BY <4>1, <4>2 DEF ReadRoles, Goto, Reading, Sub
      <4>3. CASE ParseSubject(c) \/ CacheHit(c) \/ CacheMiss(c) \/ Serve(c) \/ DestroyToken(c)
                 \/ RefreshToken(c) \/ LoginByRoot(c) \/ GenerateToken(c)
        <5>1. PICK p \in Places : pc' = [pc EXCEPT ![c] = p]
                                  /\ p \notin {"roles", "fill", "login roles", "login fill"}
          BY <4>3 DEF ParseSubject, CacheHit, CacheMiss, Serve, DestroyToken, RefreshToken,
                      LoginByRoot, GenerateToken, Start, End, Goto, Places
        <5>2. \A d \in Request \ {c} : tok'[d] = tok[d]
          BY <4>1, <4>3 DEF ParseSubject, CacheHit, CacheMiss, Serve, DestroyToken, RefreshToken,
                      LoginByRoot, GenerateToken, Start, End, Drop
        <5> QED BY <4>1, <5>1, <5>2 DEF Reading, Sub
      <4> QED BY <1>3, <2>4, <4>2, <4>3 DEF Authenticate, Handle, CheckStatus, Fill, ForgetUser,
                 Login, FillFails, RequestFails
    <3>4. Apart
      BY <2>1, <3>2, <3>3 DEF Unraced
    <3> QED BY <3>1, <3>4
  <2>5. CASE UNCHANGED vars
    BY <2>2, <2>5 DEF vars, adminVars, Pending
  <2>6. ~Elapse /\ ~Crash
    BY <1>3 DEF Elapse, Crash
  <2> QED BY <2>3, <2>4, <2>5, <2>6 DEF Next
<1>4. Races \/ raced' = raced
  <2>1. \A c \in Request : Authenticate(c) \/ Handle(c) => Races \/ raced' = raced
    BY DEF Authenticate, Handle, ParseSubject, CacheHit, CacheMiss, CheckStatus, ReadRoles, Fill,
           Serve, DestroyToken, ForgetUser, RefreshToken, Login, LoginByRoot, FillFails,
           GenerateToken, RequestFails
  <2>2. \A a \in Admin : Change(a) => Races \/ raced' = raced
    BY DEF Change, UserCreate, UserUpdate, UserDelete, RoleDelete, Begin, WriteRows, CacheDelete,
           Commit, Rollback
  <2> QED BY <2>1, <2>2 DEF Next, Elapse, Crash, vars
<1> QED BY <1>2, <1>3, <1>4

-----------------------------------------------------------------------------
(* What requests could have observed.                                      *)

LEMMA ObsStep ==
    ASSUME TypeInv, ObsInv, [Next]_vars PROVE ObsInv'
<1>1. /\ pc \in [Request -> Places] /\ obs \in [Request -> SUBSET Fact]
      /\ tok \in [Request -> Subject \X (0..Lifetime + 1)]
      /\ \A c \in Request : pc[c] = "idle" => Sub(c) = Root
      /\ Root \notin User
  BY TypesSplit, UserSessionAssumption DEF RequestTypes, Sub
<1>2. ASSUME NEW c \in Request, UNCHANGED rowVars,
             \A d \in Request \ {c} : pc'[d] = pc[d] /\ tok'[d] = tok[d] /\ obs'[d] = obs[d],
             pc'[c] # "idle" /\ Sub(c)' \in User =>
                 /\ Now(Sub(c)') \in obs'[c]
                 /\ pc'[c] \in {"login roles", "login fill", "token"}
                        => \E f \in obs'[c] : f.status = "activated"
      PROVE  ObsInv'
  <2>1. \A d \in Request \ {c} : Sub(d)' = Sub(d)
    BY <1>2 DEF Sub
  <2>2. user' = user /\ userRole' = userRole
    BY <1>2 DEF rowVars
  <2>3. ASSUME NEW d \in Request, pc'[d] # "idle", Sub(d)' \in User
        PROVE  [status |-> user'[Sub(d)'], roles |-> userRole'[Sub(d)']] \in obs'[d]
    <3>1. CASE d = c
      BY <1>2, <2>2, <2>3, <3>1 DEF Now
    <3>2. CASE d # c
      <4>1. pc[d] # "idle" /\ Sub(d)' = Sub(d) /\ obs'[d] = obs[d]
        BY <1>2, <2>1, <2>3, <3>2
      <4>2. Now(Sub(d)) \in obs[d]
        BY <2>3, <4>1 DEF ObsInv
      <4> QED BY <2>2, <4>1, <4>2 DEF Now
    <3> QED BY <3>1, <3>2
  <2>4. ASSUME NEW d \in Request, pc'[d] \in {"login roles", "login fill", "token"}, Sub(d)' \in User
        PROVE  \E f \in obs'[d] : f.status = "activated"
    BY <1>2, <2>1, <2>4 DEF ObsInv
  <2> QED BY <2>3, <2>4 DEF ObsInv, Now
<1>3. ASSUME NEW c \in Request, Authenticate(c) \/ Handle(c) PROVE ObsInv'
  <2>1. UNCHANGED rowVars
    BY <1>3, RequestStoreTypes
  <2>2. ASSUME End(c) PROVE ObsInv'
    BY <1>1, <1>2, <2>1, <2>2 DEF End, Goto
  <2>3. ASSUME NEW p \in Places, Goto(c, p), pc[c] # "idle", UNCHANGED obs,
               \A d \in Request \ {c} : tok'[d] = tok[d], Sub(c)' = Sub(c),
               p \in {"login roles", "login fill", "token"} /\ Sub(c) \in User =>
                   \/ pc[c] \in {"login roles", "login fill", "token"}
                   \/ user[Sub(c)] = "activated"
        PROVE  ObsInv'
    <3>1. p # "idle" /\ Sub(c) \in User => Now(Sub(c)) \in obs[c]
      BY <2>3 DEF ObsInv
    <3>2. p \in {"login roles", "login fill", "token"} /\ Sub(c) \in User
             => \E f \in obs[c] : f.status = "activated"
      BY <2>3, <3>1 DEF ObsInv, Now
    <3>3. pc'[c] = p /\ \A d \in Request \ {c} : pc'[d] = pc[d]
      BY <1>1, <2>3 DEF Goto
    <3> QED BY <1>2, <2>1, <2>3, <3>1, <3>2, <3>3
  <2>4. CASE ParseSubject(c)
    <3>1. PICK t \in held \ destroyed :
              Start(c, t[1], t, IF t[1] = Root THEN "accepted" ELSE "cache")
      BY <2>4 DEF ParseSubject
    <3>2. Sub(c)' = t[1] /\ \A d \in Request \ {c} : pc'[d] = pc[d] /\ tok'[d] = tok[d] /\ obs'[d] = obs[d]
      BY <1>1, <3>1 DEF Start, Goto, Sub
    <3>3. t[1] \in User => Now(t[1]) \in obs'[c]
      BY <1>1, <3>1 DEF Start, Now
    <3>4. pc'[c] \in {"accepted", "cache"}
      BY <1>1, <3>1 DEF Start, Goto
    <3> QED BY <1>2, <2>1, <3>2, <3>3, <3>4
  <2>5. CASE Login(c)
    <3>1. PICK u \in User : user[u] = "activated" /\ Start(c, u, <<u, 0>>, "login roles")
      BY <2>5 DEF Login
    <3>2. Sub(c)' = u /\ \A d \in Request \ {c} : pc'[d] = pc[d] /\ tok'[d] = tok[d] /\ obs'[d] = obs[d]
      BY <1>1, <3>1 DEF Start, Goto, Sub
    <3>3. Now(u) \in obs'[c] /\ Now(u).status = "activated"
      BY <1>1, <3>1 DEF Start, Now
    <3> QED BY <1>2, <2>1, <3>2, <3>3
  <2>6. CASE LoginByRoot(c)
    <3>1. Sub(c)' = Root /\ \A d \in Request \ {c} : pc'[d] = pc[d] /\ tok'[d] = tok[d] /\ obs'[d] = obs[d]
      BY <1>1, <2>6 DEF LoginByRoot, Start, Goto, Sub
    <3> QED BY <1>1, <1>2, <2>1, <3>1
  <2>7. CASE CacheHit(c) \/ CacheMiss(c) \/ ReadRoles(c) \/ Fill(c) \/ FillFails(c)
    BY <2>3, <2>7 DEF CacheHit, CacheMiss, ReadRoles, Fill, FillFails, Places, Sub
  <2>8. CASE CheckStatus(c)
    BY <2>2, <2>3, <2>8 DEF CheckStatus, Places, Sub
  <2>9. CASE DestroyToken(c) \/ RefreshToken(c)
    <3>1. Sub(c)' = Sub(c) /\ \A d \in Request \ {c} : tok'[d] = tok[d]
      BY <1>1, <2>9 DEF DestroyToken, RefreshToken, Drop, Sub
    <3> QED BY <2>3, <2>9, <3>1 DEF DestroyToken, RefreshToken, Places
  <2>10. CASE Serve(c) \/ ForgetUser(c) \/ GenerateToken(c) \/ RequestFails(c)
    BY <2>2, <2>10 DEF Serve, ForgetUser, GenerateToken, RequestFails
  <2> QED BY <1>3, <2>4, <2>5, <2>6, <2>7, <2>8, <2>9, <2>10 DEF Authenticate, Handle
<1>4. ASSUME UNCHANGED <<rowVars, requestVars>> PROVE ObsInv'
  BY <1>4 DEF rowVars, requestVars, ObsInv, Now, Sub
<1>5. ASSUME NEW a \in Admin, Change(a) PROVE ObsInv'
  <2>1. CASE Commit(a)
    <3>1. /\ UNCHANGED <<pc, tok>>
          /\ \A c \in Request : Sub(c)' = Sub(c)
      BY <2>1 DEF Commit, Sub
    <3>2. \A c \in Request : obs[c] \subseteq obs'[c]
      BY <1>1, <2>1 DEF Commit
    <3>3. \A c \in Request : pc[c] # "idle" /\ Sub(c) \in User => Now(Sub(c))' \in obs'[c]
      BY <2>1 DEF Commit, Now, Sub
    <3> QED BY <3>1, <3>2, <3>3 DEF ObsInv
  <2> QED BY <1>4, <1>5, <2>1 DEF Change, UserCreate, UserUpdate, UserDelete, RoleDelete, Begin,
             WriteRows, CacheDelete, Rollback
<1>6. CASE Elapse
  <2>1. UNCHANGED <<rowVars, pc, obs>> /\ \A c \in Request : Sub(c)' = Sub(c)
    BY <1>6 DEF Elapse, Sub
  <2> QED BY <2>1 DEF rowVars, ObsInv, Now
<1>7. CASE Crash
  <2>1. UNCHANGED rowVars /\ \A c \in Request :
           pc'[c] # "idle" => pc'[c] = pc[c] /\ Sub(c)' = Sub(c) /\ obs'[c] = obs[c]
    BY <1>7 DEF Crash, Sub
  <2> QED BY <2>1 DEF rowVars, ObsInv, Now
<1>8. CASE UNCHANGED vars
  BY <1>4, <1>8 DEF vars
<1> QED BY <1>3, <1>5, <1>6, <1>7, <1>8 DEF Next

-----------------------------------------------------------------------------
(* Destroyed tokens.                                                       *)

LEMMA LogoutStep ==
    ASSUME StoreTypes, LogoutLasts, [Next]_vars PROVE LogoutLasts'
<1>1. ASSUME UNCHANGED tokenVars PROVE LogoutLasts'
  BY <1>1 DEF tokenVars, LogoutLasts
<1>2. ASSUME NEW c \in Request, Authenticate(c) \/ Handle(c) PROVE LogoutLasts'
  BY <1>1, <1>2 DEF Authenticate, Handle, ParseSubject, CacheHit, CacheMiss, CheckStatus, ReadRoles,
         Fill, Serve, DestroyToken, ForgetUser, RefreshToken, Login, LoginByRoot, FillFails,
         GenerateToken, RequestFails, LogoutLasts
<1>3. ASSUME NEW a \in Admin, Change(a) PROVE LogoutLasts'
  BY <1>1, <1>3 DEF Change, UserCreate, UserUpdate, UserDelete, RoleDelete, Begin, WriteRows,
         CacheDelete, Commit, Rollback
<1>4. CASE Elapse
  <2>1. SUFFICES ASSUME NEW t \in Older(loggedOut), t[2] # 1 PROVE t \in Kept(destroyed)
    BY <1>4 DEF Elapse, LogoutLasts
  <2>2. PICK x \in loggedOut : x[2] > 1 /\ t = <<x[1], x[2] - 1>>
    BY <2>1 DEF Older
  <2>3. x \in Token /\ x[2] \in Nat
    BY <2>2, UserSessionAssumption DEF StoreTypes, Token
  <2>4. x \in destroyed
    BY <2>2, <2>3 DEF LogoutLasts
  <2>5. t \in Older(destroyed) /\ t[2] = x[2] - 1
    BY <2>2, <2>4 DEF Older
  <2> QED BY <2>1, <2>2, <2>3, <2>5 DEF Kept
<1>5. CASE Crash
  BY <1>5 DEF Crash, LogoutLasts
<1> QED BY <1>1, <1>2, <1>3, <1>4, <1>5 DEF Next, vars

-----------------------------------------------------------------------------
(* The theorems.                                                           *)

LEMMA Inductive == Spec => []IInv
<1>1. Init => IInv
  <2> SUFFICES ASSUME Init PROVE IInv
    OBVIOUS
  <2>1. ChangesInv
    BY DEF Init, ChangesInv, Creates, Active
  <2>2. RacesInv
    BY DEF Init, RacesInv, Unraced, Reading, Pending
  <2>3. ObsInv /\ LogoutLasts
    BY DEF Init, ObsInv, LogoutLasts
  <2> QED BY TypeInit, <2>1, <2>2, <2>3 DEF IInv
<1>2. IInv /\ [Next]_vars => IInv'
  BY TypeStep, ChangesStep, RacesStep, ObsStep, LogoutStep, TypesSplit DEF IInv
<1> QED BY <1>1, <1>2, PTL DEF Spec

\* Whatever requests, changes, expiry and crashes do: an entry of the cache that
\* no fill has raced is that of an activated user with his present roles.
THEOREM CacheStaysCoherent == Spec => []CacheCoherent
<1>1. IInv => CacheCoherent
  BY DEF IInv, RacesInv, Unraced, CacheCoherent
<1> QED BY <1>1, Inductive, PTL

\* So a request is let in only on rights its user had while it ran.
THEOREM AdmissionStaysSound == Spec => AdmissionSound
<1> DEFINE Sound == \A c \in Request :
                        pc[c] # "accepted" /\ pc'[c] = "accepted" => AdmittedSoundly(c)
<1>1. IInv /\ [Next]_vars => [Sound]_vars
  <2> SUFFICES ASSUME IInv, Next, NEW c \in Request, pc[c] # "accepted", pc'[c] = "accepted",
                      Sub(c) \in User \ raced
               PROVE  /\ \E f \in obs[c] : f.status = "activated"
                      /\ \E f \in obs[c] : Live(f.roles) = Live(roles'[c])
    BY DEF AdmittedSoundly
  <2>1. /\ pc \in [Request -> Places] /\ tok \in [Request -> Subject \X (0..Lifetime + 1)]
        /\ roles \in [Request -> SUBSET Role]
        /\ pc[c] = "idle" => Sub(c) = Root
        /\ Root \notin User
    BY TypesSplit, UserSessionAssumption DEF IInv, RequestTypes, Sub
  <2>2. pc[c] # "idle"
    BY <2>1
  <2>3. Now(Sub(c)) \in obs[c] /\ Unraced(Sub(c))
    BY <2>2 DEF IInv, ObsInv, RacesInv
  <2>4. CacheHit(c) \/ Fill(c)
    <3>1. PICK d \in Request : Authenticate(d) \/ Handle(d)
      <4>1. \A a \in Admin : Change(a) => pc' = pc
        BY DEF Change, UserCreate, UserUpdate, UserDelete, RoleDelete, Begin, WriteRows,
               CacheDelete, Commit, Rollback, requestVars
      <4>2. Elapse \/ Crash => pc'[c] \in {pc[c], "idle"}
        BY DEF Elapse, Crash
      <4> QED BY <4>1, <4>2 DEF Next
    <3>2. d = c
      BY <2>1, <3>1 DEF Authenticate, Handle, ParseSubject, CacheHit, CacheMiss, CheckStatus,
             ReadRoles, Fill, Serve, DestroyToken, ForgetUser, RefreshToken, Login, LoginByRoot,
             FillFails, GenerateToken, RequestFails, Start, End, Goto
    <3> QED BY <2>1, <2>2, <3>1, <3>2 DEF Authenticate, Handle, ParseSubject, CacheMiss,
               CheckStatus, ReadRoles, Serve, DestroyToken, ForgetUser, RefreshToken, Login,
               LoginByRoot, FillFails, GenerateToken, RequestFails, Start, End, Goto
  <2>5. user[Sub(c)] = "activated" /\ Live(roles'[c]) = Live(userRole[Sub(c)])
    <3>1. CASE CacheHit(c)
      <4>1. cache[Sub(c)] # Nil /\ roles'[c] = cache[Sub(c)].roles
        BY <2>1, <3>1 DEF CacheHit
      <4> QED BY <2>3, <4>1 DEF Unraced
    <3>2. CASE Fill(c)
      <4>1. Reading(c, Sub(c)) /\ pc[c] \in {"fill", "login fill"} /\ roles' = roles
        BY <3>2 DEF Fill, Reading
      <4> QED BY <2>3, <4>1 DEF Unraced
    <3> QED BY <2>4, <3>1, <3>2
  <2> QED BY <2>3, <2>5 DEF Now
<1> QED BY <1>1, Inductive, PTL DEF Spec, AdmissionSound

\* A token is issued to users only who were activated at a moment of the request.
THEOREM TokensStayWithActivated == Spec => []TokensToActivated
<1>1. IInv => TokensToActivated
  BY DEF IInv, ObsInv, TokensToActivated
<1> QED BY <1>1, Inductive, PTL

\* What a logout has stored stays in the store until the second its token expires
\* in begins, through crashes of processes and restarts that keep the store.
THEOREM LogoutsLast == Spec => []LogoutLasts
<1>1. IInv => LogoutLasts
  BY DEF IInv
<1> QED BY <1>1, Inductive, PTL

==============================================================================
