--------------------------- MODULE PolicyLoadProofs ---------------------------
(* The worker pool gathers what PolicyGather says, for any number of roles,   *)
(* lines and workers.                                                        *)
EXTENDS PolicyLoad, TLAPS

\* The line is with a worker that has yet to hand its buffer over.
Carried(x) == \E k \in Worker : wpc[k] \in {"receive", "lock", "write"} /\ x \in ibuf[k]

\* Every line of a role that was pushed is in the channel, with a worker or in
\* the shared buffer, and no other line is anywhere.
Kept ==
    \A x \in Role \X Line :
        (x[2] \in Granted[x[1]] /\ x[1] \notin todo /\ x[1] \notin skipped)
            <=> (x \in buf \/ Carried(x) \/ (x[1] \in queue /\ x[2] \in Granted[x[1]]))

Roles ==
    /\ queue \cap todo = {} /\ queue \cap skipped = {} /\ todo \cap skipped = {}

\* Only the holder of the lock writes, and nobody has since it took the lock.
Locked ==
    \A k \in Worker :
        /\ wpc[k] \in {"write", "unlock"} <=> lock = k
        /\ wpc[k] = "write" => base[k] = buf

\* Where loader and workers are.
Stages ==
    /\ pc = "start" => /\ todo = Role /\ queue = {} /\ running = {}
                       /\ \A k \in Worker : wpc[k] = "none"
    /\ pc # "start" => \A k \in Worker : wpc[k] # "none"
    /\ closed <=> pc \in {"wait", "done"}
    /\ closed => todo = {}
    /\ \A k \in Worker :
         /\ wpc[k] \in {"lock", "write", "unlock", "exit", "gone"} => closed /\ queue = {}
         /\ wpc[k] = "none" => ibuf[k] = {}
         /\ pc # "start" => (k \in running <=> wpc[k] # "gone")
    /\ pc = "done" => running = {}

IInv == TypeOK /\ Kept /\ Roles /\ Locked /\ Stages

\* The invariant holds at the start.
LEMMA InitIInv == Init => IInv
<1> SUFFICES ASSUME Init PROVE IInv
  OBVIOUS
<1> USE PolicyLoadAssumption DEF Init
<1>1. TypeOK
  BY DEF TypeOK
<1>2. Kept
  BY DEF Kept, Carried
<1>3. Roles /\ Locked /\ Stages
  BY DEF Roles, Locked, Stages
<1> QED BY <1>1, <1>2, <1>3 DEF IInv

\* Every step of the loader and of a worker keeps the types.
LEMMA TypeStep == TypeOK /\ [Next]_vars => TypeOK'
<1> SUFFICES ASSUME TypeOK, [Next]_vars PROVE TypeOK'
  OBVIOUS
<1> USE DEF TypeOK
<1>1. CASE Start
  BY <1>1 DEF Start
<1>2. ASSUME NEW r \in Role, Push(r) PROVE TypeOK'
  BY <1>2 DEF Push
<1>3. ASSUME NEW r \in Role, Skip(r) PROVE TypeOK'
  BY <1>3 DEF Skip
<1>4. CASE Close
  BY <1>4 DEF Close
<1>5. CASE Wait
  BY <1>5 DEF Wait
<1>6. ASSUME NEW k \in Worker, Receive(k) PROVE TypeOK'
  BY <1>6 DEF Receive, Lines, loaderVars
<1>7. ASSUME NEW k \in Worker, Drained(k) PROVE TypeOK'
  BY <1>7 DEF Drained, Goto, loaderVars
<1>8. ASSUME NEW k \in Worker, Lock(k) PROVE TypeOK'
  BY <1>8 DEF Lock, Goto, loaderVars
<1>9. ASSUME NEW k \in Worker, Write(k) PROVE TypeOK'
  BY <1>9 DEF Write, Goto, loaderVars
<1>10. ASSUME NEW k \in Worker, Unlock(k) PROVE TypeOK'
  BY <1>10 DEF Unlock, Goto, loaderVars
<1>11. ASSUME NEW k \in Worker, Done(k) PROVE TypeOK'
  BY <1>11 DEF Done, Goto, loaderVars
<1>12. CASE UNCHANGED vars
  BY <1>12 DEF vars, loaderVars
<1> QED
  BY <1>1, <1>2, <1>3, <1>4, <1>5, <1>6, <1>7, <1>8, <1>9, <1>10, <1>11, <1>12
  DEF Next, Loader, Work

\* The types of PolicyLoad hold in every reachable state.
THEOREM LoadTypeCorrect == Spec => []TypeOK
<1>1. Init => TypeOK
  BY InitIInv DEF IInv
<1> QED BY <1>1, TypeStep, PTL DEF Spec

\* The loader and the workers pass their stages in order.
LEMMA StagesStep == IInv /\ [Next]_vars => Stages'
<1> SUFFICES ASSUME IInv, [Next]_vars PROVE Stages'
  OBVIOUS
<1> USE PolicyLoadAssumption DEF IInv, TypeOK, Stages, Locked
<1>1. CASE Start
  BY <1>1 DEF Start
<1>2. ASSUME NEW r \in Role, Push(r) PROVE Stages'
  BY <1>2 DEF Push
<1>3. ASSUME NEW r \in Role, Skip(r) PROVE Stages'
  BY <1>3 DEF Skip
<1>4. CASE Close
  BY <1>4 DEF Close
<1>5. CASE Wait
  BY <1>5 DEF Wait
<1>6. ASSUME NEW k \in Worker, Receive(k) PROVE Stages'
  BY <1>6 DEF Receive, Lines, loaderVars
<1>7. ASSUME NEW k \in Worker, Drained(k) PROVE Stages'
  BY <1>7 DEF Drained, Goto, loaderVars
<1>8. ASSUME NEW k \in Worker, Lock(k) PROVE Stages'
  BY <1>8 DEF Lock, Goto, loaderVars
<1>9. ASSUME NEW k \in Worker, Write(k) PROVE Stages'
  BY <1>9 DEF Write, Goto, loaderVars
<1>10. ASSUME NEW k \in Worker, Unlock(k) PROVE Stages'
  BY <1>10 DEF Unlock, Goto, loaderVars
<1>11. ASSUME NEW k \in Worker, Done(k) PROVE Stages'
  BY <1>11 DEF Done, Goto, loaderVars
<1>12. CASE UNCHANGED vars
  BY <1>12 DEF vars, loaderVars
<1> QED
  BY <1>1, <1>2, <1>3, <1>4, <1>5, <1>6, <1>7, <1>8, <1>9, <1>10, <1>11, <1>12
  DEF Next, Loader, Work

\* Writers of the shared buffer exclude one another.
LEMMA LockedStep == IInv /\ [Next]_vars => Locked'
<1> SUFFICES ASSUME IInv, [Next]_vars PROVE Locked'
  OBVIOUS
<1> USE PolicyLoadAssumption DEF IInv, TypeOK, Locked, Stages
<1>1. CASE Start
  BY <1>1 DEF Start
<1>2. ASSUME NEW r \in Role, Push(r) PROVE Locked'
  BY <1>2 DEF Push
<1>3. ASSUME NEW r \in Role, Skip(r) PROVE Locked'
  BY <1>3 DEF Skip
<1>4. CASE Close
  BY <1>4 DEF Close
<1>5. CASE Wait
  BY <1>5 DEF Wait
<1>6. ASSUME NEW k \in Worker, Receive(k) PROVE Locked'
  BY <1>6 DEF Receive, Lines, loaderVars
<1>7. ASSUME NEW k \in Worker, Drained(k) PROVE Locked'
  BY <1>7 DEF Drained, Goto, loaderVars
<1>8. ASSUME NEW k \in Worker, Lock(k) PROVE Locked'
  BY <1>8 DEF Lock, Goto, loaderVars
<1>9. ASSUME NEW k \in Worker, Write(k) PROVE Locked'
  BY <1>9 DEF Write, Goto, loaderVars
<1>10. ASSUME NEW k \in Worker, Unlock(k) PROVE Locked'
  BY <1>10 DEF Unlock, Goto, loaderVars
<1>11. ASSUME NEW k \in Worker, Done(k) PROVE Locked'
  BY <1>11 DEF Done, Goto, loaderVars
<1>12. CASE UNCHANGED vars
  BY <1>12 DEF vars, loaderVars
<1> QED
  BY <1>1, <1>2, <1>3, <1>4, <1>5, <1>6, <1>7, <1>8, <1>9, <1>10, <1>11, <1>12
  DEF Next, Loader, Work

\* A role is in one place at a time.
LEMMA RolesStep == IInv /\ [Next]_vars => Roles'
<1> SUFFICES ASSUME IInv, [Next]_vars PROVE Roles'
  OBVIOUS
<1> USE PolicyLoadAssumption DEF IInv, TypeOK, Roles, Stages
<1>1. CASE Start
  BY <1>1 DEF Start
<1>2. ASSUME NEW r \in Role, Push(r) PROVE Roles'
  BY <1>2 DEF Push
<1>3. ASSUME NEW r \in Role, Skip(r) PROVE Roles'
  BY <1>3 DEF Skip
<1>4. CASE Close
  BY <1>4 DEF Close
<1>5. CASE Wait
  BY <1>5 DEF Wait
<1>6. ASSUME NEW k \in Worker, Receive(k) PROVE Roles'
  BY <1>6 DEF Receive, Lines, loaderVars
<1>7. ASSUME NEW k \in Worker, Drained(k) PROVE Roles'
  BY <1>7 DEF Drained, Goto, loaderVars
<1>8. ASSUME NEW k \in Worker, Lock(k) PROVE Roles'
  BY <1>8 DEF Lock, Goto, loaderVars
<1>9. ASSUME NEW k \in Worker, Write(k) PROVE Roles'
  BY <1>9 DEF Write, Goto, loaderVars
<1>10. ASSUME NEW k \in Worker, Unlock(k) PROVE Roles'
  BY <1>10 DEF Unlock, Goto, loaderVars
<1>11. ASSUME NEW k \in Worker, Done(k) PROVE Roles'
  BY <1>11 DEF Done, Goto, loaderVars
<1>12. CASE UNCHANGED vars
  BY <1>12 DEF vars, loaderVars
<1> QED
  BY <1>1, <1>2, <1>3, <1>4, <1>5, <1>6, <1>7, <1>8, <1>9, <1>10, <1>11, <1>12
  DEF Next, Loader, Work

\* No step loses a line or makes one up.
LEMMA KeptStep == IInv /\ [Next]_vars => Kept'
<1> SUFFICES ASSUME IInv, [Next]_vars PROVE Kept'
  OBVIOUS
<1> USE PolicyLoadAssumption DEF IInv, TypeOK, Kept, Carried, Roles, Locked, Stages
<1>1. CASE Start
  BY <1>1 DEF Start
<1>2. ASSUME NEW r \in Role, Push(r) PROVE Kept'
  BY <1>2 DEF Push
<1>3. ASSUME NEW r \in Role, Skip(r) PROVE Kept'
  BY <1>3 DEF Skip
<1>4. CASE Close
  BY <1>4 DEF Close
<1>5. CASE Wait
  BY <1>5 DEF Wait
<1>6. ASSUME NEW k \in Worker, Receive(k) PROVE Kept'
  BY <1>6 DEF Receive, Lines, loaderVars
<1>7. ASSUME NEW k \in Worker, Drained(k) PROVE Kept'
  BY <1>7 DEF Drained, Goto, loaderVars
<1>8. ASSUME NEW k \in Worker, Lock(k) PROVE Kept'
  BY <1>8 DEF Lock, Goto, loaderVars
<1>9. ASSUME NEW k \in Worker, Write(k) PROVE Kept'
  BY <1>9 DEF Write, Goto, loaderVars
<1>10. ASSUME NEW k \in Worker, Unlock(k) PROVE Kept'
  BY <1>10 DEF Unlock, Goto, loaderVars
<1>11. ASSUME NEW k \in Worker, Done(k) PROVE Kept'
  BY <1>11 DEF Done, Goto, loaderVars
<1>12. CASE UNCHANGED vars
  BY <1>12 DEF vars, loaderVars
<1> QED
  BY <1>1, <1>2, <1>3, <1>4, <1>5, <1>6, <1>7, <1>8, <1>9, <1>10, <1>11, <1>12
  DEF Next, Loader, Work

\* The invariant holds in every reachable state.
LEMMA IInvAlways == Spec => []IInv
<1>1. IInv /\ [Next]_vars => IInv'
  BY TypeStep, StagesStep, LockedStep, RolesStep, KeptStep DEF IInv
<1> QED BY <1>1, InitIInv, PTL DEF Spec

\* When no worker is left, the shared buffer is the policy of the roles whose
\* queries did not fail.
LEMMA GatheredAll ==
  ASSUME IInv, pc = "wait", running = {}
  PROVE  buf = Pool!Policy(Role \ skipped)
<1> USE PolicyLoadAssumption DEF IInv, TypeOK
<1>1. \A k \in Worker : wpc[k] = "gone"
  BY DEF Stages
<1>2. queue = {} /\ todo = {}
  BY <1>1 DEF Stages
<1>3. \A x : ~Carried(x)
  BY <1>1 DEF Carried
<1>4. \A x \in Role \X Line : x \in buf <=> x[2] \in Granted[x[1]] /\ x[1] \notin skipped
  BY <1>2, <1>3 DEF Kept
<1>5. buf \subseteq Role \X Line
  OBVIOUS
<1>6. \A x \in Role \X Line : x[1] \in Role
  OBVIOUS
<1>7. \A x \in Role \X Line : x \in buf <=> x \in Pool!Policy(Role \ skipped)
  BY <1>4, <1>6 DEF Pool!Policy
<1>8. Pool!Policy(Role \ skipped) \subseteq Role \X Line
  BY DEF Pool!Policy
<1> QED BY <1>5, <1>7, <1>8

\* The pool implements PolicyGather: it gathers in one step, when the loader
\* leaves wg.Wait, and what it gathers is never touched again.
THEOREM PoolImplementsGather == Spec => PoolGathers
<1> DEFINE result == IF pc = "done" THEN buf ELSE Nil
           left == IF pc = "done" THEN skipped ELSE {}
<1>1. Init => Pool!Init
  BY DEF Init, Pool!Init
<1>2. IInv /\ [Next]_vars => [Pool!Gather]_<<result, left>>
  <2> SUFFICES ASSUME IInv, [Next]_vars PROVE [Pool!Gather]_<<result, left>>
    OBVIOUS
  <2> USE DEF IInv, TypeOK
  <2>1. CASE Wait
    <3>1. result = Nil /\ result' = buf /\ left' = skipped
      BY <2>1 DEF Wait
    <3>2. buf = Pool!Policy(Role \ skipped)
      BY <2>1, GatheredAll DEF Wait
    <3>3. skipped \in SUBSET Role
      OBVIOUS
    <3> QED BY <3>1, <3>2, <3>3 DEF Pool!Gather
  <2>2. ASSUME pc # "done", pc' # "done" PROVE UNCHANGED <<result, left>>
    BY <2>2
  <2>3. ASSUME UNCHANGED <<pc, buf, skipped>> PROVE UNCHANGED <<result, left>>
    BY <2>3
  <2>4. CASE Start
    BY <2>2, <2>4 DEF Start
  <2>5. ASSUME NEW r \in Role, Push(r) \/ Skip(r) PROVE UNCHANGED <<result, left>>
    BY <2>2, <2>5 DEF Push, Skip
  <2>6. CASE Close
    BY <2>2, <2>6 DEF Close
  <2>7. ASSUME NEW k \in Worker, Receive(k) \/ Drained(k) \/ Lock(k) \/ Unlock(k) \/ Done(k)
        PROVE UNCHANGED <<result, left>>
    BY <2>3, <2>7 DEF Receive, Drained, Lock, Unlock, Done, loaderVars
  <2>8. ASSUME NEW k \in Worker, Write(k) PROVE UNCHANGED <<result, left>>
    <3>1. pc # "done"
      BY <2>8 DEF Write, Stages
    <3> QED BY <2>2, <2>8, <3>1 DEF Write, loaderVars
  <2>9. CASE UNCHANGED vars
    BY <2>3, <2>9 DEF vars, loaderVars
  <2> QED BY <2>1, <2>4, <2>5, <2>6, <2>7, <2>8, <2>9 DEF Next, Loader, Work
<1> QED BY <1>1, <1>2, IInvAlways, PTL DEF Spec, PoolGathers, Pool!Spec

===============================================================================
