--------------------------- MODULE CacheStoreProofs ---------------------------
(* The three caches keep the promise of the interface Cacher, and what an     *)
(* iteration delivers is sound and complete, for any number of clients, keys, *)
(* values and pages.                                                          *)
EXTENDS CacheStore, TLAPS

Answers == Value \cup {Absent, "yes", "no", "more", "last"}
OneKeyOps == {"set", "setFor", "get", "exists", "delete", "getAndDelete"}
Ops == OneKeyOps \cup {"none", "iterate"}
Places == {"idle", "found", "paging", "iterating", "answered", "failed", "iterated", "stopped"}
Calls == [op : Ops, key : Key \cup {Absent}, val : Answers, pc : Places]
Entries == [Key -> [val : Value, left : 0..MaxLife] \cup {Absent}]
Iterating(c) == call[c].pc \in {"paging", "iterating"}
Delivered(c, k) == \E p \in out[c] : p[1] = k
Waiting(c, k) == \E p \in todo[c] : p[1] = k

\* Where a client is fits what it does; one without a call has left nothing.
Shaped(c) ==
    /\ call[c].pc = "found" => call[c].op \in {"delete", "getAndDelete"} /\ call[c].key \in Key
    /\ call[c].pc = "found" /\ call[c].op = "delete" => call[c].val = Absent
    /\ call[c].op = "iterate" <=> call[c].pc \in {"paging", "iterating", "iterated", "stopped"}
    /\ call[c].pc = "idle" => todo[c] = {} /\ out[c] = {} /\ scanned[c] = {}
    /\ call[c].pc = "paging" => kind = "redis" /\ todo[c] = {}
    /\ call[c].pc = "iterating" =>
          IF kind = "redis" THEN call[c].val \in {"more", "last"} ELSE call[c].val = Absent

\* The history of an iteration says what the cache had meanwhile.
Witnessed(c) ==
    /\ Iterating(c) => Pairs(live) \subseteq seen[c]
    /\ held[c] \subseteq Present(live)
    /\ call[c].op = "iterate" => out[c] \subseteq seen[c]
    /\ call[c].pc = "iterating" /\ kind # "redis" => todo[c] \subseteq seen[c]

\* A key that stayed was delivered, or it waits, or redis has not returned it
\* yet; after the last page it has.
Covered(c) ==
    /\ \A k \in held[c] :
          /\ Iterating(c) /\ (kind = "redis" => k \in scanned[c]) => Delivered(c, k) \/ Waiting(c, k)
          /\ call[c].pc = "iterated" => Delivered(c, k)
    /\ call[c].pc = "iterating" /\ call[c].val = "last" => held[c] \subseteq scanned[c]

ClientInv(c) == Shaped(c) /\ Witnessed(c) /\ Covered(c)
IInv == TypeOK /\ \A c \in Client : ClientInv(c)

-----------------------------------------------------------------------------
(* What the parts of the actions do.                                       *)

\* A counter below its bound may be raised.
LEMMA RaisedCounter == ASSUME NEW m \in Nat, NEW n \in 0..m, n < m PROVE n + 1 \in 0..m
OBVIOUS

\* A call has one of the shapes of TypeOK.
LEMMA CallTyped == TypeOK => call \in [Client -> Calls]
BY DEF TypeOK, Calls, Answers, Ops, OneKeyOps, Places, Ops, OneKeyOps, Places

\* Only the client that acts has another call afterwards.
LEMMA OneCall ==
  ASSUME TypeOK, NEW c \in Client, NEW k \in Calls, call' = [call EXCEPT ![c] = k]
  PROVE  call' \in [Client -> Calls] /\ call'[c] = k /\ \A o \in Client \ {c} : call'[o] = call[o]
BY CallTyped

\* A call on one key goes from one place to another.
LEMMA Becoming ==
  ASSUME TypeOK, NEW c \in Client, NEW op \in Ops, NEW k \in Key \cup {Absent}, NEW v \in Answers,
         NEW pc \in Places, Becomes(c, op, k, v, pc)
  PROVE  /\ call' \in [Client -> Calls] /\ \A o \in Client \ {c} : call'[o] = call[o]
         /\ call'[c].op = op /\ call'[c].key = k /\ call'[c].val = v /\ call'[c].pc = pc
<1>1. [op |-> op, key |-> k, val |-> v, pc |-> pc] \in Calls
  BY DEF Calls
<1>2. call'[c] = [op |-> op, key |-> k, val |-> v, pc |-> pc]
  BY <1>1, OneCall DEF Becomes
<1>. QED BY <1>1, <1>2, OneCall DEF Becomes

\* What fails asks for one key, or for none, and is no iteration.
LEMMA Failing ==
  ASSUME TypeOK, NEW c \in Client, RoundTripFails(c) \/ ClosedFails(c),
         call[c].pc = "found" => call[c].op \in {"delete", "getAndDelete"} /\ call[c].key \in Key
  PROVE  /\ call' \in [Client -> Calls] /\ \A o \in Client \ {c} : call'[o] = call[o]
         /\ call'[c].op \in OneKeyOps \cup {"none"} /\ call'[c].pc = "failed"
<1>1. \E op \in OneKeyOps \cup {"none"}, k \in Key \cup {Absent}, v \in Answers : Fails(c, op, k, v)
  <2>1. \A exp : SetOp(exp) \in OneKeyOps
    BY DEF SetOp, OneKeyOps
  <2>2. Absent \in Answers /\ Value \subseteq Answers
    BY DEF Answers
  <2>3. LookFails(c) \/ RemoveFails(c) \/ Fails(c, "none", Absent, Absent)
        \/ \E k \in Key, v \in Value, exp \in -1..MaxLife : Fails(c, SetOp(exp), k, v)
    BY DEF RoundTripFails, ClosedFails
  <2>. QED BY <2>1, <2>2, <2>3 DEF LookFails, RemoveFails, OneKeyOps
<1>. QED BY <1>1, Becoming DEF Fails, Ops, OneKeyOps, Places

\* An iteration begins.
LEMMA Starting ==
  ASSUME TypeOK, NEW c \in Client, StartIterating(c)
  PROVE  /\ call' \in [Client -> Calls] /\ \A o \in Client \ {c} : call'[o] = call[o]
         /\ call'[c].op = "iterate" /\ call'[c].val = Absent
         /\ call'[c].pc = IF kind = "redis" THEN "paging" ELSE "iterating"
<1>. DEFINE k == [NoCall EXCEPT !.op = "iterate", !.pc = IF kind = "redis" THEN "paging" ELSE "iterating"]
<1>1. k \in Calls
  BY DEF Calls, NoCall, Answers, Ops, Places
<1>2. /\ k.op = "iterate" /\ k.val = Absent
      /\ k.pc = IF kind = "redis" THEN "paging" ELSE "iterating"
  BY DEF NoCall
<1>3. call' = [call EXCEPT ![c] = k]
  BY DEF StartIterating
<1>. HIDE DEF k
<1>. QED BY <1>1, <1>2, <1>3, OneCall

\* The program counter of an iteration moves.
LEMMA Moving ==
  ASSUME TypeOK, NEW c \in Client, NEW s \in {"paging", "iterating", "iterated", "stopped"},
         call' = [call EXCEPT ![c].pc = s]
  PROVE  /\ call' \in [Client -> Calls] /\ \A o \in Client \ {c} : call'[o] = call[o]
         /\ call'[c].op = call[c].op /\ call'[c].val = call[c].val /\ call'[c].pc = s
<1>. DEFINE k == [call[c] EXCEPT !.pc = s]
<1>0. call[c] \in Calls
  BY CallTyped
<1>1. k \in Calls /\ k.op = call[c].op /\ k.val = call[c].val /\ k.pc = s
  BY <1>0 DEF Calls, Places
<1>3. call' = [call EXCEPT ![c] = k]
  OBVIOUS
<1>. HIDE DEF k
<1>. QED BY <1>1, <1>3, OneCall

\* A page of redis has come.
LEMMA Paged ==
  ASSUME TypeOK, NEW c \in Client, NEW s \in {"more", "last"},
         call' = [call EXCEPT ![c].pc = "iterating", ![c].val = s]
  PROVE  /\ call' \in [Client -> Calls] /\ \A o \in Client \ {c} : call'[o] = call[o]
         /\ call'[c].op = call[c].op /\ call'[c].val = s /\ call'[c].pc = "iterating"
<1>. DEFINE k == [[call[c] EXCEPT !.pc = "iterating"] EXCEPT !.val = s]
<1>0. call[c] \in Calls
  BY CallTyped
<1>1. k \in Calls /\ k.op = call[c].op /\ k.val = s /\ k.pc = "iterating"
  BY <1>0 DEF Calls, Answers, Places
<1>3. call' = [call EXCEPT ![c] = k]
  BY CallTyped
<1>. HIDE DEF k
<1>. QED BY <1>1, <1>3, OneCall

\* Entries are values, and what is there is a pair.
LEMMA Entered ==
  ASSUME TypeOK
  PROVE  /\ \A k \in Key : Val(k) \in Value \cup {Absent}
         /\ \A l \in Entries : Pairs(l) \subseteq Key \X Value /\ Present(l) \subseteq Key
         /\ live \in Entries
         /\ \A k \in Key, v \in Value, exp \in -1..MaxLife : [live EXCEPT ![k] = Entry(v, exp)] \in Entries
         /\ \A k \in Key : [live EXCEPT ![k] = Absent] \in Entries
<1>1. live \in Entries
  BY DEF TypeOK, Entries
<1>2. \A k \in Key : Val(k) \in Value \cup {Absent}
  BY <1>1 DEF Val, Entries
<1>3. \A l \in Entries : Pairs(l) \subseteq Key \X Value /\ Present(l) \subseteq Key
  BY DEF Pairs, Present, Entries
<1>4. \A v \in Value, exp \in -1..MaxLife : Entry(v, exp) \in [val : Value, left : 0..MaxLife] \cup {Absent}
  <2>. SUFFICES ASSUME NEW v \in Value, NEW exp \in -1..MaxLife
                PROVE  Entry(v, exp) \in [val : Value, left : 0..MaxLife] \cup {Absent}
    OBVIOUS
  <2>1. (IF exp > 0 THEN exp ELSE 0) \in 0..MaxLife
    BY CacheStoreAssumption
  <2>. QED BY <2>1 DEF Entry
<1>. QED BY <1>1, <1>2, <1>3, <1>4 DEF Entries

\* New entries, with the history of the iterations under way.
LEMMA Became ==
  ASSUME TypeOK, NEW l \in Entries, Become(l)
  PROVE  /\ live' = l /\ live' \in Entries
         /\ seen' \in [Client -> SUBSET (Key \X Value)] /\ held' \in [Client -> SUBSET Key]
         /\ \A c \in Client :
               /\ seen[c] \subseteq seen'[c] /\ (Iterating(c) => Pairs(l) \subseteq seen'[c])
               /\ held'[c] = held[c] \cap Present(l)
<1>1. Pairs(l) \subseteq Key \X Value
  BY Entered
<1>2. held \in [Client -> SUBSET Key] /\ seen \in [Client -> SUBSET (Key \X Value)]
  BY DEF TypeOK
<1>. QED BY <1>1, <1>2 DEF Become, Iterating

\* Age takes entries away or leaves them their value.
LEMMA Ages ==
  ASSUME NEW e \in [val : Value, left : 0..MaxLife] \cup {Absent}
  PROVE  /\ Aged(e) \in [val : Value, left : 0..MaxLife] \cup {Absent}
         /\ Aged(e) = Absent \/ (e # Absent /\ Aged(e).val = e.val)
<1>1. CASE e = Absent \/ e.left = 1
  BY <1>1 DEF Aged
<1>2. CASE e # Absent /\ e.left = 0
  BY <1>2 DEF Aged
<1>3. CASE e # Absent /\ e.left # 0 /\ e.left # 1
  <2>1. e.left \in 0..MaxLife /\ e.val \in Value
    BY <1>3
  <2>2. e.left - 1 \in 0..MaxLife
    BY <1>3, <2>1, CacheStoreAssumption
  <2>3. Aged(e) = [e EXCEPT !.left = @ - 1]
    BY <1>3 DEF Aged
  <2>. QED BY <1>3, <2>1, <2>2, <2>3
<1>. QED BY <1>1, <1>2, <1>3

-----------------------------------------------------------------------------
(* The invariant.                                                          *)

\* What may happen to the entries in a step.
Moved == Unseen \/ \E l \in Entries : Become(l)

\* The histories follow the entries.
LEMMA HistoryFollows ==
  ASSUME TypeOK, Moved
  PROVE  /\ live' \in Entries
         /\ seen' \in [Client -> SUBSET (Key \X Value)] /\ held' \in [Client -> SUBSET Key]
         /\ \A c \in Client :
               /\ seen[c] \subseteq seen'[c] /\ held'[c] \subseteq held[c]
               /\ held[c] \subseteq Present(live) => held'[c] \subseteq Present(live')
               /\ Iterating(c) /\ Pairs(live) \subseteq seen[c] => Pairs(live') \subseteq seen'[c]
<1>1. CASE Unseen
  BY <1>1, Entered DEF Unseen, TypeOK
<1>2. ASSUME NEW l \in Entries, Become(l)
      PROVE  /\ live' \in Entries
             /\ seen' \in [Client -> SUBSET (Key \X Value)] /\ held' \in [Client -> SUBSET Key]
             /\ \A c \in Client :
                   /\ seen[c] \subseteq seen'[c] /\ held'[c] \subseteq held[c]
                   /\ held'[c] \subseteq Present(live')
                   /\ Iterating(c) => Pairs(live') \subseteq seen'[c]
  BY <1>2, Became
<1>. QED BY <1>1, <1>2 DEF Moved

\* Who does not act keeps the invariant, whatever happens to the entries.
LEMMA Bystander ==
  ASSUME TypeOK, Moved, NEW c \in Client, ClientInv(c), kind' = kind,
         call'[c] = call[c], todo'[c] = todo[c], out'[c] = out[c], scanned'[c] = scanned[c]
  PROVE  ClientInv(c)'
<1>. USE DEF ClientInv
<1>1. /\ seen[c] \subseteq seen'[c] /\ held'[c] \subseteq held[c]
      /\ held[c] \subseteq Present(live) => held'[c] \subseteq Present(live')
      /\ Iterating(c) /\ Pairs(live) \subseteq seen[c] => Pairs(live') \subseteq seen'[c]
  BY HistoryFollows
<1>2. Shaped(c)'
  BY DEF Shaped
<1>3. Witnessed(c)'
  BY <1>1 DEF Witnessed, Iterating
<1>4. Covered(c)'
  BY <1>1 DEF Covered, Iterating, Delivered, Waiting
<1>. QED BY <1>2, <1>3, <1>4

\* So it is enough to look at the client that acts.
LEMMA ActorEnough ==
  ASSUME IInv, TypeOK', Moved, kind' = kind, NEW c \in Client, ClientInv(c)',
         \A o \in Client \ {c} : /\ call'[o] = call[o] /\ todo'[o] = todo[o]
                                 /\ out'[o] = out[o] /\ scanned'[o] = scanned[o]
  PROVE  IInv'
<1>1. ASSUME NEW o \in Client PROVE ClientInv(o)'
  BY <1>1, Bystander DEF IInv
<1>. QED BY <1>1 DEF IInv

\* A call that does not iterate, or no longer.
LEMMA NotIterating ==
  ASSUME IInv, Moved, UNCHANGED <<kind, shut, iterVars>>, NEW c \in Client,
         call' \in [Client -> Calls], \A o \in Client \ {c} : call'[o] = call[o],
         call'[c].op # "iterate", call'[c].pc \in {"answered", "failed", "found"},
         call'[c].pc = "found" => call'[c].op \in {"delete", "getAndDelete"} /\ call'[c].key \in Key,
         call'[c].pc = "found" /\ call'[c].op = "delete" => call'[c].val = Absent,
         calls' \in 0..MaxCalls, faults' \in 0..MaxFaults
  PROVE  IInv'
<1>1. TypeOK /\ ClientInv(c)
  BY DEF IInv
<1>2. TypeOK'
  BY <1>1, HistoryFollows DEF TypeOK, Calls, Answers, Ops, OneKeyOps, Places, Entries, iterVars
<1>3. held'[c] \subseteq Present(live')
  BY <1>1, HistoryFollows DEF ClientInv, Witnessed
<1>4. ClientInv(c)'
  BY <1>3 DEF ClientInv, Shaped, Witnessed, Covered, Iterating
<1>. QED BY <1>2, <1>4, ActorEnough DEF iterVars

\* A call begins within its bound.
LEMMA Begun == ASSUME TypeOK, NEW c \in Client, Begins(c)
               PROVE  calls' \in 0..MaxCalls /\ faults \in 0..MaxFaults /\ call[c] = NoCall
<1>1. MaxCalls \in Nat /\ calls \in 0..MaxCalls /\ calls < MaxCalls /\ calls' = calls + 1
  BY CacheStoreAssumption DEF Begins, TypeOK
<1>. QED BY <1>1, RaisedCounter DEF Begins, TypeOK

\* The operations on one key.
LEMMA OneKeyStep == ASSUME IInv, NEW c \in Client, OneKey(c) PROVE IInv'
<1>0. TypeOK /\ ClientInv(c) /\ calls \in 0..MaxCalls /\ faults \in 0..MaxFaults
  BY DEF IInv, TypeOK
<1>1. ASSUME NEW op \in OneKeyOps, NEW k \in Key, NEW v \in Answers, NEW pc \in {"answered", "found"},
             pc = "found" => op \in {"delete", "getAndDelete"}, pc = "found" /\ op = "delete" => v = Absent,
             calls' \in 0..MaxCalls, Moved, Becomes(c, op, k, v, pc), UNCHANGED <<kind, shut, iterVars, faults>>
      PROVE  IInv'
  <2>1. op \in Ops /\ op # "iterate" /\ pc \in Places
    BY DEF Ops, OneKeyOps, Places
  <2>2. /\ call'[c].op = op /\ call'[c].key = k /\ call'[c].pc = pc /\ call'[c].val = v
        /\ call' \in [Client -> Calls] /\ \A o \in Client \ {c} : call'[o] = call[o]
    BY <1>0, <1>1, <2>1, Becoming
  <2>. HIDE DEF IInv
  <2>. QED BY <1>0, <1>1, <2>1, <2>2, NotIterating
<1>. USE DEF OneKeyOps
<1>2. Value \subseteq Answers /\ Absent \in Answers /\ "yes" \in Answers /\ "no" \in Answers
  BY DEF Answers
<1>3. ASSUME NEW k \in Key, NEW v \in Value, NEW exp \in -1..MaxLife, Set(c, k, v, exp) PROVE IInv'
  <2>1. Moved /\ calls' \in 0..MaxCalls
    BY <1>0, <1>3, Entered, Begun DEF Set, Moved
  <2>. QED BY <1>1, <1>2, <1>3, <2>1 DEF Set, SetOp, Reply
<1>4. ASSUME NEW k \in Key, Get(c, k) \/ Exists(c, k) PROVE IInv'
  <2>1. Val(k) \in Answers /\ Moved /\ calls' \in 0..MaxCalls
    BY <1>0, <1>4, Entered, Begun DEF Answers, Get, Exists, Moved
  <2>2. \E op \in {"get", "exists"}, v \in Answers : Becomes(c, op, k, v, "answered")
    BY <1>2, <1>4, <2>1 DEF Get, Exists, Reply
  <2>. QED BY <1>1, <1>4, <2>1, <2>2 DEF Get, Exists
<1>5. ASSUME NEW k \in Key, Delete(c, k) PROVE IInv'
  <2>1. Moved /\ calls' \in 0..MaxCalls
    BY <1>0, <1>5, Entered, Begun DEF Delete, Moved
  <2>2. \E pc \in {"answered", "found"} : Becomes(c, "delete", k, Absent, pc)
    BY <1>5 DEF Delete, Reply, Found
  <2>. QED BY <1>1, <1>2, <1>5, <2>1, <2>2 DEF Delete
<1>6. ASSUME NEW k \in Key, GetAndDelete(c, k) PROVE IInv'
  <2>1. Val(k) \in Answers /\ Moved /\ calls' \in 0..MaxCalls
    BY <1>0, <1>6, Entered, Begun DEF Answers, GetAndDelete, Moved
  <2>2. \E v \in Answers, pc \in {"answered", "found"} : Becomes(c, "getAndDelete", k, v, pc)
    BY <1>2, <1>6, <2>1 DEF GetAndDelete, Reply, Found
  <2>. QED BY <1>1, <1>6, <2>1, <2>2 DEF GetAndDelete
<1>7. CASE Remove(c)
  <2>1. /\ call[c].key \in Key /\ call[c].val \in Answers /\ call[c].op \in {"delete", "getAndDelete"}
    BY <1>0, <1>7, CallTyped DEF Remove, ClientInv, Shaped, Calls
  <2>2. Moved
    BY <1>0, <1>7, <2>1, Entered DEF Remove, Moved
  <2>. QED BY <1>0, <1>1, <1>7, <2>1, <2>2 DEF Remove, Reply
<1>. QED BY <1>3, <1>4, <1>5, <1>6, <1>7 DEF OneKey

\* A call fails, with what it asked for done or not.
LEMMA FailStep == ASSUME IInv, NEW c \in Client, RoundTripFails(c) \/ ClosedFails(c) PROVE IInv'
<1>0. TypeOK /\ ClientInv(c) /\ calls \in 0..MaxCalls /\ faults \in 0..MaxFaults
  BY DEF IInv, TypeOK
<1>1. /\ call' \in [Client -> Calls] /\ \A o \in Client \ {c} : call'[o] = call[o]
      /\ call'[c].op # "iterate" /\ call'[c].pc = "failed"
      /\ UNCHANGED <<kind, shut, iterVars>>
  BY <1>0, Failing DEF RoundTripFails, ClosedFails, ClientInv, Shaped, OneKeyOps
<1>2. CASE RoundTripFails(c)
  <2>1. faults' \in 0..MaxFaults
    <3>1. MaxFaults \in Nat /\ faults < MaxFaults /\ faults' = faults + 1
      BY <1>2, CacheStoreAssumption DEF RoundTripFails
    <3>. QED BY <1>0, <3>1, RaisedCounter
  <2>2. calls' \in 0..MaxCalls
    BY <1>0, <1>2, Begun DEF RoundTripFails
  <2>3. call[c].pc = "found" => call[c].key \in Key
    BY <1>0 DEF ClientInv, Shaped
  <2>4. Moved
    BY <1>0, <1>2, <2>3, Entered DEF RoundTripFails, RemoveFails, Moved
  <2>. QED BY <1>1, <2>1, <2>2, <2>4, NotIterating
<1>3. CASE ClosedFails(c)
  <2>1. calls' \in 0..MaxCalls /\ faults' = faults /\ Moved
    BY <1>0, <1>3, Begun DEF ClosedFails, Moved
  <2>. QED BY <1>0, <1>1, <2>1, NotIterating
<1>. QED BY <1>2, <1>3

\* A call returns and leaves nothing.
LEMMA ReturnStep == ASSUME IInv, NEW c \in Client, Return(c) PROVE IInv'
<1>0. TypeOK /\ \A o \in Client : ClientInv(o)
  BY DEF IInv
<1>1. NoCall \in Calls /\ NoCall.op = "none" /\ NoCall.pc = "idle"
  BY DEF NoCall, Calls, Answers, Ops, Places
<1>2. call' \in [Client -> Calls] /\ call'[c] = NoCall /\ \A o \in Client \ {c} : call'[o] = call[o]
  BY <1>0, <1>1, OneCall DEF Return
<1>3. TypeOK'
  BY <1>0, <1>2 DEF Return, TypeOK, Calls, Answers, Ops, OneKeyOps, Places
<1>4. ClientInv(c)'
  BY <1>0, <1>1, <1>2 DEF Return, TypeOK, ClientInv, Shaped, Witnessed, Covered, Iterating
<1>5. ASSUME NEW o \in Client \ {c} PROVE ClientInv(o)'
  <2>1. /\ call'[o] = call[o] /\ todo'[o] = todo[o] /\ out'[o] = out[o] /\ scanned'[o] = scanned[o]
        /\ seen'[o] = seen[o] /\ held'[o] = held[o] /\ live' = live /\ kind' = kind
    BY <1>0, <1>2 DEF Return, TypeOK
  <2>. QED BY <1>0, <2>1 DEF ClientInv, Shaped, Witnessed, Covered, Iterating, Delivered, Waiting
<1>. QED BY <1>3, <1>4, <1>5 DEF IInv

\* An iteration begins with all that is there waiting, or with redis to ask.
LEMMA StartStep == ASSUME IInv, NEW c \in Client, StartIterating(c) PROVE IInv'
<1>0. TypeOK /\ \A o \in Client : ClientInv(o)
  BY DEF IInv
<1>1. /\ call' \in [Client -> Calls] /\ \A o \in Client \ {c} : call'[o] = call[o]
      /\ call'[c].op = "iterate" /\ call'[c].val = Absent
      /\ call'[c].pc = IF kind = "redis" THEN "paging" ELSE "iterating"
  BY <1>0, Starting
<1>2. /\ calls' \in 0..MaxCalls /\ faults' \in 0..MaxFaults
      /\ call[c] = NoCall /\ call[c].pc = "idle"
  BY <1>0, Begun DEF StartIterating, NoCall
<1>3. Pairs(live) \subseteq Key \X Value /\ Present(live) \subseteq Key
  BY <1>0, Entered
<1>4. TypeOK'
  BY <1>0, <1>1, <1>2, <1>3 DEF StartIterating, TypeOK, Calls, Answers, Ops, OneKeyOps, Places
<1>5. ClientInv(c)'
  <2>1. /\ todo'[c] = IF kind = "redis" THEN {} ELSE Pairs(live)
        /\ seen'[c] = Pairs(live) /\ held'[c] = Present(live)
        /\ out'[c] = {} /\ scanned'[c] = {} /\ kind' = kind /\ live' = live
    BY <1>0, <1>2 DEF StartIterating, TypeOK, ClientInv, Shaped
  <2>2. \A k \in Present(live) : \E p \in Pairs(live) : p[1] = k
    <3>1. \A k \in Present(live) : <<k, live[k].val>> \in Pairs(live) /\ <<k, live[k].val>>[1] = k
      BY DEF Pairs
    <3>. QED BY <3>1
  <2>3. Shaped(c)'
    BY <1>1, <2>1 DEF Shaped
  <2>4. Witnessed(c)'
    BY <1>1, <2>1 DEF Witnessed
  <2>5. Covered(c)'
    BY <1>1, <2>1, <2>2, CacheStoreAssumption DEF Covered, Waiting, Iterating
  <2>. QED BY <2>3, <2>4, <2>5 DEF ClientInv
<1>6. ASSUME NEW o \in Client \ {c} PROVE ClientInv(o)'
  <2>1. /\ call'[o] = call[o] /\ todo'[o] = todo[o] /\ out'[o] = out[o] /\ scanned'[o] = scanned[o]
        /\ seen'[o] = seen[o] /\ held'[o] = held[o] /\ live' = live /\ kind' = kind
    BY <1>0, <1>1 DEF StartIterating, TypeOK
  <2>. QED BY <1>0, <2>1 DEF ClientInv, Shaped, Witnessed, Covered, Iterating, Delivered, Waiting
<1>. QED BY <1>4, <1>5, <1>6 DEF IInv

\* The keys of a page wait to be delivered.
LEMMA PageStep == ASSUME IInv, NEW c \in Client, ScanPage(c) PROVE IInv'
<1>0. TypeOK /\ ClientInv(c) /\ call[c].pc = "paging"
  BY DEF IInv, ScanPage
<1>1. PICK ks \in SUBSET Present(live), last \in {"more", "last"} :
         /\ todo' = [todo EXCEPT ![c] = {<<k, Absent>> : k \in ks}]
         /\ scanned' = [scanned EXCEPT ![c] = @ \cup ks]
         /\ last = "last" => held[c] \subseteq scanned[c] \cup ks
         /\ call' = [call EXCEPT ![c].pc = "iterating", ![c].val = last]
  BY DEF ScanPage
<1>2. /\ call' \in [Client -> Calls] /\ \A o \in Client \ {c} : call'[o] = call[o]
      /\ call'[c].op = call[c].op /\ call'[c].val = last /\ call'[c].pc = "iterating"
  BY <1>0, <1>1, Paged
<1>3. ks \subseteq Key /\ {<<k, Absent>> : k \in ks} \subseteq Key \X (Value \cup {Absent})
  BY <1>0, Entered
<1>4. TypeOK'
  BY <1>0, <1>1, <1>2, <1>3 DEF ScanPage, Unseen, TypeOK, Calls, Answers, Ops, OneKeyOps, Places
<1>5. ClientInv(c)'
  <2>1. /\ todo'[c] = {<<k, Absent>> : k \in ks} /\ scanned'[c] = scanned[c] \cup ks
        /\ out' = out /\ live' = live /\ kind' = kind /\ seen' = seen /\ held' = held
    BY <1>0, <1>1 DEF ScanPage, Unseen, TypeOK
  <2>2. todo[c] = {} /\ kind = "redis" /\ call[c].op = "iterate"
    BY <1>0 DEF ClientInv, Shaped
  <2>3. Shaped(c)'
    BY <1>2, <2>1, <2>2 DEF Shaped
  <2>4. Witnessed(c)'
    BY <1>0, <1>2, <2>1, <2>2 DEF ClientInv, Witnessed, Iterating
  <2>5. \A k \in ks : Waiting(c, k)'
    <3>1. \A k \in ks : <<k, Absent>> \in todo'[c] /\ <<k, Absent>>[1] = k
      BY <2>1
    <3>. QED BY <3>1 DEF Waiting
  <2>6. \A k : Delivered(c, k) => Delivered(c, k)'
    BY <2>1 DEF Delivered
  <2>7. \A k : ~Waiting(c, k)
    BY <2>2 DEF Waiting
  <2>8. \A k \in held[c] : k \in scanned[c] => Delivered(c, k)
    BY <1>0, <2>2, <2>7 DEF ClientInv, Covered, Iterating
  <2>9. Covered(c)'
    BY <1>1, <1>2, <2>1, <2>2, <2>5, <2>6, <2>8 DEF Covered, Iterating
  <2>. QED BY <2>3, <2>4, <2>9 DEF ClientInv
<1>6. \A o \in Client \ {c} : todo'[o] = todo[o] /\ scanned'[o] = scanned[o] /\ out'[o] = out[o]
  BY <1>0, <1>1 DEF TypeOK, ScanPage
<1>7. Moved /\ kind' = kind
  BY DEF ScanPage, Moved
<1>. QED BY <1>2, <1>4, <1>5, <1>6, <1>7, ActorEnough

\* What is delivered waited; what is gone was not there all the time.
LEMMA DeliverStep ==
  ASSUME IInv, NEW c \in Client, NEW p \in Key \X (Value \cup {Absent}), Deliver(c, p) PROVE IInv'
<1>. DEFINE d == IF kind = "redis" THEN <<p[1], Val(p[1])>> ELSE p
            gone == kind = "redis" /\ live[p[1]] = Absent
<1>0. /\ TypeOK /\ ClientInv(c) /\ call[c].pc = "iterating" /\ p \in todo[c] /\ call[c].op = "iterate"
      /\ live' = live /\ seen' = seen /\ held' = held /\ kind' = kind /\ scanned' = scanned
      /\ UNCHANGED <<shut, calls, faults>>
  BY DEF IInv, Deliver, ClientInv, Shaped, Unseen
<1>1. /\ call' \in [Client -> Calls] /\ \A o \in Client \ {c} : call'[o] = call[o]
      /\ call'[c].op = call[c].op /\ call'[c].val = call[c].val
      /\ call'[c].pc \in {"iterating", "stopped"}
  <2>1. CASE call' = call
    BY <1>0, <2>1, CallTyped
  <2>2. CASE call' = [call EXCEPT ![c].pc = "stopped"]
    BY <1>0, <2>2, Moving
  <2>. QED BY <2>1, <2>2 DEF Deliver
<1>2. todo' = [todo EXCEPT ![c] = @ \ {p}] /\ out' = [out EXCEPT ![c] = IF gone THEN @ ELSE @ \cup {d}]
  <2>1. CASE gone
    BY <1>0, <2>1 DEF Deliver, TypeOK
  <2>2. CASE ~gone
    BY <1>0, <2>2 DEF Deliver
  <2>. QED BY <2>1, <2>2 DEF Deliver
<1>3. p[1] \in Key /\ d[1] = p[1] /\ d \in Key \X (Value \cup {Absent})
  BY <1>0, Entered
<1>4. ~gone => d \in seen[c]
  <2>1. CASE kind = "redis"
    <3>1. live[p[1]] # Absent => <<p[1], Val(p[1])>> \in Pairs(live)
      BY <1>3 DEF Pairs, Present, Val
    <3>. QED BY <1>0, <2>1, <3>1 DEF ClientInv, Witnessed, Iterating
  <2>2. CASE kind # "redis"
    BY <1>0, <2>2 DEF ClientInv, Witnessed
  <2>. QED BY <2>1, <2>2
<1>5. gone => p[1] \notin held[c]
  BY <1>0 DEF ClientInv, Witnessed, Present
<1>. HIDE DEF d, gone
<1>6. todo'[c] = todo[c] \ {p} /\ out'[c] = IF gone THEN out[c] ELSE out[c] \cup {d}
  BY <1>0, <1>2 DEF TypeOK
<1>7. TypeOK'
  BY <1>0, <1>1, <1>2, <1>3 DEF TypeOK, Calls, Answers, Ops, OneKeyOps, Places
<1>8. ClientInv(c)'
  <2>1. Shaped(c)'
    BY <1>0, <1>1 DEF ClientInv, Shaped
  <2>2. Witnessed(c)'
    BY <1>0, <1>1, <1>4, <1>6 DEF ClientInv, Witnessed, Iterating
  <2>3. ASSUME NEW k \in held[c], Delivered(c, k) \/ Waiting(c, k)
        PROVE  (Delivered(c, k) \/ Waiting(c, k))'
    <3>1. CASE Delivered(c, k)
      BY <1>6, <3>1 DEF Delivered
    <3>2. ASSUME NEW w \in todo[c], w[1] = k PROVE (Delivered(c, k) \/ Waiting(c, k))'
      <4>1. CASE w = p
        <5>1. d \in out'[c] /\ d[1] = k
          BY <1>3, <1>5, <1>6, <2>3, <3>2, <4>1
        <5>. QED BY <5>1 DEF Delivered
      <4>2. CASE w # p
        BY <1>6, <3>2, <4>2 DEF Waiting
      <4>. QED BY <4>1, <4>2
    <3>. QED BY <2>3, <3>1, <3>2 DEF Waiting
  <2>4. \A k \in held[c] : (kind = "redis" => k \in scanned[c]) => Delivered(c, k) \/ Waiting(c, k)
    BY <1>0 DEF ClientInv, Covered, Iterating
  <2>5. call[c].val = "last" => held[c] \subseteq scanned[c]
    BY <1>0 DEF ClientInv, Covered
  <2>6. Covered(c)'
    BY <1>0, <1>1, <2>3, <2>4, <2>5 DEF Covered
  <2>. QED BY <2>1, <2>2, <2>6 DEF ClientInv
<1>9. \A o \in Client \ {c} : todo'[o] = todo[o] /\ out'[o] = out[o]
  BY <1>0, <1>2 DEF TypeOK
<1>10. Moved
  BY <1>0 DEF Moved, Unseen
<1>. QED BY <1>0, <1>1, <1>7, <1>8, <1>9, <1>10, ActorEnough

\* With nothing waiting, the end of the last page is the end.
LEMMA PageDoneStep == ASSUME IInv, NEW c \in Client, PageDone(c) PROVE IInv'
<1>. DEFINE s == IF call[c].val = "more" THEN "paging" ELSE "iterated"
<1>0. /\ TypeOK /\ ClientInv(c) /\ call[c].pc = "iterating" /\ todo[c] = {} /\ call[c].op = "iterate"
      /\ UNCHANGED <<kind, live, shut, iterVars, seen, held, calls, faults>>
  BY DEF IInv, PageDone, ClientInv, Shaped
<1>1. /\ call' \in [Client -> Calls] /\ \A o \in Client \ {c} : call'[o] = call[o]
      /\ call'[c].op = "iterate" /\ call'[c].val = call[c].val /\ call'[c].pc = s
  BY <1>0, Moving DEF PageDone
<1>2. TypeOK'
  BY <1>0, <1>1 DEF TypeOK, Calls, Answers, Ops, OneKeyOps, Places, iterVars
<1>3. \A k : /\ ~Waiting(c, k)
             /\ Delivered(c, k)' <=> Delivered(c, k)
  BY <1>0 DEF Waiting, Delivered, iterVars
<1>4. CASE call[c].val = "more"
  <2>1. kind = "redis"
    BY <1>0, <1>4, CacheStoreAssumption DEF ClientInv, Shaped
  <2>2. Shaped(c)'
    BY <1>0, <1>1, <1>4, <2>1 DEF Shaped, iterVars
  <2>3. Witnessed(c)' /\ Covered(c)'
    BY <1>0, <1>1, <1>3, <1>4, <2>1 DEF ClientInv, Witnessed, Covered, Iterating, iterVars
  <2>. QED BY <1>0, <1>1, <1>2, <2>2, <2>3, ActorEnough DEF ClientInv, Moved, Unseen, iterVars
<1>5. CASE call[c].val # "more"
  <2>1. Shaped(c)'
    BY <1>0, <1>1, <1>5 DEF Shaped, iterVars
  <2>2. Witnessed(c)'
    BY <1>0, <1>1, <1>5 DEF ClientInv, Witnessed, Iterating, iterVars
  <2>3. \A k \in held[c] : Delivered(c, k)
    BY <1>0, <1>3, <1>5 DEF ClientInv, Shaped, Covered, Iterating
  <2>4. Covered(c)'
    BY <1>0, <1>1, <1>3, <1>5, <2>3 DEF Covered, Iterating, iterVars
  <2>. QED BY <1>0, <1>1, <1>2, <2>1, <2>2, <2>4, ActorEnough DEF ClientInv, Moved, Unseen, iterVars
<1>. QED BY <1>4, <1>5

\* A second passes, or the cache is closed.
LEMMA EntriesStep == ASSUME IInv, Tick \/ Close PROVE IInv'
<1>0. TypeOK
  BY DEF IInv
<1>1. UNCHANGED <<kind, call, iterVars, calls, faults>> /\ shut' \in BOOLEAN
  BY <1>0 DEF Tick, Close, TypeOK
<1>2. Moved
  <2>1. [k \in Key |-> Aged(live[k])] \in Entries
    BY <1>0, Entered, Ages DEF Entries
  <2>2. [k \in Key |-> Absent] \in Entries
    BY DEF Entries
  <2>. QED BY <2>1, <2>2 DEF Tick, Close, Moved
<1>3. TypeOK'
  BY <1>0, <1>1, <1>2, HistoryFollows DEF TypeOK, Entries, iterVars
<1>4. ASSUME NEW c \in Client PROVE ClientInv(c)'
  BY <1>1, <1>2, Bystander DEF IInv, iterVars
<1>. QED BY <1>3, <1>4 DEF IInv

\* Every step keeps the invariant.
LEMMA IInvStep == IInv /\ [Next]_vars => IInv'
<1>. SUFFICES ASSUME IInv, [Next]_vars PROVE IInv'
  OBVIOUS
<1>1. ASSUME NEW c \in Client, Iterate(c) PROVE IInv'
  BY <1>1, StartStep, PageStep, PageDoneStep, DeliverStep DEF Iterate
<1>2. CASE UNCHANGED vars
  BY <1>2 DEF vars, iterVars, IInv, TypeOK, ClientInv, Shaped, Witnessed, Covered, Iterating,
              Delivered, Waiting
<1>. QED BY <1>1, <1>2, OneKeyStep, FailStep, ReturnStep, EntriesStep DEF Next

\* The invariant holds in every reachable state.
LEMMA IInvAlways == Spec => []IInv
<1>1. Init => IInv
  <2>. SUFFICES ASSUME Init PROVE IInv
    OBVIOUS
  <2>1. calls \in 0..MaxCalls /\ faults \in 0..MaxFaults
    BY CacheStoreAssumption DEF Init
  <2>2. NoCall \in Calls /\ NoCall.op = "none" /\ NoCall.pc = "idle"
    BY DEF NoCall, Calls, Answers, Ops, Places
  <2>3. TypeOK
    BY <2>1, <2>2 DEF Init, TypeOK, Calls, Answers, Ops, OneKeyOps, Places
  <2>. QED BY <2>2, <2>3 DEF Init, IInv, ClientInv, Shaped, Witnessed, Covered, Iterating
<1>. QED BY <1>1, IInvStep, PTL DEF Spec

\* The entries, the calls and the iterations keep their types.
THEOREM CacheTypeCorrect == Spec => []TypeOK
<1>1. IInv => TypeOK
  BY DEF IInv
<1>. QED BY <1>1, IInvAlways, PTL

\* What Iterator delivers was there, and it misses nothing that stayed, for any
\* number of keys and pages and whatever comes, goes or expires meanwhile
\* (redis.go:136).
THEOREM IterationsAreFaithful == Spec => []IterationFaithful
<1>1. IInv => IterationFaithful
  <2>. SUFFICES ASSUME IInv, NEW c \in Client
                PROVE  /\ call[c].op = "iterate" => out[c] \subseteq seen[c]
                       /\ call[c].pc = "iterated" => held[c] \subseteq {p[1] : p \in out[c]}
    BY DEF IterationFaithful, IteratorSound, IteratorComplete
  <2>. QED BY DEF IInv, ClientInv, Witnessed, Covered, Delivered
<1>. QED BY <1>1, IInvAlways, PTL

-----------------------------------------------------------------------------
(* The promise of the interface.                                           *)

\* The store and the answers of Cacher, as the caches have them.
Store == [k \in Key |-> Val(k)]
Told == [c \in Client |-> AnswerOf(c)]

\* Entries that change at one key change the store there.
LEMMA StoreFollows ==
  ASSUME TypeOK, NEW k \in Key, NEW v, NEW e, e = Absent \/ e.val = v, live' = [live EXCEPT ![k] = e]
  PROVE  Store' = [Store EXCEPT ![k] = IF e = Absent THEN Absent ELSE v]
<1>1. \A x \in Key : live'[x] = IF x = k THEN e ELSE live[x]
  BY Entered DEF Entries
<1>2. \A x \in Key : Val(x)' = IF x = k THEN (IF e = Absent THEN Absent ELSE v) ELSE Val(x)
  BY <1>1 DEF Val
<1>. QED BY <1>2 DEF Store

\* Entries that do not change leave the store.
LEMMA StoreStays == live' = live => Store' = Store
BY DEF Store, Val

\* One client's step changes one answer.
LEMMA OneAnswer ==
  ASSUME NEW c \in Client, \A o \in Client \ {c} : call'[o] = call[o]
  PROVE  Told' = [Told EXCEPT ![c] = AnswerOf(c)']
<1>1. \A o \in Client \ {c} : AnswerOf(o)' = AnswerOf(o)
  BY DEF AnswerOf
<1>. QED BY <1>1 DEF Told

\* What the answers are.
LEMMA AnswerIs ==
  ASSUME NEW c \in Client
  PROVE  /\ call[c].op \in {"none", "iterate"} => Told[c] = Promise!Idle
         /\ call[c].pc = "found" /\ call[c].op = "delete" => Told[c] = Promise!Idle
         /\ call[c].pc = "found" /\ call[c].op = "getAndDelete" =>
               Told[c] = Promise!Taking(call[c].key, call[c].val)
         /\ call[c].op \in OneKeyOps /\ call[c].pc = "answered" =>
               Told[c] = Promise!Done(call[c].op, call[c].key, call[c].val)
         /\ call[c].op \in OneKeyOps /\ call[c].pc = "failed" =>
               Told[c] = Promise!Failed(call[c].op, call[c].key, call[c].val)
<1>. USE DEF Told, AnswerOf, OneKeyOps
<1>1. call[c].op \in {"none", "iterate"} => Told[c] = Promise!Idle
  BY DEF Promise!Idle
<1>2. call[c].pc = "found" /\ call[c].op = "delete" => Told[c] = Promise!Idle
  BY DEF Promise!Idle
<1>3. call[c].pc = "found" /\ call[c].op = "getAndDelete" =>
         Told[c] = Promise!Taking(call[c].key, call[c].val)
  BY DEF Promise!Taking
<1>4. call[c].op \in OneKeyOps /\ call[c].pc = "answered" =>
         Told[c] = Promise!Done(call[c].op, call[c].key, call[c].val)
  BY DEF Promise!Done
<1>5. call[c].op \in OneKeyOps /\ call[c].pc = "failed" =>
         Told[c] = Promise!Failed(call[c].op, call[c].key, call[c].val)
  BY DEF Promise!Failed
<1>. QED BY <1>1, <1>2, <1>3, <1>4, <1>5

\* And what they become.
LEMMA AnswerBecomes ==
  ASSUME NEW c \in Client, \A o \in Client \ {c} : call'[o] = call[o]
  PROVE  /\ call'[c].op \in {"none", "iterate"} \/ (call'[c].pc = "found" /\ call'[c].op = "delete")
            => Told' = [Told EXCEPT ![c] = Promise!Idle]
         /\ call'[c].pc = "found" /\ call'[c].op = "getAndDelete" =>
               Told' = [Told EXCEPT ![c] = Promise!Taking(call'[c].key, call'[c].val)]
         /\ call'[c].op \in OneKeyOps /\ call'[c].pc = "answered" =>
               Told' = [Told EXCEPT ![c] = Promise!Done(call'[c].op, call'[c].key, call'[c].val)]
         /\ call'[c].op \in OneKeyOps /\ call'[c].pc = "failed" =>
               Told' = [Told EXCEPT ![c] = Promise!Failed(call'[c].op, call'[c].key, call'[c].val)]
<1>. USE DEF OneKeyOps
<1>0. Told' = [Told EXCEPT ![c] = AnswerOf(c)']
  BY OneAnswer
<1>1. call'[c].op \in {"none", "iterate"} \/ (call'[c].pc = "found" /\ call'[c].op = "delete")
      => AnswerOf(c)' = Promise!Idle
  BY DEF AnswerOf, Promise!Idle
<1>2. call'[c].pc = "found" /\ call'[c].op = "getAndDelete" =>
         AnswerOf(c)' = Promise!Taking(call'[c].key, call'[c].val)
  BY DEF AnswerOf, Promise!Taking
<1>3. call'[c].op \in OneKeyOps /\ call'[c].pc = "answered" =>
         AnswerOf(c)' = Promise!Done(call'[c].op, call'[c].key, call'[c].val)
  BY DEF AnswerOf, Promise!Done
<1>4. call'[c].op \in OneKeyOps /\ call'[c].pc = "failed" =>
         AnswerOf(c)' = Promise!Failed(call'[c].op, call'[c].key, call'[c].val)
  BY DEF AnswerOf, Promise!Failed
<1>. QED BY <1>0, <1>1, <1>2, <1>3, <1>4

\* What no caller notices.
LEMMA Hides == Store' = Store /\ Told' = Told => UNCHANGED Promise!vars
BY DEF Store, Told, Promise!vars

\* A caller that stays idle notices nothing.
LEMMA StaysIdle ==
  ASSUME NEW c \in Client, Told[c] = Promise!Idle, Told' = [Told EXCEPT ![c] = Promise!Idle]
  PROVE  Told' = Told
BY DEF Told

\* An entry has its value, or is absent.
LEMMA EntryHas == \A v, exp : Entry(v, exp) = Absent \/ Entry(v, exp).val = v
<1>. SUFFICES ASSUME NEW v, NEW exp PROVE Entry(v, exp) = Absent \/ Entry(v, exp).val = v
  OBVIOUS
<1>1. [val |-> v, left |-> IF exp > 0 THEN exp ELSE 0].val = v
  OBVIOUS
<1>. QED BY <1>1 DEF Entry

\* A call on one key that comes to its end, or to what it has found.
LEMMA Tells ==
  ASSUME TypeOK, NEW c \in Client, NEW op \in OneKeyOps, NEW k \in Key, NEW v \in Answers
  PROVE  /\ Reply(c, op, k, v) => Told' = [Told EXCEPT ![c] = Promise!Done(op, k, v)]
         /\ Fails(c, op, k, v) => Told' = [Told EXCEPT ![c] = Promise!Failed(op, k, v)]
         /\ Found(c, op, k, v) /\ op = "getAndDelete" =>
               Told' = [Told EXCEPT ![c] = Promise!Taking(k, v)]
         /\ Found(c, op, k, v) /\ op = "delete" => Told' = [Told EXCEPT ![c] = Promise!Idle]
<1>1. op \in Ops /\ k \in Key \cup {Absent} /\ {"answered", "failed", "found"} \subseteq Places
  BY DEF Ops, Places
<1>2. ASSUME NEW pc \in {"answered", "failed", "found"}, Becomes(c, op, k, v, pc)
      PROVE  /\ \A o \in Client \ {c} : call'[o] = call[o]
             /\ call'[c].op = op /\ call'[c].key = k /\ call'[c].val = v /\ call'[c].pc = pc
  BY <1>1, <1>2, Becoming
<1>3. ASSUME Reply(c, op, k, v) PROVE Told' = [Told EXCEPT ![c] = Promise!Done(op, k, v)]
  <2>1. Becomes(c, op, k, v, "answered")
    BY <1>3 DEF Reply
  <2>2. /\ \A o \in Client \ {c} : call'[o] = call[o]
        /\ call'[c].op = op /\ call'[c].key = k /\ call'[c].val = v /\ call'[c].pc = "answered"
    BY <1>2, <2>1
  <2>. QED BY <1>3, <2>2, AnswerBecomes
<1>4. ASSUME Fails(c, op, k, v) PROVE Told' = [Told EXCEPT ![c] = Promise!Failed(op, k, v)]
  <2>1. Becomes(c, op, k, v, "failed")
    BY <1>4 DEF Fails
  <2>2. /\ \A o \in Client \ {c} : call'[o] = call[o]
        /\ call'[c].op = op /\ call'[c].key = k /\ call'[c].val = v /\ call'[c].pc = "failed"
    BY <1>2, <2>1
  <2>. QED BY <1>4, <2>2, AnswerBecomes
<1>5. ASSUME Found(c, op, k, v), op = "getAndDelete" PROVE Told' = [Told EXCEPT ![c] = Promise!Taking(k, v)]
  <2>1. Becomes(c, op, k, v, "found")
    BY <1>5 DEF Found
  <2>2. /\ \A o \in Client \ {c} : call'[o] = call[o]
        /\ call'[c].op = op /\ call'[c].key = k /\ call'[c].val = v /\ call'[c].pc = "found"
    BY <1>2, <2>1
  <2>. QED BY <1>5, <2>2, AnswerBecomes
<1>6. ASSUME Found(c, op, k, v), op = "delete" PROVE Told' = [Told EXCEPT ![c] = Promise!Idle]
  <2>1. Becomes(c, op, k, v, "found")
    BY <1>6 DEF Found
  <2>2. /\ \A o \in Client \ {c} : call'[o] = call[o]
        /\ call'[c].op = op /\ call'[c].key = k /\ call'[c].val = v /\ call'[c].pc = "found"
    BY <1>2, <2>1
  <2>. QED BY <1>6, <2>2, AnswerBecomes
<1>. QED BY <1>3, <1>4, <1>5, <1>6

\* A client that begins a call has been told nothing.
LEMMA BeginsIdle == ASSUME NEW c \in Client, Begins(c) PROVE Told[c] = Promise!Idle
BY AnswerIs DEF Begins, NoCall

\* The store after an entry was set.
LEMMA Stored ==
  ASSUME TypeOK, NEW k \in Key, NEW v \in Value, NEW exp \in -1..MaxLife,
         live' = [live EXCEPT ![k] = Entry(v, exp)]
  PROVE  /\ Store' = [Store EXCEPT ![k] = v] \/ Store' = [Store EXCEPT ![k] = Absent]
         /\ exp = -1 => Store' = [Store EXCEPT ![k] = v]
<1>1. Store' = [Store EXCEPT ![k] = IF Entry(v, exp) = Absent THEN Absent ELSE v]
  BY EntryHas, StoreFollows
<1>2. exp = -1 => Entry(v, exp) # Absent
  <2>1. 0 \in 0..MaxLife
    BY CacheStoreAssumption
  <2>2. [val |-> v, left |-> 0] # Absent
    BY <2>1, CacheStoreAssumption
  <2>. QED BY <2>2 DEF Entry
<1>. QED BY <1>1, <1>2

\* The operations on one key take effect as promised.
LEMMA OneKeyKeeps == ASSUME IInv, NEW c \in Client, OneKey(c) PROVE Promise!Next \/ UNCHANGED Promise!vars
<1>0. TypeOK /\ ClientInv(c) /\ \A k \in Key : Store[k] = Val(k)
  BY DEF IInv, Store
<1>1. Value \subseteq Answers /\ Absent \in Answers /\ "yes" \in Answers /\ "no" \in Answers
  BY DEF Answers
<1>2. {"set", "setFor", "get", "exists", "delete", "getAndDelete"} = OneKeyOps
  BY DEF OneKeyOps
<1>3. ASSUME NEW k \in Key, NEW v \in Value, NEW exp \in -1..MaxLife, Set(c, k, v, exp) PROVE Promise!Next
  <2>1. /\ Told[c] = Promise!Idle
        /\ Told' = [Told EXCEPT ![c] = Promise!Done(SetOp(exp), k, v)]
    BY <1>0, <1>1, <1>2, <1>3, BeginsIdle, Tells DEF Set, SetOp
  <2>2. live' = [live EXCEPT ![k] = Entry(v, exp)]
    BY <1>3 DEF Set, Become
  <2>3. CASE exp = -1
    <3>1. Promise!Set(c, k, v)
      BY <1>0, <2>1, <2>2, <2>3, Stored DEF SetOp, Promise!Set, Promise!Put, Promise!Answer, Store, Told
    <3>. QED BY <3>1 DEF Promise!Next
  <2>4. CASE exp # -1
    <3>1. Promise!SetFor(c, k, v)
      BY <1>0, <2>1, <2>2, <2>4, Stored DEF SetOp, Promise!SetFor, Promise!Put, Promise!Answer, Store, Told
    <3>. QED BY <3>1 DEF Promise!Next
  <2>. QED BY <2>3, <2>4
<1>4. ASSUME NEW k \in Key, Get(c, k) PROVE Promise!Next
  <2>1. Val(k) \in Answers /\ Store' = Store /\ Told[c] = Promise!Idle
    BY <1>0, <1>4, Entered, StoreStays, BeginsIdle DEF Answers, Get, Unseen
  <2>2. Told' = [Told EXCEPT ![c] = Promise!Done("get", k, Store[k])]
    BY <1>0, <1>2, <1>4, <2>1, Tells DEF Get
  <2>3. Promise!Get(c, k)
    BY <2>1, <2>2 DEF Promise!Get, Promise!Answer, Store, Told
  <2>. QED BY <2>3 DEF Promise!Next
<1>5. ASSUME NEW k \in Key, Exists(c, k) PROVE Promise!Next
  <2>1. Store' = Store /\ Told[c] = Promise!Idle
    BY <1>5, StoreStays, BeginsIdle DEF Exists, Unseen
  <2>2. live[k] # Absent <=> Store[k] # Absent
    BY <1>0, CacheStoreAssumption, Entered DEF Val, Entries
  <2>3. Told' = [Told EXCEPT ![c] = Promise!Done("exists", k, IF Store[k] # Absent THEN "yes" ELSE "no")]
    BY <1>0, <1>1, <1>2, <1>5, <2>2, Tells DEF Exists
  <2>4. Promise!Exists(c, k)
    BY <2>1, <2>3 DEF Promise!Exists, Promise!Answer, Store, Told
  <2>. QED BY <2>4 DEF Promise!Next
<1>6. ASSUME NEW k \in Key, Told[c] = Promise!Idle, Store' = [Store EXCEPT ![k] = Absent],
             Told' = [Told EXCEPT ![c] = Promise!Done("delete", k, Absent)]
      PROVE  Promise!Next
  <2>1. Promise!Delete(c, k)
    BY <1>6 DEF Promise!Delete, Promise!Put, Promise!Answer, Store, Told
  <2>. QED BY <2>1 DEF Promise!Next
<1>7. ASSUME NEW k \in Key, Delete(c, k) PROVE Promise!Next \/ UNCHANGED Promise!vars
  <2>1. Told[c] = Promise!Idle
    BY <1>7, BeginsIdle DEF Delete
  <2>2. CASE kind = "memory" \/ live[k] = Absent
    <3>1. Store' = [Store EXCEPT ![k] = Absent]
      <4>1. CASE kind = "memory"
        BY <1>0, <1>7, <4>1, StoreFollows DEF Delete, Become
      <4>2. CASE kind # "memory"
        BY <1>0, <1>7, <2>2, <4>2, StoreStays DEF Delete, Unseen, Store, Val
      <4>. QED BY <4>1, <4>2
    <3>2. Reply(c, "delete", k, Absent)
      BY <1>7, <2>2 DEF Delete
    <3>3. Told' = [Told EXCEPT ![c] = Promise!Done("delete", k, Absent)]
      BY <1>0, <1>1, <1>2, <3>2, Tells
    <3>. QED BY <1>6, <2>1, <3>1, <3>3
  <2>3. CASE kind # "memory" /\ live[k] # Absent
    <3>1. live' = live /\ Found(c, "delete", k, Absent)
      BY <1>7, <2>3 DEF Delete, Unseen
    <3>. QED BY <1>0, <1>1, <1>2, <2>1, <3>1, Tells, StaysIdle, StoreStays, Hides
  <2>. QED BY <2>2, <2>3
<1>8. ASSUME NEW k \in Key, GetAndDelete(c, k) PROVE Promise!Next
  <2>1. Val(k) \in Answers /\ Store' = Store /\ Told[c] = Promise!Idle
    BY <1>0, <1>8, Entered, StoreStays, BeginsIdle DEF Answers, GetAndDelete, Unseen
  <2>2. CASE live[k] = Absent
    <3>1. Store[k] = Absent
      BY <1>0, <2>2 DEF Val
    <3>2. Told' = [Told EXCEPT ![c] = Promise!Done("getAndDelete", k, Absent)]
      BY <1>0, <1>1, <1>2, <1>8, <2>2, Tells DEF GetAndDelete
    <3>3. Promise!TakeNothing(c, k)
      BY <2>1, <3>1, <3>2 DEF Promise!TakeNothing, Promise!Answer, Store, Told
    <3>. QED BY <3>3 DEF Promise!Next
  <2>3. CASE live[k] # Absent
    <3>1. Store[k] # Absent
      BY <1>0, <2>3, CacheStoreAssumption, Entered DEF Val, Entries
    <3>2. Told' = [Told EXCEPT ![c] = Promise!Taking(k, Store[k])]
      BY <1>0, <1>2, <1>8, <2>1, <2>3, Tells DEF GetAndDelete
    <3>3. Promise!Take(c, k)
      BY <2>1, <3>1, <3>2 DEF Promise!Take, Promise!Answer, Store, Told
    <3>. QED BY <3>3 DEF Promise!Next
  <2>. QED BY <2>2, <2>3
<1>9. CASE Remove(c)
  <2>. DEFINE op == call[c].op
              k == call[c].key
              v == call[c].val
  <2>1. /\ k \in Key /\ v \in Answers /\ call[c].pc = "found" /\ Reply(c, op, k, v)
        /\ live' = [live EXCEPT ![k] = Absent] /\ op \in {"delete", "getAndDelete"}
    BY <1>0, <1>9, CallTyped DEF Remove, ClientInv, Shaped, Calls, Become
  <2>2. Store' = [Store EXCEPT ![k] = Absent]
    BY <1>0, <2>1, StoreFollows
  <2>3. Told' = [Told EXCEPT ![c] = Promise!Done(op, k, v)]
    BY <1>0, <1>2, <2>1, Tells
  <2>4. CASE op = "delete"
    <3>1. Told[c] = Promise!Idle
      BY <2>1, <2>4, AnswerIs
    <3>2. v = Absent
      BY <1>0, <2>1, <2>4 DEF ClientInv, Shaped
    <3>. QED BY <1>6, <2>1, <2>2, <2>3, <2>4, <3>1, <3>2
  <2>5. CASE op = "getAndDelete"
    <3>1. Told[c] = Promise!Taking(k, v)
      BY <2>1, <2>5, AnswerIs
    <3>2. Told[c].is = "taking" /\ Told[c].key = k /\ Told[c].val = v
      BY <3>1 DEF Promise!Taking
    <3>3. Promise!Remove(c)
      BY <2>2, <2>3, <2>5, <3>2 DEF Promise!Remove, Promise!Put, Promise!Answer, Store, Told
    <3>. QED BY <3>3 DEF Promise!Next
  <2>. QED BY <2>1, <2>4, <2>5
<1>. QED BY <1>3, <1>4, <1>5, <1>7, <1>8, <1>9 DEF OneKey

\* A call that fails fails as promised, with what it asked for done or not.
LEMMA FailKeeps ==
  ASSUME IInv, NEW c \in Client, RoundTripFails(c) \/ ClosedFails(c)
  PROVE  Promise!Next \/ UNCHANGED Promise!vars
<1>0. TypeOK /\ ClientInv(c) /\ Absent \in Answers /\ Value \subseteq Answers
  BY DEF IInv, Answers
<1>1. CASE Begins(c) /\ LookFails(c) /\ live' = live
  <2>1. Told[c] = Promise!Idle /\ Store' = Store
    BY <1>1, BeginsIdle, StoreStays
  <2>2. ASSUME NEW k \in Key, NEW op \in {"get", "exists", "delete", "getAndDelete"}, Fails(c, op, k, Absent)
        PROVE  Promise!Next
    <3>1. Told' = [Told EXCEPT ![c] = Promise!Failed(op, k, Absent)]
      BY <1>0, <2>2, Tells DEF OneKeyOps
    <3>2. CASE op = "delete"
      <4>1. Promise!FailDelete(c, k)
        BY <2>1, <3>1, <3>2 DEF Promise!FailDelete, Promise!Answer, Store, Told
      <4>. QED BY <4>1 DEF Promise!Next
    <3>3. CASE op # "delete"
      <4>1. op \in Promise!Reads /\ Promise!FailRead(c, op, k)
        BY <2>1, <2>2, <3>1, <3>3 DEF Promise!FailRead, Promise!Reads, Promise!Answer, Store, Told
      <4>. QED BY <4>1 DEF Promise!Next
    <3>. QED BY <3>2, <3>3
  <2>3. CASE Fails(c, "none", Absent, Absent)
    <3>1. \A o \in Client \ {c} : call'[o] = call[o]
      BY <1>0, <2>3, Becoming DEF Fails, Ops, Places
    <3>2. call'[c].op = "none"
      BY <1>0, <2>3, Becoming DEF Fails, Ops, Places
    <3>. QED BY <2>1, <3>1, <3>2, AnswerBecomes, StaysIdle, Hides
  <2>. QED BY <1>1, <2>2, <2>3 DEF LookFails
<1>2. ASSUME NEW k \in Key, NEW v \in Value, NEW exp \in -1..MaxLife, Begins(c), Fails(c, SetOp(exp), k, v),
             live' = live \/ live' = [live EXCEPT ![k] = Entry(v, exp)]
      PROVE  Promise!Next
  <2>1. Told[c] = Promise!Idle /\ Told' = [Told EXCEPT ![c] = Promise!Failed(SetOp(exp), k, v)]
    BY <1>0, <1>2, BeginsIdle, Tells DEF SetOp, OneKeyOps
  <2>2. SetOp(exp) = IF exp = -1 THEN "set" ELSE "setFor"
    BY DEF SetOp
  <2>3. CASE live' = live
    <3>1. Promise!FailSet(c, k, v)
      BY <2>1, <2>2, <2>3, StoreStays DEF Promise!FailSet, Promise!Answer, Store, Told
    <3>. QED BY <3>1 DEF Promise!Next
  <2>4. CASE live' = [live EXCEPT ![k] = Entry(v, exp)]
    <3>1. Promise!FailSet(c, k, v)
      BY <1>0, <2>1, <2>2, <2>4, Stored DEF Promise!FailSet, Promise!Put, Promise!Answer, Store, Told
    <3>. QED BY <3>1 DEF Promise!Next
  <2>. QED BY <1>2, <2>3, <2>4
<1>3. CASE RemoveFails(c) /\ (live' = live \/ live' = [live EXCEPT ![call[c].key] = Absent])
  <2>. DEFINE op == call[c].op
              k == call[c].key
  <2>1. k \in Key /\ call[c].pc = "found" /\ Fails(c, op, k, Absent) /\ op \in {"delete", "getAndDelete"}
    BY <1>0, <1>3 DEF RemoveFails, ClientInv, Shaped
  <2>2. Told' = [Told EXCEPT ![c] = Promise!Failed(op, k, Absent)]
    BY <1>0, <2>1, Tells DEF OneKeyOps
  <2>3. Store' = Store \/ Store' = [Store EXCEPT ![k] = Absent]
    BY <1>0, <1>3, <2>1, StoreFollows, StoreStays
  <2>4. CASE op = "delete"
    <3>1. Told[c] = Promise!Idle
      BY <2>1, <2>4, AnswerIs
    <3>2. Promise!FailDelete(c, k)
      BY <2>2, <2>3, <2>4, <3>1 DEF Promise!FailDelete, Promise!Put, Promise!Answer, Store, Told
    <3>. QED BY <2>1, <3>2 DEF Promise!Next
  <2>5. CASE op = "getAndDelete"
    <3>1. Told[c] = Promise!Taking(k, call[c].val)
      BY <2>1, <2>5, AnswerIs
    <3>2. Told[c].is = "taking" /\ Told[c].key = k
      BY <3>1 DEF Promise!Taking
    <3>3. Promise!FailRemove(c)
      BY <2>2, <2>3, <2>5, <3>2 DEF Promise!FailRemove, Promise!Put, Promise!Answer, Store, Told
    <3>. QED BY <3>3 DEF Promise!Next
  <2>. QED BY <2>1, <2>4, <2>5
<1>4. CASE /\ call[c].pc \in {"paging", "iterating"} /\ live' = live
           /\ Fails(c, "none", Absent, Absent)
  <2>1. call[c].op = "iterate"
    BY <1>0, <1>4 DEF ClientInv, Shaped
  <2>2. /\ \A o \in Client \ {c} : call'[o] = call[o]
        /\ call'[c].op = "none"
    BY <1>0, <1>4, Becoming DEF Fails, Ops, Places
  <2>. QED BY <1>4, <2>1, <2>2, AnswerIs, AnswerBecomes, StaysIdle, StoreStays, Hides
<1>5. CASE RoundTripFails(c)
  <2>1. \/ RemoveFails(c) /\ (live' = live \/ live' = [live EXCEPT ![call[c].key] = Absent])
        \/ Begins(c) /\ \E k \in Key, v \in Value, exp \in -1..MaxLife :
              /\ Fails(c, SetOp(exp), k, v)
              /\ live' = live \/ live' = [live EXCEPT ![k] = Entry(v, exp)]
        \/ Begins(c) /\ LookFails(c) /\ live' = live
        \/ /\ call[c].pc \in {"paging", "iterating"} /\ live' = live
           /\ Fails(c, "none", Absent, Absent)
    BY <1>5 DEF RoundTripFails, Unseen, Become
  <2>. QED BY <1>1, <1>2, <1>3, <1>4, <2>1
<1>6. CASE ClosedFails(c)
  <2>1. /\ live' = live
        /\ \/ RemoveFails(c)
           \/ call[c].pc \in {"paging", "iterating"} /\ Fails(c, "none", Absent, Absent)
           \/ Begins(c) /\ (LookFails(c) \/ \E k \in Key, v \in Value, exp \in -1..MaxLife :
                                                 Fails(c, SetOp(exp), k, v))
    BY <1>6 DEF ClosedFails, Unseen
  <2>. QED BY <1>1, <1>2, <1>3, <1>4, <2>1
<1>. QED BY <1>5, <1>6

\* No caller notices how an iteration goes on.
LEMMA IterateKeeps == ASSUME IInv, NEW c \in Client, Iterate(c) PROVE UNCHANGED Promise!vars
<1>0. TypeOK /\ ClientInv(c) /\ live' = live
  BY DEF IInv, Iterate, StartIterating, ScanPage, PageDone, Deliver, Unseen
<1>1. ASSUME call[c] = NoCall \/ call[c].op = "iterate", call'[c].op = "iterate",
             \A o \in Client \ {c} : call'[o] = call[o]
      PROVE  UNCHANGED Promise!vars
  BY <1>0, <1>1, AnswerIs, AnswerBecomes, StaysIdle, StoreStays, Hides DEF NoCall
<1>2. CASE StartIterating(c)
  BY <1>0, <1>1, <1>2, Starting DEF StartIterating, Begins
<1>3. CASE ScanPage(c)
  <2>1. call[c].op = "iterate"
    BY <1>0, <1>3 DEF ScanPage, ClientInv, Shaped
  <2>2. \E s \in {"more", "last"} : call' = [call EXCEPT ![c].pc = "iterating", ![c].val = s]
    BY <1>3 DEF ScanPage
  <2>. QED BY <1>0, <1>1, <2>1, <2>2, Paged
<1>4. CASE PageDone(c)
  <2>1. call[c].op = "iterate"
    BY <1>0, <1>4 DEF PageDone, ClientInv, Shaped
  <2>2. \E s \in {"paging", "iterated"} : call' = [call EXCEPT ![c].pc = s]
    BY <1>4 DEF PageDone
  <2>. QED BY <1>0, <1>1, <2>1, <2>2, Moving
<1>5. ASSUME NEW p, Deliver(c, p) PROVE UNCHANGED Promise!vars
  <2>1. call[c].op = "iterate"
    BY <1>0, <1>5 DEF Deliver, ClientInv, Shaped
  <2>2. CASE call' = call
    BY <1>1, <2>1, <2>2
  <2>3. CASE call' = [call EXCEPT ![c].pc = "stopped"]
    BY <1>0, <1>1, <2>1, <2>3, Moving
  <2>. QED BY <1>5, <2>2, <2>3 DEF Deliver
<1>. QED BY <1>2, <1>3, <1>4, <1>5 DEF Iterate

\* A caller is idle again; one that iterated always was.
LEMMA ReturnKeeps ==
  ASSUME IInv, NEW c \in Client, Return(c) PROVE Promise!Next \/ UNCHANGED Promise!vars
<1>0. TypeOK /\ ClientInv(c) /\ Store' = Store
  BY StoreStays DEF IInv, Return
<1>1. NoCall \in Calls /\ NoCall.pc = "idle"
  BY DEF NoCall, Calls, Answers, Ops, Places
<1>2. Told' = [Told EXCEPT ![c] = Promise!Idle]
  BY <1>0, <1>1, OneCall, AnswerBecomes DEF Return, NoCall
<1>3. CASE call[c].op \in {"none", "iterate"}
  BY <1>0, <1>2, <1>3, AnswerIs, StaysIdle, Hides
<1>4. CASE call[c].op \in OneKeyOps
  <2>1. call[c].pc \in {"answered", "failed"}
    BY <1>0, <1>4 DEF Return, ClientInv, Shaped, OneKeyOps
  <2>2. \/ Told[c] = Promise!Done(call[c].op, call[c].key, call[c].val)
        \/ Told[c] = Promise!Failed(call[c].op, call[c].key, call[c].val)
    BY <1>4, <2>1, AnswerIs
  <2>3. Told[c].is \in {"done", "failed"}
    BY <2>2 DEF Promise!Done, Promise!Failed
  <2>4. Promise!Return(c)
    BY <1>0, <1>2, <2>3 DEF Promise!Return, Promise!Answer, Store, Told
  <2>. QED BY <2>4 DEF Promise!Next
<1>. QED BY <1>0, <1>3, <1>4, CallTyped DEF Calls, Ops

\* What expires or is forgotten fades.
LEMMA EntriesKeep == ASSUME IInv, Tick \/ Close PROVE Promise!Next \/ UNCHANGED Promise!vars
<1>0. TypeOK /\ call' = call /\ Told' = Told
  BY DEF IInv, Tick, Close, Told, AnswerOf
<1>1. ASSUME NEW l \in Entries, live' = l, \A k \in Key : l[k] = Absent \/ (live[k] # Absent /\ l[k].val = live[k].val)
      PROVE  Promise!Next
  <2>. DEFINE ks == {k \in Key : l[k] = Absent}
  <2>1. \A k \in Key : Val(k)' = IF k \in ks THEN Absent ELSE Val(k)
    BY <1>1 DEF Val
  <2>2. Promise!Fade(ks)
    BY <1>0, <2>1 DEF Promise!Fade, Told
  <2>. QED BY <2>2 DEF Promise!Next
<1>2. CASE Tick
  <2>1. \A k \in Key : live[k] \in [val : Value, left : 0..MaxLife] \cup {Absent}
    BY <1>0, Entered DEF Entries
  <2>2. [k \in Key |-> Aged(live[k])] \in Entries
    BY <2>1, Ages DEF Entries
  <2>3. live' = [k \in Key |-> Aged(live[k])]
    BY <1>2 DEF Tick, Become
  <2>. QED BY <1>1, <2>1, <2>2, <2>3, Ages
<1>3. CASE Close
  <2>1. CASE kind = "memory"
    BY <1>1, <1>3, <2>1 DEF Close, Become, Entries
  <2>2. CASE kind # "memory"
    BY <1>0, <1>3, <2>2, StoreStays, Hides DEF Close, Unseen
  <2>. QED BY <2>1, <2>2
<1>. QED BY <1>2, <1>3

\* Each of the three caches keeps the promise of the interface Cacher, with any
\* number of callers whose calls overlap (cache.go:12).
THEOREM CachesKeepPromise == Spec => KeepsPromise
<1>1. Init => Promise!Init
  <2>. SUFFICES ASSUME Init PROVE Promise!Init
    OBVIOUS
  <2>1. \A k \in Key : Val(k) = Absent
    BY DEF Init, Val
  <2>2. \A c \in Client : AnswerOf(c) = Promise!Idle
    BY DEF Init, AnswerOf, NoCall, Promise!Idle
  <2>. QED BY <2>1, <2>2 DEF Promise!Init
<1>2. IInv /\ [Next]_vars => Promise!Next \/ UNCHANGED Promise!vars
  <2>. SUFFICES ASSUME IInv, [Next]_vars PROVE Promise!Next \/ UNCHANGED Promise!vars
    OBVIOUS
  <2>1. CASE UNCHANGED vars
    BY <2>1, StoreStays, Hides DEF vars, Told, AnswerOf
  <2>. QED BY <2>1, OneKeyKeeps, FailKeeps, IterateKeeps, ReturnKeeps, EntriesKeep DEF Next
<1>3. IInv /\ [Next]_vars => [Promise!Next]_(Promise!vars)
  BY <1>2
<1>. QED BY <1>1, <1>3, IInvAlways, PTL DEF Spec, Promise!Spec, KeepsPromise

==============================================================================
