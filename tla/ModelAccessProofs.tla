------------------------- MODULE ModelAccessProofs -------------------------
(***************************************************************************)
(* Proofs about ModelAccess, for every set of users, models and calls,     *)
(* every lifetime and size of the cache and every bound on the delays.     *)
(***************************************************************************)
EXTENDS ModelAccess, FiniteSetTheorems, TLAPS

(***************************************************************************)
(* What a get and a set do to the dict of the cache (TtlCacheOps): both    *)
(* keep it finite and of its type, a get adds nothing, and a set adds one  *)
(* entry with a full lifetime in place of those of its key.                *)
(***************************************************************************)
LEMMA CompactEntries ==
    ASSUME NEW K, NEW V, NEW S, S \subseteq Entry(K, V), IsFiniteSet(S)
    PROVE  /\ Compact(S) \subseteq Entry(K, V)
           /\ IsFiniteSet(Compact(S))
           /\ \A e \in Compact(S) : \E f \in S :
                 e.key = f.key /\ e.value = f.value /\ e.expires = f.expires
  <1> DEFINE upTo(e) == {f \in S : f.place <= e.place}
             renumber == [e \in S |-> [e EXCEPT !.place = Cardinality(upTo(e))]]
  <1>1. Compact(S) = {renumber[e] : e \in S}
    BY DEF Compact
  <1>2. ASSUME NEW e \in S
        PROVE  Cardinality(upTo(e)) \in Nat \ {0}
    <2>1. upTo(e) \subseteq S /\ e \in upTo(e)
      BY DEF Entry
    <2>2. IsFiniteSet(upTo(e)) /\ Cardinality(upTo(e)) \in Nat
      BY <2>1, FS_Subset, FS_CardinalityType
    <2> QED
      BY <2>1, <2>2, FS_EmptySet
  <1>3. \A e \in S : /\ renumber[e] \in Entry(K, V)
                     /\ renumber[e].key = e.key
                     /\ renumber[e].value = e.value
                     /\ renumber[e].expires = e.expires
    BY <1>2 DEF Entry
  <1>4. renumber \in Surjection(S, Compact(S))
    BY <1>1 DEF Surjection
  <1>5. IsFiniteSet(Compact(S))
    BY <1>4, FS_Surjection
  <1> HIDE DEF renumber
  <1> QED
    BY <1>1, <1>3, <1>5

\* After a set: the new entry, and of the others what other keys held before.
LEMMA StoredEntries ==
    ASSUME NEW K, NEW V, NEW S, S \subseteq Entry(K, V), IsFiniteSet(S),
           NEW k \in K, NEW v \in V, NEW t \in Nat
    PROVE  /\ Stored(S, k, v, t) \subseteq Entry(K, V)
           /\ IsFiniteSet(Stored(S, k, v, t))
           /\ \A e \in Stored(S, k, v, t) :
                 \/ e.key = k /\ e.value = v /\ e.expires = t + Ttl
                 \/ \E f \in S : /\ f.key # k
                                 /\ e.key = f.key /\ e.value = f.value /\ e.expires = f.expires
  <1> DEFINE room == MakeRoom(Without(S, k), t)
             kept == Compact(room)
             new == [key |-> k, value |-> v, expires |-> t + Ttl,
                     place |-> Cardinality(kept) + 1]
  <1>1. room \subseteq S /\ \A f \in room : f.key # k
    BY DEF Without, MakeRoom, DropOldest
  <1>2. IsFiniteSet(room)
    BY <1>1, FS_Subset
  <1>3. /\ kept \subseteq Entry(K, V)
        /\ IsFiniteSet(kept)
        /\ \A e \in kept : \E f \in room :
              e.key = f.key /\ e.value = f.value /\ e.expires = f.expires
    <2>1. room \subseteq Entry(K, V)
      BY <1>1
    <2> HIDE DEF room
    <2> QED
      BY <1>2, <2>1, CompactEntries
  <1>4. Cardinality(kept) \in Nat
    BY <1>3, FS_CardinalityType
  <1>5. new \in Entry(K, V)
    <2> HIDE DEF kept
    <2> QED
      BY <1>4, CacheAssumption DEF Entry
  <1>6. Stored(S, k, v, t) = kept \cup {new}
    BY DEF Stored
  <1>7. IsFiniteSet(kept \cup {new})
    BY <1>3, FS_AddElement
  <1>8. new.key = k /\ new.value = v /\ new.expires = t + Ttl
    OBVIOUS
  <1> HIDE DEF kept, new, room
  <1> QED
    BY <1>1, <1>3, <1>5, <1>6, <1>7, <1>8

\* After a get: nothing the dict did not hold before.
LEMMA AfterGetEntries ==
    ASSUME NEW K, NEW V, NEW S, S \subseteq Entry(K, V), IsFiniteSet(S), NEW k, NEW t
    PROVE  /\ AfterGet(S, k, t) \subseteq Entry(K, V)
           /\ IsFiniteSet(AfterGet(S, k, t))
           /\ \A e \in AfterGet(S, k, t) : \E f \in S :
                 e.key = f.key /\ e.value = f.value /\ e.expires = f.expires
  <1> DEFINE left == {e \in S : ~ (e.key = k /\ Expired(e, t))}
  <1>1. left \subseteq Entry(K, V) /\ IsFiniteSet(left) /\ left \subseteq S
    BY FS_Subset
  <1>2. AfterGet(S, k, t) = Compact(left)
    BY DEF AfterGet
  <1> HIDE DEF left
  <1> QED
    BY <1>1, <1>2, CompactEntries

\* The history is the clock's for those permitted now, and never ahead of it.
ClockInv ==
    \A a \in Access :
        /\ lastSeen[a] <= now + 1
        /\ a \in permitted => lastSeen[a] = now + 1

\* No call waits longer than it may, and what it holds was given when allowed.
CallInv ==
    \A c \in Call : call[c].at # "idle" =>
        /\ now <= call[c].since + Patience(c)
        /\ call[c].at = "asking" => call[c].since <= now
        /\ call[c].at = "answered" =>
              /\ call[c].since <= call[c].asOf
              /\ call[c].asOf + 1 <= lastSeen[call[c].who]
        /\ call[c].at = "granted" =>
              /\ call[c].since <= call[c].asOf + Delay + Ttl
              /\ call[c].asOf + 1 <= lastSeen[call[c].who]

(***************************************************************************)
(* The inductive invariant.  RevocationReaches speaks of granted calls     *)
(* only; it follows from what is known of every cached schema              *)
(* (CacheIsJustified) and of every answer still on its way (CallInv).      *)
(***************************************************************************)
AccessInv == TypeOK /\ IsFiniteSet(cache) /\ ClockInv /\ CallInv /\ CacheIsJustified

\* What the type of a call says of it, await by await of fetch_schema.
LEMMA IdleCall == ASSUME TypeOK, NEW c \in Call
                  PROVE  /\ call[c].at = "idle" <=> call[c] = Idle
                         /\ call[c].at # "idle" => call[c].who \in Access /\ call[c].since \in Nat
                         /\ call[c].at \in {"answered", "granted"} => call[c].asOf \in Nat
                         /\ call[c].at \in {"idle", "asking", "answered", "refused", "granted"}
  BY DEF TypeOK, Calls, Idle

\* The invariant holds of an empty cache (Gateway.__init__).
LEMMA AccessInvInit == Init => AccessInv
  <1> SUFFICES ASSUME Init
               PROVE  AccessInv
    OBVIOUS
  <1>1. TypeOK
    BY DEF Init, TypeOK, Calls
  <1>2. IsFiniteSet(cache)
    BY FS_EmptySet DEF Init
  <1>3. ClockInv /\ CallInv /\ CacheIsJustified
    BY DEF Init, ClockInv, CallInv, Patience, CacheIsJustified, Idle
  <1> QED
    BY <1>1, <1>2, <1>3 DEF AccessInv

\* Every step of fetch_schema, of Power BI and of the clock keeps the invariant.
LEMMA AccessInvNext == AccessInv /\ [Next]_vars => AccessInv'
  <1> SUFFICES ASSUME AccessInv, [Next]_vars
               PROVE  AccessInv'
    OBVIOUS
  <1> USE DEF AccessInv
  <1>1. ASSUME NEW a \in Access, Grant(a)
        PROVE  AccessInv'
    <2>1. TypeOK' /\ IsFiniteSet(cache)'
      BY <1>1 DEF Grant, TypeOK
    <2>2. \A b \in Access : lastSeen[b] <= lastSeen'[b]
      BY <1>1 DEF Grant, TypeOK, ClockInv
    <2>3. ClockInv'
      BY <1>1 DEF Grant, TypeOK, ClockInv
    <2>4. CallInv'
      BY <1>1, <2>1, <2>2, IdleCall DEF Grant, TypeOK, CallInv, Patience
    <2>5. CacheIsJustified'
      BY <1>1, <2>1, <2>2 DEF Grant, TypeOK, CacheIsJustified, Entry
    <2> QED
      BY <2>1, <2>3, <2>4, <2>5
  <1>2. ASSUME NEW a \in Access, Revoke(a)
        PROVE  AccessInv'
    BY <1>2 DEF Revoke, TypeOK, ClockInv, CallInv, Patience, CacheIsJustified
  <1>3. ASSUME Tick
        PROVE  AccessInv'
    <2>1. TypeOK' /\ IsFiniteSet(cache)'
      BY <1>3 DEF Tick, TypeOK
    <2>2. \A b \in Access : lastSeen[b] <= lastSeen'[b]
      BY <1>3 DEF Tick, TypeOK, ClockInv
    <2>3. ClockInv'
      BY <1>3 DEF Tick, TypeOK, ClockInv
    <2>4. CallInv'
      BY <1>3, <2>1, <2>2, IdleCall, TimeAssumption DEF Tick, TypeOK, CallInv, Patience
    <2>5. CacheIsJustified'
      BY <1>3, <2>1, <2>2 DEF Tick, TypeOK, CacheIsJustified, Entry
    <2> QED
      BY <2>1, <2>3, <2>4, <2>5
  <1>4. ASSUME NEW c \in Call, NEW a \in Access, CacheHit(c, a)
        PROVE  AccessInv'
    <2>1. PICK e \in cache : /\ e.key = a /\ now <= e.expires
                             /\ call' = [call EXCEPT ![c] = Granted(a, now, e.value)]
      <3>1. PICK e \in Hits(cache, a, now) : call' = [call EXCEPT ![c] = Granted(a, now, e.value)]
        BY <1>4 DEF CacheHit
      <3>2. e \in cache /\ e.key = a /\ ~ (e.expires < now)
        BY <3>1 DEF Hits, Expired
      <3>3. now <= e.expires
        BY <3>2 DEF TypeOK, Entry
      <3> QED
        BY <3>1, <3>2, <3>3
    <2>2. e.value \in Nat /\ e.expires \in Nat
      BY <2>1 DEF TypeOK, Entry
    <2>3. TypeOK'
      BY <1>4, <2>1, <2>2 DEF CacheHit, TypeOK, Calls, Granted
    <2>4. CallInv'
      BY <1>4, <2>1, <2>2, TimeAssumption, CacheAssumption
      DEF CacheHit, CallInv, Patience, Granted, CacheIsJustified, TypeOK
    <2> QED
      BY <1>4, <2>3, <2>4 DEF CacheHit, ClockInv, CacheIsJustified
  <1>5. ASSUME NEW c \in Call, NEW a \in Access, CacheMiss(c, a)
        PROVE  AccessInv'
    <2>1. /\ cache' \subseteq Entry(Access, Nat) /\ IsFiniteSet(cache')
          /\ \A e \in cache' : \E f \in cache :
                e.key = f.key /\ e.value = f.value /\ e.expires = f.expires
      BY <1>5, AfterGetEntries DEF CacheMiss, TypeOK
    <2>2. TypeOK'
      BY <1>5, <2>1 DEF CacheMiss, TypeOK, Calls, Asking
    <2>3. CallInv'
      BY <1>5, TimeAssumption DEF CacheMiss, CallInv, Patience, Asking, TypeOK
    <2>4. CacheIsJustified'
      BY <1>5, <2>1 DEF CacheMiss, CacheIsJustified
    <2> QED
      BY <1>5, <2>1, <2>2, <2>3, <2>4 DEF CacheMiss, ClockInv
  <1>6. ASSUME NEW c \in Call, PowerBIAnswers(c)
        PROVE  AccessInv'
    <2>1. /\ call[c].at = "asking" /\ call[c].who \in Access /\ call[c].since \in Nat
          /\ call[c].since <= now /\ now <= call[c].since + Delay
      BY <1>6, IdleCall DEF PowerBIAnswers, CallInv, Patience
    <2>2. TypeOK'
      BY <1>6, <2>1 DEF PowerBIAnswers, TypeOK, Calls, Answered, Refused
    <2>3. CallInv'
      BY <1>6, <2>1 DEF PowerBIAnswers, CallInv, Patience, ClockInv, Answered, Refused, TypeOK
    <2> QED
      BY <1>6, <2>2, <2>3 DEF PowerBIAnswers, ClockInv, CacheIsJustified
  <1>7. ASSUME NEW c \in Call, SchemaArrives(c)
        PROVE  AccessInv'
    <2> DEFINE a == call[c].who
               asOf == call[c].asOf
    <2>1. /\ a \in Access /\ asOf \in Nat /\ call[c].since \in Nat /\ now \in Nat
          /\ now <= call[c].since + Delay /\ call[c].since <= asOf /\ asOf + 1 <= lastSeen[a]
      BY <1>7, IdleCall DEF SchemaArrives, CallInv, Patience, TypeOK
    <2>2. /\ cache' = Stored(cache, a, asOf, now)
          /\ call' = [call EXCEPT ![c] = Granted(a, now, asOf)]
          /\ UNCHANGED <<now, permitted, lastSeen>>
      BY <1>7 DEF SchemaArrives
    <2> HIDE DEF a, asOf
    <2>3. /\ cache' \subseteq Entry(Access, Nat)
          /\ IsFiniteSet(cache')
          /\ \A e \in cache' :
                \/ e.key = a /\ e.value = asOf /\ e.expires = now + Ttl
                \/ \E f \in cache : e.key = f.key /\ e.value = f.value /\ e.expires = f.expires
      <3> DEFINE stored == Stored(cache, a, asOf, now)
      <3>1. cache \subseteq Entry(Access, Nat) /\ IsFiniteSet(cache)
        BY DEF TypeOK
      <3>2. /\ stored \subseteq Entry(Access, Nat)
            /\ IsFiniteSet(stored)
            /\ \A e \in stored :
                  \/ e.key = a /\ e.value = asOf /\ e.expires = now + Ttl
                  \/ \E f \in cache : /\ f.key # a
                                      /\ e.key = f.key /\ e.value = f.value /\ e.expires = f.expires
        <4>1. a \in Access /\ asOf \in Nat /\ now \in Nat
          BY <2>1
        <4>2. stored \subseteq Entry(Access, Nat)
          BY <3>1, <4>1, StoredEntries
        <4>3. IsFiniteSet(stored)
          BY <3>1, <4>1, StoredEntries
        <4>4. \A e \in stored :
                 \/ e.key = a /\ e.value = asOf /\ e.expires = now + Ttl
                 \/ \E f \in cache : /\ f.key # a
                                     /\ e.key = f.key /\ e.value = f.value /\ e.expires = f.expires
          BY <3>1, <4>1, StoredEntries
        <4> QED
          BY <4>2, <4>3, <4>4
      <3> HIDE DEF stored
      <3>3. cache' = stored
        BY <2>2 DEF stored
      <3> QED
        BY <3>2, <3>3
    <2>4. TypeOK'
      BY <2>1, <2>2, <2>3 DEF TypeOK, Calls, Granted
    <2>5. CallInv'
      BY <2>1, <2>2, TimeAssumption, CacheAssumption DEF CallInv, Patience, Granted, TypeOK
    <2>6. CacheIsJustified'
      <3>1. now + Ttl <= asOf + Delay + Ttl
        BY <2>1, TimeAssumption, CacheAssumption
      <3> QED
        BY <2>1, <2>2, <2>3, <3>1 DEF CacheIsJustified
    <2> QED
      BY <2>2, <2>3, <2>4, <2>5, <2>6 DEF ClockInv
  <1>8. ASSUME NEW c \in Call, RequestFails(c) \/ TouchMemories(c)
        PROVE  AccessInv'
    <2>1. call' = [call EXCEPT ![c] = Idle] /\ UNCHANGED <<now, permitted, lastSeen, cache>>
      BY <1>8 DEF RequestFails, TouchMemories
    <2>2. TypeOK' /\ CallInv'
      BY <2>1 DEF TypeOK, Calls, CallInv, Patience, Idle
    <2> QED
      BY <2>1, <2>2 DEF ClockInv, CacheIsJustified
  <1>9. ASSUME Restart
        PROVE  AccessInv'
    BY <1>9, FS_EmptySet DEF Restart, TypeOK, Calls, ClockInv, CallInv, Patience, CacheIsJustified, Idle
  <1>10. CASE UNCHANGED vars
    BY <1>10 DEF vars, TypeOK, ClockInv, CallInv, Patience, CacheIsJustified
  <1> QED
    BY <1>1, <1>2, <1>3, <1>4, <1>5, <1>6, <1>7, <1>8, <1>9, <1>10 DEF Next, Progress

(***************************************************************************)
(* A call reaches the memories of a model only on a schema that Power BI   *)
(* gave its own user, permitted at that moment, at most Window ago.        *)
(***************************************************************************)
THEOREM AccessIsBounded ==
    Spec => [](TypeOK /\ CacheIsJustified /\ RevocationReaches /\ SchemaIsRecent)
  <1>1. AccessInv => TypeOK /\ CacheIsJustified /\ RevocationReaches /\ SchemaIsRecent
    <2> SUFFICES ASSUME AccessInv, NEW c \in Call, call[c].at = "granted"
                 PROVE  /\ lastSeen[call[c].who] > 0
                        /\ now + 1 <= lastSeen[call[c].who] + Window
                        /\ now <= call[c].asOf + Window
      BY DEF AccessInv, RevocationReaches, SchemaIsRecent
    <2>1. /\ now <= call[c].since + StoreDelay
          /\ call[c].since <= call[c].asOf + Delay + Ttl
          /\ call[c].asOf + 1 <= lastSeen[call[c].who]
      BY DEF AccessInv, CallInv, Patience
    <2>2. /\ now \in Nat /\ call[c].since \in Nat /\ call[c].asOf \in Nat
          /\ lastSeen[call[c].who] \in Nat
      BY IdleCall DEF AccessInv, TypeOK
    <2> QED
      BY <2>1, <2>2, TimeAssumption, CacheAssumption DEF Window
  <1> QED
    BY <1>1, AccessInvInit, AccessInvNext, PTL DEF Spec
=============================================================================
