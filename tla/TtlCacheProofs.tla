--------------------------- MODULE TtlCacheProofs ---------------------------
(***************************************************************************)
(* Proofs about TtlCache, for every set of keys and values, every lifetime *)
(* and every size.                                                         *)
(***************************************************************************)
EXTENDS TtlCache, FiniteSetTheorems, WellFoundedInduction, TLAPS

\* The entries of S at or before the place of e.
UpTo(S, e) == {f \in S : f.place <= e.place}

(***************************************************************************)
(* Renumbering keeps a dict finite, of its type, no larger, and every      *)
(* entry what it was but for its place.                                    *)
(***************************************************************************)
LEMMA CompactEntries ==
    ASSUME NEW K, NEW V, NEW S, S \subseteq Entry(K, V), IsFiniteSet(S)
    PROVE  /\ Compact(S) \subseteq Entry(K, V)
           /\ IsFiniteSet(Compact(S))
           /\ Cardinality(Compact(S)) <= Cardinality(S)
           /\ \A e \in Compact(S) : \E f \in S :
                 /\ e = [f EXCEPT !.place = Cardinality(UpTo(S, f))]
                 /\ e.key = f.key /\ e.value = f.value /\ e.expires = f.expires
  <1> DEFINE renumber == [e \in S |-> [e EXCEPT !.place = Cardinality(UpTo(S, e))]]
  <1>1. Compact(S) = {renumber[e] : e \in S}
    BY DEF Compact, UpTo
  <1>2. ASSUME NEW e \in S
        PROVE  Cardinality(UpTo(S, e)) \in Nat \ {0}
    <2>1. UpTo(S, e) \subseteq S /\ e \in UpTo(S, e)
      BY DEF UpTo, Entry
    <2>2. IsFiniteSet(UpTo(S, e)) /\ Cardinality(UpTo(S, e)) \in Nat
      BY <2>1, FS_Subset, FS_CardinalityType
    <2> QED
      BY <2>1, <2>2, FS_EmptySet
  <1>3. \A e \in S : /\ renumber[e] \in Entry(K, V)
                     /\ renumber[e] = [e EXCEPT !.place = Cardinality(UpTo(S, e))]
                     /\ renumber[e].key = e.key
                     /\ renumber[e].value = e.value
                     /\ renumber[e].expires = e.expires
    BY <1>2 DEF Entry
  <1>4. renumber \in Surjection(S, Compact(S))
    BY <1>1 DEF Surjection
  <1>5. IsFiniteSet(Compact(S)) /\ Cardinality(Compact(S)) <= Cardinality(S)
    BY <1>4, FS_Surjection
  <1> QED
    BY <1>1, <1>3, <1>5

\* Renumbering merges no entries of a dict, whose keys are distinct.
LEMMA CompactSize ==
    ASSUME NEW K, NEW V, NEW S, S \subseteq Entry(K, V), IsFiniteSet(S),
           \A e, f \in S : e.key = f.key => e = f
    PROVE  Cardinality(Compact(S)) = Cardinality(S)
  <1> DEFINE renumber == [e \in S |-> [e EXCEPT !.place = Cardinality(UpTo(S, e))]]
  <1>1. Compact(S) = {renumber[e] : e \in S}
    BY DEF Compact, UpTo
  <1>2. \A e \in S : renumber[e].key = e.key
    BY DEF Entry
  <1>3. renumber \in Surjection(S, Compact(S))
    BY <1>1 DEF Surjection
  <1>4. renumber \in [S -> Compact(S)] /\ \A e, f \in S : renumber[e] = renumber[f] => e = f
    <2>1. renumber \in [S -> Compact(S)]
      BY <1>1
    <2> HIDE DEF renumber
    <2> QED
      BY <1>2, <2>1
  <1>5. renumber \in Injection(S, Compact(S))
    BY <1>4 DEF Injection, IsInjective
  <1> HIDE DEF renumber
  <1> QED
    BY <1>3, <1>5, FS_Surjection

\* Making room only ever removes entries.
LEMMA MakeRoomSubset ==
    ASSUME NEW S, NEW t
    PROVE  MakeRoom(S, t) \subseteq S
  BY DEF MakeRoom, DropOldest

(***************************************************************************)
(* After a set, the dict holds the new entry, in the last place and with a *)
(* full lifetime, and besides it only entries of other keys it held before.*)
(***************************************************************************)
LEMMA StoredEntries ==
    ASSUME NEW K, NEW V, NEW S, S \subseteq Entry(K, V), IsFiniteSet(S),
           NEW k \in K, NEW v \in V, NEW t \in Nat
    PROVE  /\ Stored(S, k, v, t) \subseteq Entry(K, V)
           /\ IsFiniteSet(Stored(S, k, v, t))
           /\ \A e \in Stored(S, k, v, t) :
                 \/ e.key = k /\ e.value = v /\ e.expires = t + Ttl
                 \/ \E f \in S : /\ f.key # k
                                 /\ e.key = f.key /\ e.value = f.value /\ e.expires = f.expires
  <1> DEFINE room == MakeRoom(Without(S, k), t)
             kept == Compact(room)
             new == [key |-> k, value |-> v, expires |-> t + Ttl,
                     place |-> Cardinality(kept) + 1]
  <1>1. room \subseteq S /\ \A f \in room : f.key # k
    BY MakeRoomSubset DEF Without
  <1>2. IsFiniteSet(room)
    BY <1>1, FS_Subset
  <1>3. /\ kept \subseteq Entry(K, V)
        /\ IsFiniteSet(kept)
        /\ \A e \in kept : \E f \in room :
              e.key = f.key /\ e.value = f.value /\ e.expires = f.expires
    <2>1. room \subseteq Entry(K, V)
      BY <1>1
    <2> HIDE DEF room
    <2> QED
      BY <1>2, <2>1, CompactEntries
  <1>4. Cardinality(kept) \in Nat
    BY <1>3, FS_CardinalityType
  <1>5. new \in Entry(K, V)
    <2> HIDE DEF kept
    <2> QED
      BY <1>4, CacheAssumption DEF Entry
  <1>6. Stored(S, k, v, t) = kept \cup {new}
    BY DEF Stored
  <1>7. IsFiniteSet(kept \cup {new})
    BY <1>3, FS_AddElement
  <1>8. new.key = k /\ new.value = v /\ new.expires = t + Ttl
    OBVIOUS
  <1> HIDE DEF kept, new, room
  <1> QED
    BY <1>1, <1>3, <1>5, <1>6, <1>7, <1>8

\* After a get, the dict holds entries it held before.
LEMMA AfterGetEntries ==
    ASSUME NEW K, NEW V, NEW S, S \subseteq Entry(K, V), IsFiniteSet(S), NEW k, NEW t
    PROVE  /\ AfterGet(S, k, t) \subseteq Entry(K, V)
           /\ IsFiniteSet(AfterGet(S, k, t))
           /\ \A e \in AfterGet(S, k, t) : \E f \in S :
                 e.key = f.key /\ e.value = f.value /\ e.expires = f.expires
  <1> DEFINE left == {e \in S : ~ (e.key = k /\ Expired(e, t))}
  <1>1. left \subseteq Entry(K, V) /\ IsFiniteSet(left) /\ left \subseteq S
    BY FS_Subset
  <1>2. AfterGet(S, k, t) = Compact(left)
    BY DEF AfterGet
  <1> HIDE DEF left
  <1> QED
    BY <1>1, <1>2, CompactEntries

(***************************************************************************)
(* A dict that is not empty has a first entry.                             *)
(***************************************************************************)
LEMMA OldestExists ==
    ASSUME NEW S, S \subseteq Entry(Key, Value), IsFiniteSet(S), S # {}
    PROVE  Oldest(S) \in S /\ \A f \in S : Oldest(S).place <= f.place
  <1> DEFINE order == StrictSubsetOrdering(S)
             prefixes == {UpTo(S, e) : e \in S}
  <1>1. prefixes \subseteq FiniteSubsetsOf(S) /\ prefixes # {}
    <2>1. ASSUME NEW e \in S
          PROVE  UpTo(S, e) \in SUBSET S /\ IsFiniteSet(UpTo(S, e))
      <3>1. UpTo(S, e) \in SUBSET S
        BY DEF UpTo
      <3> QED
        BY <3>1, FS_Subset
    <2> QED
      BY <2>1 DEF FiniteSubsetsOf
  <1>2. IsWellFoundedOn(order, FiniteSubsetsOf(S))
    BY FS_StrictSubsetOrderingWellFounded
  <1>3. \E x \in prefixes : \A y \in prefixes : ~ (<<y, x>> \in order)
    <2> HIDE DEF prefixes, order
    <2> QED
      BY <1>1, <1>2, WFMin
  <1>4. PICK e \in S : \A f \in S : ~ (<<UpTo(S, f), UpTo(S, e)>> \in order)
    BY <1>3
  <1>5. ASSUME NEW f \in S, f.place < e.place
        PROVE  FALSE
    <2>1. e.place \in Nat /\ f.place \in Nat /\ \A g \in S : g.place \in Nat
      BY DEF Entry
    <2>2. UpTo(S, f) \subseteq UpTo(S, e) /\ UpTo(S, e) \subseteq S
      BY <1>5, <2>1 DEF UpTo
    <2>3. e \in UpTo(S, e) /\ e \notin UpTo(S, f)
      BY <1>5, <2>1 DEF UpTo
    <2>4. <<UpTo(S, f), UpTo(S, e)>> \in order
      BY <2>2, <2>3 DEF StrictSubsetOrdering
    <2> QED
      BY <1>4, <2>4
  <1>6. \A f \in S : e.place <= f.place
    BY <1>5 DEF Entry
  <1> QED
    BY <1>6 DEF Oldest

\* A dict within its limits: at most maxsize entries, one per key.
Within(S) ==
    /\ IsFiniteSet(S)
    /\ Cardinality(S) <= MaxSize
    /\ \A e, f \in S : e.key = f.key => e = f

\* After the evictions of set (gateway.py:73-78) there is room for one more entry.
LEMMA MakeRoomFits ==
    ASSUME NEW S, NEW t, S \subseteq Entry(Key, Value), Within(S)
    PROVE  /\ IsFiniteSet(MakeRoom(S, t))
           /\ Cardinality(MakeRoom(S, t)) < MaxSize
  <1> DEFINE alive == {e \in S : ~ Expired(e, t)}
  <1>1. /\ IsFiniteSet(S) /\ Cardinality(S) \in Nat /\ Cardinality(S) <= MaxSize
        /\ MaxSize \in Nat \ {0}
    BY FS_CardinalityType, CacheAssumption DEF Within
  <1>2. /\ alive \subseteq S /\ alive \subseteq Entry(Key, Value)
        /\ IsFiniteSet(alive) /\ Cardinality(alive) \in Nat /\ Cardinality(alive) <= MaxSize
    BY <1>1, FS_Subset, FS_CardinalityType
  <1>3. MakeRoom(S, t) = IF Cardinality(S) < MaxSize THEN S ELSE DropOldest(alive)
    BY DEF MakeRoom
  <1> HIDE DEF alive
  <1>4. CASE Cardinality(alive) < MaxSize
    BY <1>1, <1>2, <1>3, <1>4 DEF DropOldest
  <1>5. CASE ~ (Cardinality(alive) < MaxSize)
    <2>1. Cardinality(alive) = MaxSize /\ alive # {}
      BY <1>1, <1>2, <1>5, FS_EmptySet
    <2>2. Oldest(alive) \in alive
      BY <1>2, <2>1, OldestExists
    <2>3. /\ IsFiniteSet(alive \ {Oldest(alive)})
          /\ Cardinality(alive \ {Oldest(alive)}) = Cardinality(alive) - 1
      BY <1>2, <2>2, FS_RemoveElement
    <2> QED
      BY <1>1, <1>2, <1>3, <1>5, <2>1, <2>3 DEF DropOldest
  <1> QED
    BY <1>4, <1>5

\* Expired entries swept out (gateway.py:76), a dict is still within its limits.
LEMMA CompactWithin ==
    ASSUME NEW S, S \subseteq Entry(Key, Value), Within(S)
    PROVE  Within(Compact(S))
  <1>1. /\ IsFiniteSet(Compact(S))
        /\ Cardinality(Compact(S)) <= Cardinality(S)
        /\ \A e \in Compact(S) : \E f \in S :
              e = [f EXCEPT !.place = Cardinality(UpTo(S, f))] /\ e.key = f.key
    BY CompactEntries DEF Within
  <1>2. Cardinality(Compact(S)) \in Nat /\ Cardinality(S) \in Nat
    BY <1>1, FS_CardinalityType DEF Within
  <1>3. Cardinality(Compact(S)) <= MaxSize
    BY <1>1, <1>2, CacheAssumption DEF Within
  <1>4. \A e, f \in Compact(S) : e.key = f.key => e = f
    BY <1>1 DEF Within
  <1> QED
    BY <1>1, <1>3, <1>4 DEF Within

\* So is any part of a dict within its limits.
LEMMA SubsetWithin ==
    ASSUME NEW S, NEW T \in SUBSET S, Within(S)
    PROVE  Within(T)
  <1>1. IsFiniteSet(T) /\ Cardinality(T) <= Cardinality(S)
    BY FS_Subset DEF Within
  <1>2. Cardinality(T) \in Nat /\ Cardinality(S) \in Nat
    BY <1>1, FS_CardinalityType DEF Within
  <1> QED
    BY <1>1, <1>2, CacheAssumption DEF Within

\* So is a dict after set, whatever it held (gateway.py:71-79).
LEMMA StoredWithin ==
    ASSUME NEW S, S \subseteq Entry(Key, Value), Within(S),
           NEW k \in Key, NEW v \in Value, NEW t \in Nat
    PROVE  Within(Stored(S, k, v, t))
  <1> DEFINE others == Without(S, k)
             room == MakeRoom(others, t)
             kept == Compact(room)
             new == [key |-> k, value |-> v, expires |-> t + Ttl,
                     place |-> Cardinality(kept) + 1]
  <1>1. others \subseteq S /\ others \subseteq Entry(Key, Value) /\ \A e \in others : e.key # k
    BY DEF Without
  <1>2. Within(others)
    BY <1>1, SubsetWithin
  <1> HIDE DEF others
  <1>3. room \subseteq others /\ room \subseteq Entry(Key, Value) /\ \A e \in room : e.key # k
    BY <1>1, MakeRoomSubset
  <1>4. Cardinality(room) < MaxSize /\ IsFiniteSet(room)
    BY <1>1, <1>2, MakeRoomFits
  <1>5. Within(room)
    BY <1>2, <1>3, SubsetWithin
  <1> HIDE DEF room
  <1>6. /\ Within(kept)
        /\ Cardinality(kept) <= Cardinality(room)
        /\ \A e \in kept : \E f \in room : e.key = f.key
    BY <1>3, <1>5, CompactWithin, CompactEntries DEF Within
  <1>7. /\ IsFiniteSet(kept) /\ Cardinality(kept) \in Nat /\ Cardinality(kept) < MaxSize
    BY <1>4, <1>6, FS_CardinalityType, CacheAssumption DEF Within
  <1>8. Stored(S, k, v, t) = kept \cup {new}
    BY DEF Stored, others, room
  <1>9. new.key = k
    OBVIOUS
  <1> HIDE DEF kept, new
  <1>10. /\ IsFiniteSet(kept \cup {new})
         /\ Cardinality(kept \cup {new}) <= MaxSize
    BY <1>7, FS_AddElement, CacheAssumption
  <1>11. \A e, f \in kept \cup {new} : e.key = f.key => e = f
    BY <1>3, <1>6, <1>9 DEF Within
  <1> QED
    BY <1>8, <1>10, <1>11 DEF Within

(***************************************************************************)
(* The order of a dict: an entry before another expires no later.          *)
(***************************************************************************)
Ordered(S) == \A e, f \in S : e.place < f.place => e.expires <= f.expires

\* Renumbering keeps the order, and counts the places from 1 without gaps.
LEMMA CompactOrdered ==
    ASSUME NEW S, S \subseteq Entry(Key, Value), IsFiniteSet(S), Ordered(S)
    PROVE  /\ Ordered(Compact(S))
           /\ \A e \in Compact(S) : e.place <= Cardinality(S)
  <1>1. \A e \in Compact(S) : \E f \in S :
           /\ e = [f EXCEPT !.place = Cardinality(UpTo(S, f))]
           /\ e.expires = f.expires
    BY CompactEntries
  <1>2. \A f \in S : [f EXCEPT !.place = Cardinality(UpTo(S, f))].place = Cardinality(UpTo(S, f))
    BY DEF Entry
  <1>3. \A e \in Compact(S) : \E f \in S :
           e.place = Cardinality(UpTo(S, f)) /\ e.expires = f.expires
    BY <1>1, <1>2
  <1>4. ASSUME NEW f \in S
        PROVE  /\ IsFiniteSet(UpTo(S, f))
               /\ Cardinality(UpTo(S, f)) \in Nat
               /\ Cardinality(UpTo(S, f)) <= Cardinality(S)
    <2>1. UpTo(S, f) \in SUBSET S
      BY DEF UpTo
    <2>2. IsFiniteSet(UpTo(S, f)) /\ Cardinality(UpTo(S, f)) <= Cardinality(S)
      BY <2>1, FS_Subset
    <2> QED
      BY <2>2, FS_CardinalityType
  <1>5. ASSUME NEW f \in S, NEW g \in S, Cardinality(UpTo(S, f)) < Cardinality(UpTo(S, g))
        PROVE  f.place < g.place
    <2>1. SUFFICES ASSUME g.place <= f.place
                   PROVE  FALSE
      BY DEF Entry
    <2>2. UpTo(S, g) \in SUBSET UpTo(S, f)
      BY <2>1 DEF UpTo, Entry
    <2>3. Cardinality(UpTo(S, g)) <= Cardinality(UpTo(S, f))
      BY <1>4, <2>2, FS_Subset
    <2> QED
      BY <1>4, <1>5, <2>3
  <1>6. Ordered(Compact(S))
    BY <1>3, <1>5 DEF Ordered
  <1> QED
    BY <1>3, <1>4, <1>6

\* An entry added behind all others, and expiring no earlier, keeps the order.
LEMMA StoredOrdered ==
    ASSUME NEW S, S \subseteq Entry(Key, Value), Within(S), Ordered(S),
           NEW k \in Key, NEW v \in Value, NEW t \in Nat,
           \A e \in S : e.expires <= t + Ttl
    PROVE  Ordered(Stored(S, k, v, t))
  <1> DEFINE room == MakeRoom(Without(S, k), t)
             kept == Compact(room)
             new == [key |-> k, value |-> v, expires |-> t + Ttl,
                     place |-> Cardinality(kept) + 1]
  <1>1. room \in SUBSET S
    BY MakeRoomSubset DEF Without
  <1>2. /\ room \subseteq Entry(Key, Value)
        /\ Within(room)
        /\ Ordered(room)
        /\ \A e \in room : e.expires <= t + Ttl
    BY <1>1, SubsetWithin DEF Ordered
  <1>3. /\ IsFiniteSet(room)
        /\ \A e, f \in room : e.key = f.key => e = f
    BY <1>2 DEF Within
  <1> HIDE DEF room
  <1>4. /\ kept \subseteq Entry(Key, Value)
        /\ IsFiniteSet(kept)
        /\ \A e \in kept : \E f \in room : e.expires = f.expires
    BY <1>2, <1>3, CompactEntries
  <1>5. Cardinality(kept) = Cardinality(room)
    BY <1>2, <1>3, CompactSize
  <1>6. Ordered(kept) /\ \A e \in kept : e.place <= Cardinality(kept)
    BY <1>2, <1>3, <1>5, CompactOrdered
  <1>7. Stored(S, k, v, t) = kept \cup {new}
    BY DEF Stored, room
  <1>8. new.place = Cardinality(kept) + 1 /\ new.expires = t + Ttl
    OBVIOUS
  <1>9. Cardinality(kept) \in Nat /\ \A e \in kept : e.place \in Nat /\ e.expires <= t + Ttl
    BY <1>2, <1>4, FS_CardinalityType DEF Entry
  <1> HIDE DEF kept, new
  <1>10. Ordered(kept \cup {new})
    BY <1>6, <1>8, <1>9, CacheAssumption DEF Ordered
  <1> QED
    BY <1>7, <1>10

-----------------------------------------------------------------------------
(***************************************************************************)
(* The inductive invariant.  What a get may answer is decided by what the  *)
(* dict holds, so each entry has to agree with the last set of its key;    *)
(* and the order of expiry is kept because nothing in the dict was set     *)
(* later than now.                                                         *)
(***************************************************************************)
EntriesAreLast ==
    /\ \A k \in Key : last[k].set => last[k].at <= now
    /\ \A e \in items : /\ last[e.key].set
                        /\ e.value = last[e.key].value
                        /\ e.expires = last[e.key].at + Ttl

CacheInv ==
    /\ TypeOK
    /\ Within(items)
    /\ Ordered(items)
    /\ EntriesAreLast
    /\ NeverServedLate

\* The empty cache satisfies the invariant.
LEMMA CacheInvInit == Init => CacheInv
  <1> SUFFICES ASSUME Init
               PROVE  CacheInv
    OBVIOUS
  <1>1. Within(items)
    BY FS_EmptySet, CacheAssumption DEF Init, Within
  <1>2. TypeOK
    BY DEF Init, TypeOK, LastSets, Answers, NeverSet, Nothing
  <1>3. Ordered(items) /\ EntriesAreLast /\ NeverServedLate
    BY DEF Init, Ordered, EntriesAreLast, NeverServedLate, NeverSet, Nothing
  <1> QED
    BY <1>1, <1>2, <1>3 DEF CacheInv

\* A key that was set carries the record of its last set.
LEMMA LastSetType ==
    ASSUME TypeOK, NEW k \in Key, last[k].set
    PROVE  last[k].at \in Nat /\ last[k].value \in Value
  <1>1. last[k] \in LastSets
    BY DEF TypeOK
  <1>2. last[k] # NeverSet
    BY DEF NeverSet
  <1> QED
    BY <1>1, <1>2 DEF LastSets

\* A get keeps the invariant, and answers with the last set of the key.
LEMMA GetKeepsInv ==
    ASSUME CacheInv, NEW k \in Key, Get(k)
    PROVE  CacheInv'
  <1> DEFINE left == {e \in items : ~ (e.key = k /\ Expired(e, now))}
  <1>1. /\ items \subseteq Entry(Key, Value) /\ Within(items) /\ IsFiniteSet(items)
        /\ Ordered(items) /\ now \in Nat
    BY DEF CacheInv, TypeOK, Within
  <1>2. left \in SUBSET items /\ items' = Compact(left)
    BY DEF Get, AfterGet
  <1> HIDE DEF left
  <1>3. Within(left) /\ Ordered(left) /\ left \subseteq Entry(Key, Value) /\ IsFiniteSet(left)
    BY <1>1, <1>2, SubsetWithin DEF Ordered, Within
  <1>4. Within(items') /\ Ordered(items')
    BY <1>2, <1>3, CompactWithin, CompactOrdered
  <1>5. /\ items' \subseteq Entry(Key, Value)
        /\ \A e \in items' : \E f \in items :
              e.key = f.key /\ e.value = f.value /\ e.expires = f.expires
    BY <1>2, <1>3, CompactEntries
  <1>6. EntriesAreLast'
    BY <1>5 DEF Get, CacheInv, EntriesAreLast
  <1>7. seen' \in Answers /\ NeverServedLate'
    <2>1. CASE \E e \in Hits(items, k, now) :
                  seen' = [hit |-> TRUE, key |-> k, value |-> e.value, at |-> now]
      <3>1. PICK e \in items : /\ e.key = k /\ ~ (e.expires < now)
                               /\ seen' = [hit |-> TRUE, key |-> k, value |-> e.value, at |-> now]
        BY <2>1 DEF Hits, Expired
      <3>2. /\ e.value \in Value /\ e.expires \in Nat
            /\ last[k].set /\ e.value = last[k].value /\ e.expires = last[k].at + Ttl
        BY <1>1, <3>1 DEF CacheInv, EntriesAreLast, Entry
      <3> QED
        BY <1>1, <3>1, <3>2 DEF Get, Answers, NeverServedLate
    <2>2. CASE seen' = Nothing
      BY <2>2 DEF Answers, NeverServedLate, Nothing
    <2> QED
      BY <2>1, <2>2 DEF Get
  <1>8. TypeOK'
    BY <1>5, <1>7 DEF Get, CacheInv, TypeOK
  <1> QED
    BY <1>4, <1>6, <1>7, <1>8 DEF CacheInv

\* A set keeps the invariant.
LEMMA SetKeepsInv ==
    ASSUME CacheInv, NEW k \in Key, NEW v \in Value, Set(k, v)
    PROVE  CacheInv'
  <1>1. /\ items \subseteq Entry(Key, Value) /\ Within(items) /\ IsFiniteSet(items)
        /\ Ordered(items) /\ now \in Nat /\ last \in [Key -> LastSets]
    BY DEF CacheInv, TypeOK, Within
  <1>2. items' = Stored(items, k, v, now)
    BY DEF Set
  <1>3. ASSUME NEW e \in items
        PROVE  e.expires <= now + Ttl
    <2>1. e.key \in Key
      BY <1>1 DEF Entry
    <2>2. last[e.key].set /\ e.expires = last[e.key].at + Ttl /\ last[e.key].at <= now
      BY <2>1 DEF CacheInv, EntriesAreLast
    <2>3. last[e.key].at \in Nat
      BY <2>1, <2>2, LastSetType DEF CacheInv
    <2> QED
      BY <1>1, <2>2, <2>3, CacheAssumption
  <1>4. Within(items')
    BY <1>1, <1>2, StoredWithin
  <1>5. Ordered(items')
    BY <1>1, <1>2, <1>3, StoredOrdered
  <1>6. /\ items' \subseteq Entry(Key, Value)
        /\ \A e \in items' :
              \/ e.key = k /\ e.value = v /\ e.expires = now + Ttl
              \/ \E f \in items : /\ f.key # k
                                  /\ e.key = f.key /\ e.value = f.value /\ e.expires = f.expires
    BY <1>1, <1>2, StoredEntries
  <1>7. /\ last' \in [Key -> LastSets]
        /\ last'[k] = [set |-> TRUE, value |-> v, at |-> now]
        /\ \A j \in Key : j # k => last'[j] = last[j]
        /\ now' = now
    BY <1>1 DEF Set, LastSets
  <1>8. \A j \in Key : last'[j].set => last'[j].at <= now'
    BY <1>1, <1>7 DEF CacheInv, EntriesAreLast
  <1>9. \A e \in items' : /\ last'[e.key].set
                         /\ e.value = last'[e.key].value
                         /\ e.expires = last'[e.key].at + Ttl
    <2>1. SUFFICES ASSUME NEW e \in items'
                   PROVE  /\ last'[e.key].set
                          /\ e.value = last'[e.key].value
                          /\ e.expires = last'[e.key].at + Ttl
      OBVIOUS
    <2>2. CASE e.key = k /\ e.value = v /\ e.expires = now + Ttl
      BY <1>7, <2>2
    <2>3. CASE \E f \in items : /\ f.key # k
                                /\ e.key = f.key /\ e.value = f.value /\ e.expires = f.expires
      <3>1. PICK f \in items : /\ f.key # k
                               /\ e.key = f.key /\ e.value = f.value /\ e.expires = f.expires
        BY <2>3
      <3>2. f.key \in Key
        BY <1>1 DEF Entry
      <3> QED
        BY <1>7, <3>1, <3>2 DEF CacheInv, EntriesAreLast
    <2> QED
      BY <1>6, <2>2, <2>3
  <1>10. TypeOK' /\ NeverServedLate'
    BY <1>1, <1>6, <1>7 DEF Set, TypeOK, Answers, NeverServedLate, Nothing
  <1> QED
    BY <1>4, <1>5, <1>8, <1>9, <1>10 DEF CacheInv, EntriesAreLast

\* Every step keeps the invariant.
LEMMA CacheInvNext == CacheInv /\ [Next]_vars => CacheInv'
  <1> SUFFICES ASSUME CacheInv, [Next]_vars
               PROVE  CacheInv'
    OBVIOUS
  <1>1. ASSUME NEW k \in Key, Get(k)
        PROVE  CacheInv'
    BY <1>1, GetKeepsInv
  <1>2. ASSUME NEW k \in Key, NEW v \in Value, Set(k, v)
        PROVE  CacheInv'
    BY <1>2, SetKeepsInv
  <1>3. CASE Tick
    <2>1. Within(items') /\ Ordered(items')
      BY <1>3 DEF Tick, CacheInv
    <2>2. now \in Nat /\ now' = now + 1 /\ items' = items /\ last' = last
      BY <1>3 DEF Tick, CacheInv, TypeOK
    <2>3. EntriesAreLast'
      <3>1. \A k \in Key : last[k].set => last[k].at \in Nat /\ last[k].at <= now
        BY LastSetType DEF CacheInv, EntriesAreLast
      <3> QED
        BY <2>2, <3>1 DEF CacheInv, EntriesAreLast
    <2>4. TypeOK' /\ NeverServedLate'
      BY <1>3 DEF Tick, CacheInv, TypeOK, Answers, NeverServedLate, Nothing
    <2> QED
      BY <2>1, <2>3, <2>4 DEF CacheInv
  <1>4. CASE UNCHANGED vars
    BY <1>4 DEF vars, CacheInv, TypeOK, Within, Ordered, EntriesAreLast, NeverServedLate
  <1> QED
    BY <1>1, <1>2, <1>3, <1>4 DEF Next

(***************************************************************************)
(* For every set of keys and values, every lifetime and every size: the    *)
(* cache holds maxsize entries at most and one per key, evicts in the      *)
(* order of expiry, and never answers with a value that was overwritten or *)
(* that has outlived its lifetime (TtlCache, gateway.py:49-79).            *)
(***************************************************************************)
THEOREM CacheIsSound ==
    Spec => [](TypeOK /\ SizeBounded /\ OldestExpiresFirst /\ NeverServedLate)
  <1>1. CacheInv => TypeOK /\ SizeBounded /\ OldestExpiresFirst /\ NeverServedLate
    BY DEF CacheInv, Within, Ordered, SizeBounded, OldestExpiresFirst
  <1> QED
    BY <1>1, CacheInvInit, CacheInvNext, PTL DEF Spec

\* An entry a set takes away is of that key, expired, or the oldest of a full cache.
LEMMA SetKeepsLive ==
    ASSUME CacheInv, NEW k \in Key, NEW v \in Value, Set(k, v),
           NEW e \in items, ~ Expired(e, now), \A f \in items' : f.key # e.key
    PROVE  /\ Cardinality({f \in items : ~ Expired(f, now)}) = MaxSize
           /\ \A f \in items : e.place <= f.place
  <1> DEFINE others == Without(items, k)
             alive == {f \in others : ~ Expired(f, now)}
             live == {f \in items : ~ Expired(f, now)}
             room == MakeRoom(others, now)
             new == [key |-> k, value |-> v, expires |-> now + Ttl,
                     place |-> Cardinality(Compact(room)) + 1]
  <1>1. /\ items \subseteq Entry(Key, Value) /\ Within(items) /\ IsFiniteSet(items)
        /\ Cardinality(items) \in Nat /\ Cardinality(items) <= MaxSize /\ MaxSize \in Nat
    BY FS_CardinalityType, CacheAssumption DEF CacheInv, TypeOK, Within
  <1>2. items' = Compact(room) \cup {new} /\ new.key = k
    BY DEF Set, Stored
  <1>3. e.key # k /\ e \in alive
    BY <1>2 DEF Without
  <1>4. e \notin room
    <2>1. SUFFICES ASSUME e \in room
                   PROVE  FALSE
      OBVIOUS
    <2>2. [e EXCEPT !.place = Cardinality({f \in room : f.place <= e.place})] \in items'
      BY <1>2, <2>1 DEF Compact
    <2>3. [e EXCEPT !.place = Cardinality({f \in room : f.place <= e.place})].key = e.key
      BY <1>1 DEF Entry
    <2> QED
      BY <2>2, <2>3
  <1>5. /\ ~ (Cardinality(alive) < MaxSize)
        /\ e = Oldest(alive)
    BY <1>3, <1>4 DEF MakeRoom, DropOldest
  <1>6. alive \in SUBSET items /\ alive \subseteq live /\ live \in SUBSET items
    BY DEF Without
  <1> HIDE DEF alive, live
  <1>7. /\ IsFiniteSet(alive) /\ Cardinality(alive) \in Nat
        /\ Cardinality(alive) <= Cardinality(items)
        /\ Cardinality(items) = Cardinality(alive) => items = alive
    BY <1>1, <1>6, FS_Subset, FS_CardinalityType
  <1>8. items = alive /\ Cardinality(alive) = MaxSize
    BY <1>1, <1>5, <1>7
  <1>9. live = items
    BY <1>6, <1>8
  <1>10. \A f \in alive : e.place <= f.place
    BY <1>1, <1>3, <1>5, <1>6, <1>7, OldestExists
  <1> QED
    BY <1>8, <1>9, <1>10 DEF live

(***************************************************************************)
(* For every size, a live entry leaves only to make room: its key was set  *)
(* again, or the cache was full of live entries and it was the oldest of   *)
(* all (gateway.py:73-78).                                                 *)
(***************************************************************************)
THEOREM LiveEntriesStay == Spec => LiveEntriesAreKept
  <1> DEFINE Keeps == \A e \in items :
                 \/ Expired(e, now)
                 \/ \E f \in items' : f.key = e.key
                 \/ /\ Cardinality({f \in items : ~ Expired(f, now)}) = MaxSize
                    /\ \A f \in items : e.place <= f.place
  <1>1. ASSUME CacheInv, Next
        PROVE  Keeps
    <2>1. ASSUME NEW k \in Key, Get(k)
          PROVE  Keeps
      <3>1. SUFFICES ASSUME NEW e \in items, ~ Expired(e, now)
                     PROVE  \E f \in items' : f.key = e.key
        OBVIOUS
      <3> DEFINE left == {g \in items : ~ (g.key = k /\ Expired(g, now))}
                 moved == [e EXCEPT !.place = Cardinality({f \in left : f.place <= e.place})]
      <3>2. moved \in items'
        BY <2>1, <3>1 DEF Get, AfterGet, Compact
      <3>3. moved.key = e.key
        BY <1>1 DEF CacheInv, TypeOK, Entry
      <3> HIDE DEF moved
      <3> QED
        BY <3>2, <3>3
    <2>2. ASSUME NEW k \in Key, NEW v \in Value, Set(k, v)
          PROVE  Keeps
      BY <1>1, <2>2, SetKeepsLive
    <2>3. CASE Tick
      BY <2>3 DEF Tick
    <2> QED
      BY <1>1, <2>1, <2>2, <2>3 DEF Next
  <1>2. CacheInv /\ [Next]_vars => [Keeps]_vars
    BY <1>1
  <1> QED
    BY <1>2, CacheInvInit, CacheInvNext, PTL DEF Spec, LiveEntriesAreKept
=============================================================================
