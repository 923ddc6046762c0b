---------------------------- MODULE TtlCacheOps ----------------------------
(***************************************************************************)
(* The operations of TtlCache (powerbi_mcp/gateway.py), as operators on    *)
(* the cache's dict.  A dict is a set of entries, one per key at most; the *)
(* place of an entry is its position in the dict's insertion order, which  *)
(* is what `next(iter(self._items))` looks at.                             *)
(***************************************************************************)
EXTENDS Naturals, FiniteSets

CONSTANTS
    Ttl,     \* ttl_seconds
    MaxSize  \* maxsize

ASSUME CacheAssumption == Ttl \in Nat /\ MaxSize \in Nat \ {0}

Entry(Key, Value) == [key : Key, value : Value, expires : Nat, place : Nat \ {0}]

\* Mutant of Expired: an entry outlives its expiry by one tick.
ExpiredLate(e, t) == e.expires + 1 < t

Expired(e, t) == e.expires < t

\* Mutant of Compact: positions counted from zero.
CompactFromZero(entries) ==
    {[e EXCEPT !.place = Cardinality({f \in entries : f.place < e.place})] : e \in entries}

\* Deleting from a dict closes the gaps in its order.
Compact(entries) ==
    {[e EXCEPT !.place = Cardinality({f \in entries : f.place <= e.place})] : e \in entries}

Without(entries, k) == {e \in entries : e.key # k}

\* What `get` finds: no entry, or the one entry of the key if it is not expired.
Hits(entries, k, t) == {e \in entries : e.key = k /\ ~ Expired(e, t)}

\* What `get` leaves: an expired entry of the key is popped.
AfterGet(entries, k, t) ==
    Compact({e \in entries : ~ (e.key = k /\ Expired(e, t))})

\* Mutant of Oldest: `popitem()` takes the entry that came last.
Newest(entries) == CHOOSE e \in entries : \A f \in entries : f.place <= e.place

(***************************************************************************)
(* Making room: with maxsize entries the expired ones go, and while there  *)
(* are still as many the oldest goes.  The loop runs at most once, since a *)
(* dict never holds more than maxsize entries (SizeBounded in TtlCache).   *)
(***************************************************************************)
Oldest(entries) == CHOOSE e \in entries : \A f \in entries : e.place <= f.place

DropOldest(entries) ==
    IF Cardinality(entries) < MaxSize THEN entries ELSE entries \ {Oldest(entries)}

MakeRoom(entries, t) ==
    IF Cardinality(entries) < MaxSize
    THEN entries
    ELSE DropOldest({e \in entries : ~ Expired(e, t)})

\* Mutant of Stored: an entry is added without making room for it.
StoredWithoutRoom(entries, k, v, t) ==
    LET kept == Compact(Without(entries, k))
    IN  kept \cup {[key |-> k, value |-> v, expires |-> t + Ttl,
                    place |-> Cardinality(kept) + 1]}

\* What `set` leaves: the key's entry, if any, moves to the end with a new expiry.
Stored(entries, k, v, t) ==
    LET kept == Compact(MakeRoom(Without(entries, k), t))
    IN  kept \cup {[key |-> k, value |-> v, expires |-> t + Ttl,
                    place |-> Cardinality(kept) + 1]}
=============================================================================
