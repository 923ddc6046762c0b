------------------------------ MODULE TtlCache ------------------------------
(***************************************************************************)
(* TtlCache (powerbi_mcp/gateway.py) as its callers see it: gets and sets  *)
(* of single-threaded coroutines, in any order, while time passes.  The    *)
(* history variable remembers the last value set for each key, and when.   *)
(***************************************************************************)
EXTENDS TtlCacheOps

CONSTANTS
    Key,
    Value,
    MaxTime  \* bound on the clock, for TLC

ASSUME ClockAssumption == MaxTime \in Nat

VARIABLES
    items,  \* the dict of the cache
    now,    \* time.monotonic()
    last,   \* history: key -> the last set, or NeverSet
    seen    \* what the last get answered, or Nothing

vars == <<items, now, last, seen>>

NeverSet == [set |-> FALSE]
Nothing == [hit |-> FALSE]

LastSets == [set : {TRUE}, value : Value, at : Nat] \cup {NeverSet}
Answers == [hit : {TRUE}, key : Key, value : Value, at : Nat] \cup {Nothing}

TypeOK ==
    /\ items \subseteq Entry(Key, Value)
    /\ now \in Nat
    /\ last \in [Key -> LastSets]
    /\ seen \in Answers

Init ==
    /\ items = {}
    /\ now = 0
    /\ last = [k \in Key |-> NeverSet]
    /\ seen = Nothing

Get(k) ==
    /\ \/ \E e \in Hits(items, k, now) :
             seen' = [hit |-> TRUE, key |-> k, value |-> e.value, at |-> now]
       \/ Hits(items, k, now) = {} /\ seen' = Nothing
    /\ items' = AfterGet(items, k, now)
    /\ UNCHANGED <<now, last>>

Set(k, v) ==
    /\ items' = Stored(items, k, v, now)
    /\ last' = [last EXCEPT ![k] = [set |-> TRUE, value |-> v, at |-> now]]
    /\ seen' = Nothing
    /\ UNCHANGED now

Tick ==
    /\ now < MaxTime
    /\ now' = now + 1
    /\ seen' = Nothing
    /\ UNCHANGED <<items, last>>

Next ==
    \/ \E k \in Key : Get(k) \/ \E v \in Value : Set(k, v)
    \/ Tick

Spec == Init /\ [][Next]_vars

-----------------------------------------------------------------------------
(***************************************************************************)
(* The cache never holds more than maxsize entries (its docstring,         *)
(* gateway.py:50), and never two of one key: what a long sequence of sets  *)
(* around the limit could break.                                           *)
(***************************************************************************)
SizeBounded ==
    /\ Cardinality(items) <= MaxSize
    /\ \A e, f \in items : e.key = f.key => e = f

(***************************************************************************)
(* Insertion order is expiry order, so the entry that is evicted as the    *)
(* oldest (gateway.py:78) is also the one closest to expiring.  It holds   *)
(* because `set` pops the key first (gateway.py:72): assigning to a key a  *)
(* dict already has would keep its old place.                              *)
(***************************************************************************)
OldestExpiresFirst ==
    \A e, f \in items : e.place < f.place => e.expires <= f.expires

(***************************************************************************)
(* A get answers with the value last set for that key, and with nothing    *)
(* that was set more than ttl_seconds ago, whatever was evicted or         *)
(* overwritten in between (gateway.py:61-69).                              *)
(***************************************************************************)
NeverServedLate ==
    seen.hit =>
        /\ last[seen.key].set
        /\ seen.value = last[seen.key].value
        /\ seen.at <= last[seen.key].at + Ttl

(***************************************************************************)
(* "Expired ones go first, then the oldest" (gateway.py:51): a step that   *)
(* takes away an entry still alive replaces that key, or found maxsize     *)
(* live entries and takes the one that entered the cache first.            *)
(***************************************************************************)
LiveEntriesAreKept ==
    [][\A e \in items :
          \/ Expired(e, now)
          \/ \E f \in items' : f.key = e.key
          \/ /\ Cardinality({f \in items : ~ Expired(f, now)}) = MaxSize
             /\ \A f \in items : e.place <= f.place]_vars

=============================================================================
