------------------------------ MODULE Memories ------------------------------
(***************************************************************************)
(* powerbi_mcp/memory.py: remember and forget as the gateway runs them.    *)
(* Each call is one asyncio task of the single process.  It queues for the *)
(* write lock, reads the record of its model from the key-value store,     *)
(* computes the new record, and writes it back with an unconditional put   *)
(* (or a delete, when nothing is left), all with the lock held.            *)
(*                                                                         *)
(* The environment may fail the read, fail the write before or after it    *)
(* took effect, cancel the task at any await, and crash the process.  Two  *)
(* further freedoms are constants, because the code does not survive them: *)
(* MaxLate > 0 lets the write of a cancelled call reach the table after    *)
(* the lock was released, and Curation lets an administrator delete        *)
(* memories in Storage Explorer, which does not take the lock.             *)
(***************************************************************************)
EXTENDS MemoryStore, Sequences, SequencesExt

CONSTANTS
    NoCall,      \* the lock is free
    NoId,        \* no memory chosen yet
    MaxLate,     \* bound on the cancelled writes that may still land
    Curation     \* an administrator edits the table

ASSUME AbsenceAssumption == NoCall \notin Call /\ NoId \notin Id
ASSUME EnvironmentAssumption == MaxLate \in Nat /\ Curation \in BOOLEAN

VARIABLES
    pc,       \* call -> the await it is suspended at
    holder,   \* the call inside `async with self._write_lock`, or NoCall
    waiters,  \* the lock's queue, first come first served
    base,     \* call -> the record its `self.list` returned
    target,   \* call -> the memory it adds or removes, by id
    late,     \* writes of cancelled calls that may still land
    fate      \* history: model -> id -> what its last answered call promised

lockVars == <<holder, waiters>>
vars == <<store, ask, reply, pc, holder, waiters, base, target, late, fate>>

Awaits == {"idle", "waiting", "reading", "writing"}
Fates == {"unknown", "kept", "forgotten"}

TypeOK ==
    /\ StoreTypeOK
    /\ pc \in [Call -> Awaits]
    /\ holder \in Call \cup {NoCall}
    /\ waiters \in Seq(Call)
    /\ base \in [Call -> SUBSET Memory]
    /\ target \in [Call -> Id \cup {NoId}]
    /\ late \subseteq [model : Model, record : SUBSET Memory]
    /\ fate \in [Model -> [Id -> Fates]]

Init ==
    /\ StoreInit
    /\ pc = [c \in Call |-> "idle"]
    /\ holder = NoCall
    /\ waiters = <<>>
    /\ base = [c \in Call |-> {}]
    /\ target = [c \in Call |-> NoId]
    /\ late = {}
    /\ fate = [m \in Model |-> [i \in Id |-> "unknown"]]

-----------------------------------------------------------------------------
\* How a call leaves: what it kept to itself goes, and the caller is answered.
Answer(c, how) ==
    /\ ask' = [ask EXCEPT ![c] = Nothing]
    /\ reply' = [reply EXCEPT ![c] = how]
    /\ pc' = [pc EXCEPT ![c] = "idle"]
    /\ base' = [base EXCEPT ![c] = {}]
    /\ target' = [target EXCEPT ![c] = NoId]

\* Leaving the `async with` block, by a return, a raise or a cancellation.
Release == holder' = NoCall /\ UNCHANGED waiters

\* Mutant of Draft: the new memory is stored without its author.
DraftWithoutAuthor(c) ==
    IF ask[c].op = "add"
    THEN base[c] \cup {[id |-> target[c]]}
    ELSE Without(base[c], target[c])

\* The record the call hands to `_save`, computed from the record it read.
Draft(c) ==
    IF ask[c].op = "add"
    THEN base[c] \cup {[id |-> target[c], author |-> ask[c].user]}
    ELSE Without(base[c], target[c])

WriteRecord(c) == store' = [store EXCEPT ![ask[c].model] = Draft(c)]

\* History: what a call that was answered with success promised its caller.
Promise(c) == IF ask[c].op = "add" THEN "kept" ELSE "forgotten"

Remark(c, what) == fate' = [fate EXCEPT ![ask[c].model][target[c]] = what]

\* Mutant of LockOpen: add and remove run without `async with self._write_lock`.
LockAlwaysOpen == TRUE

(***************************************************************************)
(* A validated request reaches `async with self._write_lock`.  An          *)
(* asyncio.Lock lets a call straight in only when it is free and nobody    *)
(* waits for it.                                                           *)
(***************************************************************************)
LockOpen == holder = NoCall /\ waiters = <<>>

Begin(c) ==
    /\ pc[c] = "idle"
    /\ \E r \in Request : ask' = [ask EXCEPT ![c] = r]
    /\ reply' = [reply EXCEPT ![c] = "none"]
    /\ \/ /\ LockOpen
          /\ holder' = c
          /\ pc' = [pc EXCEPT ![c] = "reading"]
          /\ UNCHANGED waiters
       \/ /\ ~ LockOpen
          /\ waiters' = Append(waiters, c)
          /\ pc' = [pc EXCEPT ![c] = "waiting"]
          /\ UNCHANGED holder
    /\ UNCHANGED <<store, base, target, late, fate>>

\* Malformed input raises before the lock is asked for.
RejectInput(c) ==
    /\ pc[c] = "idle"
    /\ reply' = [reply EXCEPT ![c] = "refused"]
    /\ UNCHANGED <<store, ask, pc, holder, waiters, base, target, late, fate>>

\* Mutant of Acquire: a woken call does not look whether the lock is free.
AcquireHeldLock(c) ==
    /\ pc[c] = "waiting"
    /\ waiters # <<>>
    /\ Head(waiters) = c
    /\ holder' = c
    /\ waiters' = Tail(waiters)
    /\ pc' = [pc EXCEPT ![c] = "reading"]
    /\ UNCHANGED <<store, ask, reply, base, target, late, fate>>

\* The lock is handed to the call that waited longest.
Acquire(c) ==
    /\ pc[c] = "waiting"
    /\ holder = NoCall
    /\ waiters # <<>>
    /\ Head(waiters) = c
    /\ holder' = c
    /\ waiters' = Tail(waiters)
    /\ pc' = [pc EXCEPT ![c] = "reading"]
    /\ UNCHANGED <<store, ask, reply, base, target, late, fate>>

(***************************************************************************)
(* The key-value store answers `self.list`, and the call runs to its next  *)
(* await: the put or delete in `_save`, or the end of the block when the   *)
(* request is refused.                                                     *)
(***************************************************************************)
Prepare(c, i) ==
    /\ base' = [base EXCEPT ![c] = store[ask[c].model]]
    /\ target' = [target EXCEPT ![c] = i]
    /\ pc' = [pc EXCEPT ![c] = "writing"]
    /\ UNCHANGED <<store, ask, reply, holder, waiters, late, fate>>

\* Mutants of PrepareAdd: the cap is not checked, an id in use is drawn again.
PrepareAddPastCap(c) ==
    /\ pc[c] = "reading"
    /\ ask[c].op = "add"
    /\ \E i \in Id \ IdsOf(store[ask[c].model]) : Prepare(c, i)

PrepareAddTakenId(c) ==
    /\ pc[c] = "reading"
    /\ ask[c].op = "add"
    /\ Cardinality(store[ask[c].model]) < Cap
    /\ \E i \in Id : Prepare(c, i)

PrepareAdd(c) ==
    /\ pc[c] = "reading"
    /\ ask[c].op = "add"
    /\ Cardinality(store[ask[c].model]) < Cap
    /\ \E i \in Id \ IdsOf(store[ask[c].model]) : Prepare(c, i)

\* Mutant of PrepareRemove: anybody may forget a memory.
PrepareRemoveOfOthers(c) ==
    /\ pc[c] = "reading"
    /\ ask[c].op = "remove"
    /\ ask[c].id \in IdsOf(store[ask[c].model])
    /\ Prepare(c, ask[c].id)

PrepareRemove(c) ==
    /\ pc[c] = "reading"
    /\ ask[c].op = "remove"
    /\ Owns(store[ask[c].model], ask[c].id, ask[c].user)
    /\ Prepare(c, ask[c].id)

\* Mutant of RefuseCall: a refusal raised with the lock held never frees it.
RefuseCallKeepsLock(c) ==
    /\ pc[c] = "reading"
    /\ Refused(ask[c], store[ask[c].model])
    /\ Answer(c, "refused")
    /\ UNCHANGED <<store, holder, waiters, late, fate>>

RefuseCall(c) ==
    /\ pc[c] = "reading"
    /\ Refused(ask[c], store[ask[c].model])
    /\ Answer(c, "refused")
    /\ Release
    /\ UNCHANGED <<store, late, fate>>

\* `kv.get` raised: the error leaves the block, and nothing was written.
ReadFails(c) ==
    /\ pc[c] = "reading"
    /\ Answer(c, "failed")
    /\ Release
    /\ UNCHANGED <<store, late, fate>>

\* `_save` returned: the whole record was replaced, and the call returns.
Save(c) ==
    /\ pc[c] = "writing"
    /\ WriteRecord(c)
    /\ Remark(c, Promise(c))
    /\ Answer(c, "ok")
    /\ Release
    /\ UNCHANGED late

\* A put whose answer nobody waits for: it took effect, never will, or still travels to the table.
Abandon(c) ==
    \/ WriteRecord(c) /\ UNCHANGED late
    \/ UNCHANGED <<store, late>>
    \/ /\ Cardinality(late) < MaxLate
       /\ late' = late \cup {[model |-> ask[c].model, record |-> Draft(c)]}
       /\ UNCHANGED store

\* `_save` raised: an error of the table, or a timeout of the client, which stops no request.
WriteFails(c) ==
    /\ pc[c] = "writing"
    /\ Abandon(c)
    /\ Remark(c, "unknown")
    /\ Answer(c, "failed")
    /\ Release

(***************************************************************************)
(* Cancellation (notifications/cancelled, a closed connection) raises at   *)
(* the await the task is suspended at: a queued call leaves the queue, a   *)
(* running one leaves the block and frees the lock, and abandons its put.  *)
(***************************************************************************)
\* Mutant of CancelWaiting: a call cancelled in the queue frees the lock it never had.
CancelWaitingReleases(c) ==
    /\ pc[c] = "waiting"
    /\ \E k \in DOMAIN waiters : waiters[k] = c /\ waiters' = RemoveAt(waiters, k)
    /\ holder' = NoCall
    /\ Answer(c, "failed")
    /\ UNCHANGED <<store, late, fate>>

CancelWaiting(c) ==
    /\ pc[c] = "waiting"
    /\ \E k \in DOMAIN waiters : waiters[k] = c /\ waiters' = RemoveAt(waiters, k)
    /\ Answer(c, "failed")
    /\ UNCHANGED <<store, holder, late, fate>>

CancelReading(c) ==
    /\ pc[c] = "reading"
    /\ Answer(c, "failed")
    /\ Release
    /\ UNCHANGED <<store, late, fate>>

CancelWriting(c) ==
    /\ pc[c] = "writing"
    /\ Abandon(c)
    /\ Remark(c, "unknown")
    /\ Answer(c, "failed")
    /\ Release

\* A write nobody waits for any more reaches the table.
Land(w) ==
    /\ store' = [store EXCEPT ![w.model] = w.record]
    /\ late' = late \ {w}
    /\ UNCHANGED <<ask, reply, pc, holder, waiters, base, target, fate>>

(***************************************************************************)
(* The process dies and a new one starts with a free lock: every call in   *)
(* progress is lost, and the one that was writing (there is at most one)   *)
(* leaves its put behind.                                                  *)
(***************************************************************************)
Busy == {c \in Call : pc[c] # "idle"}

Crash ==
    /\ Busy # {}
    /\ \/ UNCHANGED <<store, late, fate>> /\ \A c \in Busy : pc[c] # "writing"
       \/ \E c \in Busy :
             /\ pc[c] = "writing"
             /\ Abandon(c)
             /\ Remark(c, "unknown")
    /\ ask' = [c \in Call |-> Nothing]
    /\ reply' = [c \in Call |-> IF c \in Busy THEN "failed" ELSE reply[c]]
    /\ pc' = [c \in Call |-> "idle"]
    /\ base' = [c \in Call |-> {}]
    /\ target' = [c \in Call |-> NoId]
    /\ holder' = NoCall
    /\ waiters' = <<>>

\* An administrator deletes a memory in Storage Explorer.
Curate(m, i) ==
    /\ Curation
    /\ i \in IdsOf(store[m])
    /\ store' = [store EXCEPT ![m] = Without(@, i)]
    /\ fate' = [fate EXCEPT ![m][i] = "forgotten"]
    /\ UNCHANGED <<ask, reply, pc, holder, waiters, base, target, late>>

-----------------------------------------------------------------------------
\* The steps of a call that the store or the scheduler owes it.
Serve(c) ==
    \/ Acquire(c) \/ PrepareAdd(c) \/ PrepareRemove(c) \/ RefuseCall(c)
    \/ Save(c) \/ ReadFails(c) \/ WriteFails(c)

Cancel(c) == CancelWaiting(c) \/ CancelReading(c) \/ CancelWriting(c)

Next ==
    \/ \E c \in Call : Begin(c) \/ RejectInput(c) \/ Serve(c) \/ Cancel(c)
    \/ \E w \in late : Land(w)
    \/ \E m \in Model, i \in Id : Curate(m, i)
    \/ Crash

Spec == Init /\ [][Next]_vars

(***************************************************************************)
(* Fairness: a free lock is handed on, and the key-value client answers or *)
(* raises (its transport has timeouts).  Nobody has to call or to cancel.  *)
(***************************************************************************)
FairSpec == Spec /\ \A c \in Call : WF_vars(Serve(c))

-----------------------------------------------------------------------------
(***************************************************************************)
(* What remember promised is kept: a memory whose call was answered with   *)
(* success is in the record until its author's forget is attempted.  This  *)
(* is the lost update the comment on `_write_lock` (memory.py:67) is about.*)
(***************************************************************************)
AcknowledgedKept ==
    \A m \in Model, i \in Id : fate[m][i] = "kept" => i \in IdsOf(store[m])

(***************************************************************************)
(* What was forgotten stays forgotten: neither another call's put of the   *)
(* whole record nor a crash brings a deleted memory back (memory.py:107).  *)
(***************************************************************************)
ForgottenStaysForgotten ==
    \A m \in Model, i \in Id : fate[m][i] = "forgotten" => i \notin IdsOf(store[m])

(***************************************************************************)
(* A stored record never outgrows max_per_model and no two memories of it  *)
(* share an id, however reads and writes interleave (memory.py:90-97): the *)
(* cap is what keeps the record under the table's property limit.          *)
(***************************************************************************)
WellFormed(record) ==
    /\ IsFiniteSet(record)
    /\ Cardinality(record) <= Cap
    /\ \A x, y \in record : x.id = y.id => x = y

RecordWellFormed == \A m \in Model : WellFormed(store[m])

(***************************************************************************)
(* The record a call is about to overwrite is the one it read: this is     *)
(* what holding the lock from `self.list` to the end of `_save` buys, and  *)
(* it needs the lock's owner, its queue and the records to agree.          *)
(***************************************************************************)
WriterIsCurrent ==
    \A c \in Call : pc[c] = "writing" =>
        /\ holder = c
        /\ base[c] = store[ask[c].model]

(***************************************************************************)
(* A memory leaves its record only in a step of a forget call that its own *)
(* author made for it ("Only the person who wrote a memory can forget it", *)
(* memory.py:116), never as a side effect of somebody else's write.        *)
(***************************************************************************)
OnlyTheAuthorForgets ==
    [][\A m \in Model : \A x \in store[m] \ store'[m] :
          \E c \in Call :
             /\ pc[c] = "writing"
             /\ ask[c] = [op |-> "remove", model |-> m, user |-> x.author, id |-> x.id]]_vars

(***************************************************************************)
(* Calls are atomic: with the lock, the queue and the read hidden, every   *)
(* behaviour is one of the abstract store's, each call changing its record *)
(* in the step that answers it.                                            *)
(***************************************************************************)
ImplementsStore == StoreSpec

(***************************************************************************)
(* No call waits for ever: the lock leaves every holder by whatever path   *)
(* it ends, and cancelled waiters do not stall the queue behind them       *)
(* (`async with`, memory.py:88 and 110).                                   *)
(***************************************************************************)
EveryCallAnswered == \A c \in Call : pc[c] # "idle" ~> pc[c] = "idle"

=============================================================================
