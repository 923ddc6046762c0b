--------------------------- MODULE MemoriesProofs ---------------------------
(***************************************************************************)
(* Proofs about Memories, for every set of calls, models, users and ids    *)
(* and every cap.                                                          *)
(***************************************************************************)
EXTENDS Memories, FiniteSetTheorems, SequenceTheorems, TLAPS

(***************************************************************************)
(* What Draft computes is a record again.                                  *)
(***************************************************************************)
LEMMA DraftType ==
    ASSUME TypeOK, NEW c \in Call, ask[c] # Nothing, target[c] \in Id
    PROVE  /\ Draft(c) \in SUBSET Memory
           /\ ask[c] \in Request
           /\ ask[c].model \in Model
  <1>1. ask[c] \in Request
    BY DEF TypeOK, StoreTypeOK
  <1>2. ask[c].model \in Model /\ ask[c].user \in User
    BY <1>1 DEF Request, AddRequest, RemoveRequest
  <1>3. base[c] \in SUBSET Memory
    BY DEF TypeOK
  <1>4. [id |-> target[c], author |-> ask[c].user] \in Memory
    BY <1>2 DEF Memory
  <1> QED
    BY <1>1, <1>2, <1>3, <1>4 DEF Draft, Without

(***************************************************************************)
(* A call that is not idle knows what it was asked, one that writes knows  *)
(* which memory: without this the types of what it writes do not follow.   *)
(***************************************************************************)
Asked ==
    \A c \in Call :
        /\ pc[c] # "idle" => ask[c] # Nothing
        /\ pc[c] = "writing" => target[c] \in Id

TypeInv == TypeOK /\ Asked

\* The initial state, an empty table and idle calls (Memories.__init__), has its types.
LEMMA TypeInvInit == Init => TypeInv
  BY EmptySeq, AbsenceAssumption
  DEF Init, StoreInit, TypeInv, TypeOK, StoreTypeOK, Asked, Reply, Awaits, Fates, Request, Memory

\* No request of add or remove is the absence of one.
LEMMA RequestIsSomething == Nothing \notin Request
  BY DEF Nothing, Request, AddRequest, RemoveRequest

\* A call that is answered (return or raise) leaves its locals well typed.
LEMMA AnswerType ==
    ASSUME TypeInv, NEW c \in Call, NEW how \in Reply, Answer(c, how)
    PROVE  /\ ask' \in [Call -> Request \cup {Nothing}]
           /\ reply' \in [Call -> Reply]
           /\ pc' \in [Call -> Awaits]
           /\ base' \in [Call -> SUBSET Memory]
           /\ target' \in [Call -> Id \cup {NoId}]
           /\ Asked'
  BY DEF TypeInv, TypeOK, StoreTypeOK, Asked, Answer, Awaits

\* What a suspended _save would put is a record, and so is the table after it.
LEMMA WriteType ==
    ASSUME TypeInv, NEW c \in Call, pc[c] = "writing"
    PROVE  /\ WriteRecord(c) => store' \in [Model -> SUBSET Memory]
           /\ \A what \in Fates : Remark(c, what) => fate' \in [Model -> [Id -> Fates]]
           /\ Draft(c) \in SUBSET Memory
           /\ ask[c].model \in Model
  <1>1. ask[c] # Nothing /\ target[c] \in Id
    BY DEF TypeInv, Asked
  <1>2. Draft(c) \in SUBSET Memory /\ ask[c].model \in Model
    BY <1>1, DraftType DEF TypeInv
  <1>3. WriteRecord(c) => store' \in [Model -> SUBSET Memory]
    BY <1>2 DEF TypeInv, TypeOK, StoreTypeOK, WriteRecord
  <1>4. ASSUME NEW what \in Fates, Remark(c, what)
        PROVE  fate' \in [Model -> [Id -> Fates]]
    BY <1>1, <1>2, <1>4 DEF TypeInv, TypeOK, Remark
  <1> QED
    BY <1>2, <1>3, <1>4

\* Every step of every handler keeps the types.
LEMMA TypeInvNext == TypeInv /\ [Next]_vars => TypeInv'
  <1> SUFFICES ASSUME TypeInv, [Next]_vars
               PROVE  TypeInv'
    OBVIOUS
  <1> USE DEF TypeInv
  <1>1. ASSUME NEW c \in Call, Begin(c)
        PROVE  TypeInv'
    <2>1. PICK r \in Request : ask' = [ask EXCEPT ![c] = r]
      BY <1>1 DEF Begin
    <2>2. r # Nothing
      BY RequestIsSomething
    <2>3. ask' \in [Call -> Request \cup {Nothing}] /\ reply' \in [Call -> Reply]
      BY <1>1, <2>1 DEF Begin, TypeOK, StoreTypeOK, Reply
    <2>4. waiters' \in Seq(Call) /\ holder' \in Call \cup {NoCall}
      <3>1. CASE holder' = c /\ UNCHANGED waiters
        BY <3>1 DEF TypeOK
      <3>2. CASE waiters' = Append(waiters, c) /\ UNCHANGED holder
        BY <3>2 DEF TypeOK
      <3> QED
        BY <1>1, <3>1, <3>2 DEF Begin
    <2>5. pc' \in [Call -> Awaits]
      BY <1>1 DEF Begin, TypeOK, Awaits
    <2>6. Asked'
      BY <1>1, <2>1, <2>2 DEF Begin, TypeOK, StoreTypeOK, Asked
    <2> QED
      BY <1>1, <2>3, <2>4, <2>5, <2>6 DEF Begin, TypeOK, StoreTypeOK
  <1>2. ASSUME NEW c \in Call, RejectInput(c)
        PROVE  TypeInv'
    BY <1>2 DEF RejectInput, TypeOK, StoreTypeOK, Asked, Reply
  <1>3. ASSUME NEW c \in Call, Acquire(c)
        PROVE  TypeInv'
    BY <1>3 DEF Acquire, TypeOK, StoreTypeOK, Asked, Awaits
  <1>4. ASSUME NEW c \in Call, NEW i \in Id, pc[c] = "reading", Prepare(c, i)
        PROVE  TypeInv'
    <2>1. ask[c] \in Request
      BY <1>4 DEF TypeOK, StoreTypeOK, Asked
    <2>2. ask[c].model \in Model
      BY <2>1 DEF Request, AddRequest, RemoveRequest
    <2> QED
      BY <1>4, <2>2 DEF Prepare, TypeOK, StoreTypeOK, Asked, Awaits
  <1>5. ASSUME NEW c \in Call, PrepareAdd(c) \/ PrepareRemove(c)
        PROVE  TypeInv'
    <2>1. CASE PrepareAdd(c)
      BY <1>4, <2>1 DEF PrepareAdd
    <2>2. CASE PrepareRemove(c)
      <3>1. ask[c] \in Request /\ ask[c].op = "remove" /\ pc[c] = "reading"
        BY <2>2 DEF PrepareRemove, TypeOK, StoreTypeOK, Asked
      <3>2. ask[c].id \in Id
        BY <3>1 DEF Request, AddRequest, RemoveRequest
      <3> QED
        BY <1>4, <2>2, <3>1, <3>2 DEF PrepareRemove
    <2> QED
      BY <1>5, <2>1, <2>2
  <1>6. ASSUME NEW c \in Call, RefuseCall(c) \/ ReadFails(c) \/ CancelReading(c)
        PROVE  TypeInv'
    <2>1. Answer(c, "refused") \/ Answer(c, "failed")
      BY <1>6 DEF RefuseCall, ReadFails, CancelReading
    <2>2. Release /\ UNCHANGED <<store, late, fate>>
      BY <1>6 DEF RefuseCall, ReadFails, CancelReading
    <2> QED
      BY <2>1, <2>2, AnswerType DEF Release, TypeOK, StoreTypeOK, Reply
  <1>7. ASSUME NEW c \in Call, Save(c)
        PROVE  TypeInv'
    BY <1>7, AnswerType, WriteType DEF Save, Promise, Release, TypeOK, StoreTypeOK, Reply, Fates
  <1>9. ASSUME NEW c \in Call, CancelWaiting(c)
        PROVE  TypeInv'
    <2>1. PICK k \in DOMAIN waiters : waiters' = RemoveAt(waiters, k)
      BY <1>9 DEF CancelWaiting
    <2>2. waiters' \in Seq(Call)
      BY <2>1 DEF RemoveAt, TypeOK
    <2> QED
      BY <1>9, <2>2, AnswerType DEF CancelWaiting, TypeOK, StoreTypeOK, Reply
  <1>10. ASSUME NEW c \in Call, WriteFails(c) \/ CancelWriting(c)
         PROVE  TypeInv'
    <2>1. Abandon(c) /\ Remark(c, "unknown") /\ Answer(c, "failed") /\ Release /\ pc[c] = "writing"
      BY <1>10 DEF WriteFails, CancelWriting
    <2>2. late' \subseteq [model : Model, record : SUBSET Memory]
      BY <2>1, WriteType DEF Abandon, TypeOK
    <2> QED
      BY <2>1, <2>2, AnswerType, WriteType DEF Abandon, Release, TypeOK, StoreTypeOK, Reply, Fates
  <1>11. ASSUME NEW w \in late, Land(w)
         PROVE  TypeInv'
    BY <1>11 DEF Land, TypeOK, StoreTypeOK, Asked
  <1>12. ASSUME NEW m \in Model, NEW i \in Id, Curate(m, i)
         PROVE  TypeInv'
    BY <1>12 DEF Curate, Without, TypeOK, StoreTypeOK, Asked, Fates
  <1>13. ASSUME Crash
         PROVE  TypeInv'
    <2>1. /\ store' \in [Model -> SUBSET Memory] /\ fate' \in [Model -> [Id -> Fates]]
          /\ late' \subseteq [model : Model, record : SUBSET Memory]
      BY <1>13, WriteType DEF Crash, Abandon, Busy, TypeOK, StoreTypeOK, Fates
    <2> QED
      BY <1>13, <2>1, EmptySeq DEF Crash, TypeOK, StoreTypeOK, Asked, Reply, Awaits
  <1>14. CASE UNCHANGED vars
    BY <1>14 DEF vars, TypeOK, StoreTypeOK, Asked
  <1> QED
    BY <1>1, <1>2, <1>3, <1>5, <1>6, <1>7, <1>9, <1>10, <1>11, <1>12, <1>13, <1>14
    DEF Next, Serve, Cancel

(***************************************************************************)
(* Every variable of the memories keeps its type, and a suspended call     *)
(* knows its request: in every environment, late writes, curation and      *)
(* crashes included.                                                       *)
(***************************************************************************)
THEOREM TypeCorrect == Spec => [](TypeOK /\ Asked)
  <1> QED
    BY TypeInvInit, TypeInvNext, PTL DEF Spec, TypeInv

-----------------------------------------------------------------------------
(***************************************************************************)
(* The record is well-formed in every environment.  What a call is about   *)
(* to write was computed from a record that was well-formed when it was    *)
(* read, whoever changed the table since; so are the writes still on their *)
(* way.                                                                    *)
(***************************************************************************)
Drafted ==
    \A c \in Call : pc[c] = "writing" =>
        /\ WellFormed(base[c])
        /\ ask[c].op = "add" =>
              /\ Cardinality(base[c]) < Cap
              /\ target[c] \notin IdsOf(base[c])

LateWellFormed == \A w \in late : WellFormed(w.record)

RecordInv == TypeInv /\ RecordWellFormed /\ Drafted /\ LateWellFormed

\* Removing a memory keeps a record well-formed.
LEMMA WithoutWellFormed ==
    ASSUME NEW record, NEW i, WellFormed(record)
    PROVE  WellFormed(Without(record, i))
  <1>1. Without(record, i) \subseteq record
    BY DEF Without
  <1>2. /\ IsFiniteSet(Without(record, i))
        /\ Cardinality(Without(record, i)) <= Cardinality(record)
    BY <1>1, FS_Subset DEF WellFormed
  <1>3. /\ Cardinality(record) \in Nat
        /\ Cardinality(Without(record, i)) \in Nat
    BY <1>2, FS_CardinalityType DEF WellFormed
  <1>4. Cardinality(Without(record, i)) <= Cap
    BY <1>2, <1>3, CapAssumption DEF WellFormed
  <1> QED
    BY <1>1, <1>2, <1>4 DEF WellFormed

\* So does adding one with an id of its own to a record below the cap.
LEMMA WithWellFormed ==
    ASSUME NEW record, NEW x, WellFormed(record),
           Cardinality(record) < Cap, x.id \notin IdsOf(record)
    PROVE  WellFormed(record \cup {x})
  <1>1. x \notin record
    BY DEF IdsOf
  <1>2. /\ IsFiniteSet(record \cup {x})
        /\ Cardinality(record \cup {x}) = Cardinality(record) + 1
    BY <1>1, FS_AddElement DEF WellFormed
  <1>3. Cardinality(record) \in Nat
    BY FS_CardinalityType DEF WellFormed
  <1>4. Cardinality(record \cup {x}) <= Cap
    BY <1>2, <1>3, CapAssumption
  <1>5. \A y, z \in record \cup {x} : y.id = z.id => y = z
    BY DEF WellFormed, IdsOf
  <1> QED
    BY <1>2, <1>4, <1>5 DEF WellFormed

\* What _save puts is well formed when the record it was computed from is.
LEMMA DraftWellFormed ==
    ASSUME Drafted, NEW c \in Call, pc[c] = "writing"
    PROVE  WellFormed(Draft(c))
  <1>1. CASE ask[c].op = "add"
    <2> DEFINE x == [id |-> target[c], author |-> ask[c].user]
    <2>1. x.id \notin IdsOf(base[c])
      BY <1>1 DEF Drafted
    <2>2. WellFormed(base[c]) /\ Cardinality(base[c]) < Cap
      BY <1>1 DEF Drafted
    <2>3. WellFormed(base[c] \cup {x})
      BY <2>1, <2>2, WithWellFormed
    <2> QED
      BY <1>1, <2>3 DEF Draft
  <1>2. CASE ask[c].op # "add"
    BY <1>2, WithoutWellFormed DEF Draft, Drafted
  <1> QED
    BY <1>1, <1>2

\* An empty table is well formed and nothing is in flight.
LEMMA RecordInvInit == Init => RecordInv
  <1> SUFFICES ASSUME Init
               PROVE  RecordInv
    OBVIOUS
  <1>1. WellFormed({})
    BY FS_EmptySet, CapAssumption DEF WellFormed
  <1> QED
    BY <1>1, TypeInvInit
    DEF Init, StoreInit, RecordInv, RecordWellFormed, Drafted, LateWellFormed

\* A step that writes at most a well-formed record and starts no write.
LEMMA WriteWellFormed ==
    ASSUME RecordInv, NEW c \in Call, pc[c] = "writing",
           WriteRecord(c) \/ UNCHANGED store
    PROVE  RecordWellFormed'
  <1>1. ask[c].model \in Model /\ store \in [Model -> SUBSET Memory]
    BY WriteType DEF RecordInv, TypeInv, TypeOK, StoreTypeOK
  <1> QED
    BY <1>1, DraftWellFormed DEF RecordInv, RecordWellFormed, WriteRecord, WellFormed

\* A call that is answered drops its draft, and the others keep theirs.
LEMMA AnswerDrafted ==
    ASSUME RecordInv, NEW c \in Call, NEW how \in Reply, Answer(c, how)
    PROVE  Drafted'
  BY DEF RecordInv, TypeInv, TypeOK, StoreTypeOK, Drafted, Answer, WellFormed

\* And so is a put that lands at once, later or never.
LEMMA AbandonWellFormed ==
    ASSUME RecordInv, NEW c \in Call, pc[c] = "writing", Abandon(c)
    PROVE  RecordWellFormed' /\ LateWellFormed'
  <1> USE DEF RecordInv
  <1>1. RecordWellFormed'
    BY WriteWellFormed DEF Abandon
  <1>2. LateWellFormed'
    BY DraftWellFormed DEF Abandon, LateWellFormed, WellFormed
  <1> QED
    BY <1>1, <1>2

\* Every step keeps the record, the drafts and the late writes well formed.
LEMMA RecordInvNext == RecordInv /\ [Next]_vars => RecordInv'
  <1> SUFFICES ASSUME RecordInv, [Next]_vars
               PROVE  RecordInv'
    OBVIOUS
  <1> USE DEF RecordInv
  <1>0. TypeInv /\ TypeInv'
    BY TypeInvNext
  <1>1. ASSUME NEW c \in Call, Begin(c) \/ RejectInput(c) \/ Acquire(c)
        PROVE  RecordInv'
    <2>1. UNCHANGED <<store, base, target, late>>
      BY <1>1 DEF Begin, RejectInput, Acquire
    <2>2. \A d \in Call : pc'[d] = "writing" => pc[d] = "writing" /\ ask'[d] = ask[d]
      BY <1>0, <1>1 DEF Begin, RejectInput, Acquire, TypeInv, TypeOK, StoreTypeOK
    <2> QED
      BY <1>0, <2>1, <2>2
      DEF RecordWellFormed, Drafted, LateWellFormed, WellFormed
  <1>2. ASSUME NEW c \in Call, PrepareAdd(c) \/ PrepareRemove(c)
        PROVE  RecordInv'
    <2>1. ask[c].model \in Model
      <3>1. ask[c] \in Request
        BY <1>0, <1>2 DEF PrepareAdd, PrepareRemove, TypeInv, Asked, TypeOK, StoreTypeOK
      <3> QED
        BY <3>1 DEF Request, AddRequest, RemoveRequest
    <2>2. PICK i : Prepare(c, i) /\ (ask[c].op = "add" =>
                      /\ Cardinality(store[ask[c].model]) < Cap
                      /\ i \notin IdsOf(store[ask[c].model]))
      BY <1>2 DEF PrepareAdd, PrepareRemove
    <2>3. Drafted'
      BY <1>0, <2>1, <2>2
      DEF Prepare, Drafted, RecordWellFormed, WellFormed, TypeInv, TypeOK, StoreTypeOK, IdsOf
    <2> QED
      BY <1>0, <2>2, <2>3 DEF Prepare, RecordWellFormed, LateWellFormed, WellFormed
  <1>3. ASSUME NEW c \in Call,
               RefuseCall(c) \/ ReadFails(c) \/ CancelReading(c) \/ CancelWaiting(c)
        PROVE  RecordInv'
    <2>1. PICK how \in Reply : Answer(c, how)
      BY <1>3 DEF RefuseCall, ReadFails, CancelReading, CancelWaiting, Reply
    <2>2. UNCHANGED <<store, late>>
      BY <1>3 DEF RefuseCall, ReadFails, CancelReading, CancelWaiting
    <2> QED
      BY <1>0, <2>1, <2>2, AnswerDrafted DEF RecordWellFormed, LateWellFormed, WellFormed
  <1>4. ASSUME NEW c \in Call, Save(c)
        PROVE  RecordInv'
    <2>1. PICK how \in Reply : Answer(c, how)
      BY <1>4 DEF Save, Reply
    <2>2. pc[c] = "writing" /\ WriteRecord(c) /\ UNCHANGED late
      BY <1>4 DEF Save
    <2> QED
      BY <1>0, <2>1, <2>2, AnswerDrafted, WriteWellFormed DEF LateWellFormed, WellFormed
  <1>5. ASSUME NEW c \in Call, WriteFails(c) \/ CancelWriting(c)
        PROVE  RecordInv'
    <2>1. Abandon(c) /\ Answer(c, "failed") /\ pc[c] = "writing"
      BY <1>5 DEF WriteFails, CancelWriting
    <2>2. Drafted'
      BY <2>1, AnswerDrafted DEF Reply
    <2>3. RecordWellFormed' /\ LateWellFormed'
      BY <2>1, AbandonWellFormed
    <2> QED
      BY <1>0, <2>2, <2>3
  <1>6. ASSUME NEW w \in late, Land(w)
        PROVE  RecordInv'
    BY <1>0, <1>6
    DEF Land, RecordWellFormed, Drafted, LateWellFormed, WellFormed, TypeInv, TypeOK, StoreTypeOK
  <1>7. ASSUME NEW m \in Model, NEW i \in Id, Curate(m, i)
        PROVE  RecordInv'
    <2>1. WellFormed(Without(store[m], i))
      BY WithoutWellFormed DEF RecordWellFormed
    <2>2. RecordWellFormed'
      BY <1>0, <1>7, <2>1 DEF Curate, RecordWellFormed, WellFormed, TypeInv, TypeOK, StoreTypeOK
    <2> QED
      BY <1>0, <1>7, <2>2 DEF Curate, Drafted, LateWellFormed, WellFormed
  <1>8. ASSUME Crash
        PROVE  RecordInv'
    <2>1. RecordWellFormed' /\ LateWellFormed'
      <3>1. CASE UNCHANGED <<store, late>>
        BY <3>1 DEF RecordWellFormed, LateWellFormed, WellFormed
      <3>2. CASE \E c \in Busy : pc[c] = "writing" /\ Abandon(c)
        BY <3>2, AbandonWellFormed DEF Busy
      <3> QED
        BY <1>8, <3>1, <3>2 DEF Crash
    <2>2. Drafted'
      BY <1>8 DEF Crash, Drafted, WellFormed
    <2> QED
      BY <1>0, <2>1, <2>2
  <1>9. CASE UNCHANGED vars
    BY <1>0, <1>9 DEF vars, RecordWellFormed, Drafted, LateWellFormed, WellFormed
  <1> QED
    BY <1>1, <1>2, <1>3, <1>4, <1>5, <1>6, <1>7, <1>8, <1>9 DEF Next, Serve, Cancel

(***************************************************************************)
(* Whatever the environment does (late writes, curation, crashes), no      *)
(* record outgrows the cap and no two memories of one share an id          *)
(* (memory.py:89-104).                                                     *)
(***************************************************************************)
THEOREM RecordAlwaysWellFormed == Spec => []RecordWellFormed
  <1>1. RecordInv => RecordWellFormed
    BY DEF RecordInv
  <1> QED
    BY <1>1, RecordInvInit, RecordInvNext, PTL DEF Spec

-----------------------------------------------------------------------------
(***************************************************************************)
(* What the lock buys, when nobody writes without it: no write outlives    *)
(* its call and no administrator edits the table.                          *)
(***************************************************************************)
OnlyLockedWrites == MaxLate = 0 /\ Curation = FALSE

IdleAsksNothing == \A c \in Call : pc[c] = "idle" => ask[c] = Nothing

Holding == \A c \in Call : pc[c] \in {"reading", "writing"} => holder = c

\* The request was granted on the record that is still stored.
Prepared ==
    \A c \in Call : pc[c] = "writing" =>
        IF ask[c].op = "add"
        THEN /\ Cardinality(base[c]) < Cap
             /\ target[c] \notin IdsOf(base[c])
        ELSE /\ target[c] = ask[c].id
             /\ Owns(base[c], target[c], ask[c].user)

(***************************************************************************)
(* The invariant of the lock.  AcknowledgedKept is not inductive alone: a  *)
(* write replaces the whole record, so it keeps the promises made to       *)
(* others only if it was computed from the record that is stored now       *)
(* (WriterIsCurrent), which is so only while one call at a time is inside  *)
(* the lock (Holding) and nothing is written from outside it.              *)
(***************************************************************************)
LockInv ==
    /\ TypeInv
    /\ late = {}
    /\ IdleAsksNothing
    /\ Holding
    /\ Prepared
    /\ WriterIsCurrent
    /\ AcknowledgedKept
    /\ ForgottenStaysForgotten

\* The invariant of the lock holds before the first call.
LEMMA LockInvInit == Init => LockInv
  BY TypeInvInit
  DEF Init, StoreInit, LockInv, IdleAsksNothing, Holding, Prepared, WriterIsCurrent,
      AcknowledgedKept, ForgottenStaysForgotten

\* A call outside the lock leaves the one inside alone.
LEMMA RequestModel ==
    ASSUME TypeInv, NEW c \in Call, pc[c] # "idle"
    PROVE  /\ ask[c] \in Request
           /\ ask[c].model \in Model
           /\ ask[c].op \in {"add", "remove"}
  <1>1. ask[c] \in Request
    BY DEF TypeInv, Asked, TypeOK, StoreTypeOK
  <1> QED
    BY <1>1 DEF Request, AddRequest, RemoveRequest

\* The ids of a record with one memory more, and with one id less.
LEMMA IdsOfDraft ==
    ASSUME NEW record, NEW x, NEW i
    PROVE  /\ IdsOf(record \cup {x}) = IdsOf(record) \cup {x.id}
           /\ IdsOf(Without(record, i)) = IdsOf(record) \ {i}
  BY DEF IdsOf, Without

(***************************************************************************)
(* A write by the lock's holder does to the stored record exactly what the *)
(* request asks for, and changes the presence of one id only.              *)
(***************************************************************************)
LEMMA HolderWrites ==
    ASSUME LockInv, NEW c \in Call, pc[c] = "writing"
    PROVE  /\ Draft(c) \in Outcomes(ask[c], store[ask[c].model])
           /\ \A i \in Id \ {target[c]} :
                 i \in IdsOf(Draft(c)) <=> i \in IdsOf(store[ask[c].model])
           /\ ask[c].op = "add" => target[c] \in IdsOf(Draft(c))
           /\ ask[c].op = "remove" => target[c] \notin IdsOf(Draft(c))
  <1>1. base[c] = store[ask[c].model] /\ target[c] \in Id
    BY DEF LockInv, WriterIsCurrent, TypeInv, Asked
  <1>2. CASE ask[c].op = "add"
    <2>1. Draft(c) = base[c] \cup {[id |-> target[c], author |-> ask[c].user]}
      BY <1>2 DEF Draft
    <2>2. Cardinality(base[c]) < Cap /\ target[c] \notin IdsOf(base[c])
      BY <1>2 DEF LockInv, Prepared
    <2>3. Draft(c) \in Outcomes(ask[c], store[ask[c].model])
      BY <1>1, <1>2, <2>1, <2>2 DEF Outcomes
    <2>4. IdsOf(Draft(c)) = IdsOf(base[c]) \cup {target[c]}
      <3> DEFINE x == [id |-> target[c], author |-> ask[c].user]
      <3>1. IdsOf(base[c] \cup {x}) = IdsOf(base[c]) \cup {x.id}
        BY IdsOfDraft
      <3>2. x.id = target[c]
        OBVIOUS
      <3> QED
        BY <2>1, <3>1, <3>2
    <2> QED
      BY <1>1, <1>2, <2>3, <2>4
  <1>3. CASE ask[c].op = "remove"
    <2>1. target[c] = ask[c].id /\ Owns(base[c], target[c], ask[c].user)
      BY <1>3 DEF LockInv, Prepared
    <2>2. Draft(c) = Without(base[c], target[c])
      BY <1>3 DEF Draft
    <2>3. Draft(c) \in Outcomes(ask[c], store[ask[c].model])
      BY <1>1, <1>3, <2>1, <2>2 DEF Outcomes
    <2>4. IdsOf(Draft(c)) = IdsOf(base[c]) \ {target[c]}
      BY <2>2, IdsOfDraft
    <2> QED
      BY <1>1, <1>3, <2>3, <2>4
  <1> QED
    BY <1>2, <1>3, RequestModel DEF LockInv

\* A call that is answered takes nothing from the others, and frees the lock.
LEMMA AnswerKeepsLock ==
    ASSUME LockInv, NEW c \in Call, pc[c] # "idle", NEW how \in Reply, Answer(c, how),
           \/ pc[c] = "waiting" /\ UNCHANGED <<holder, store>>
           \/ /\ pc[c] # "waiting"
              /\ Release
    PROVE  IdleAsksNothing' /\ Holding' /\ Prepared' /\ WriterIsCurrent'
  <1>1. /\ pc \in [Call -> Awaits]
        /\ base \in [Call -> SUBSET Memory]
        /\ target \in [Call -> Id \cup {NoId}]
        /\ DOMAIN ask = Call
    BY DEF LockInv, TypeInv, TypeOK, StoreTypeOK
  <1>2. /\ pc'[c] = "idle" /\ ask'[c] = Nothing
        /\ \A d \in Call \ {c} :
              pc'[d] = pc[d] /\ ask'[d] = ask[d] /\ base'[d] = base[d] /\ target'[d] = target[d]
    BY <1>1 DEF Answer
  <1>3. IdleAsksNothing' /\ Prepared'
    BY <1>2 DEF LockInv, IdleAsksNothing, Prepared
  <1>4. CASE pc[c] = "waiting"
    BY <1>2, <1>3, <1>4 DEF LockInv, Holding, WriterIsCurrent
  <1>5. CASE pc[c] # "waiting"
    <2>1. pc[c] \in {"reading", "writing"} /\ holder = c
      BY <1>1, <1>5 DEF Awaits, LockInv, Holding
    <2>2. \A d \in Call \ {c} : pc[d] \notin {"reading", "writing"}
      BY <2>1 DEF LockInv, Holding
    <2> QED
      BY <1>2, <1>3, <2>2 DEF Holding, WriterIsCurrent
  <1> QED
    BY <1>4, <1>5

\* A step that leaves the record alone leaves the promises about it alone.
LEMMA PromisesKept ==
    ASSUME LockInv, UNCHANGED <<store, fate>>
    PROVE  AcknowledgedKept' /\ ForgottenStaysForgotten'
  BY DEF LockInv, AcknowledgedKept, ForgottenStaysForgotten, IdsOf

(***************************************************************************)
(* A write of the holder keeps every other promise, and a call remarks on  *)
(* its own memory what it did to it, or that it does not know.             *)
(***************************************************************************)
LEMMA WriteKeepsPromises ==
    ASSUME LockInv, NEW c \in Call, pc[c] = "writing",
           NEW what \in Fates, Remark(c, what),
           \/ WriteRecord(c) /\ (what = "unknown" \/ what = Promise(c))
           \/ UNCHANGED store /\ what = "unknown"
    PROVE  AcknowledgedKept' /\ ForgottenStaysForgotten'
  <1> DEFINE m == ask[c].model
  <1>1. /\ m \in Model /\ target[c] \in Id
        /\ ask[c].op \in {"add", "remove"}
        /\ store \in [Model -> SUBSET Memory]
        /\ fate \in [Model -> [Id -> Fates]]
    BY RequestModel DEF LockInv, TypeInv, Asked, TypeOK, StoreTypeOK
  <1>2. /\ fate'[m][target[c]] = what
        /\ \A n \in Model, i \in Id :
              ~ (n = m /\ i = target[c]) => fate'[n][i] = fate[n][i]
    BY <1>1 DEF Remark
  <1>3. \A n \in Model \ {m} : store'[n] = store[n]
    BY <1>1 DEF WriteRecord
  <1>4. store'[m] = Draft(c) \/ store'[m] = store[m]
    BY <1>1 DEF WriteRecord
  <1>5. \A i \in Id \ {target[c]} : i \in IdsOf(store'[m]) <=> i \in IdsOf(store[m])
    BY <1>4, HolderWrites
  <1>6. /\ what = "kept" => target[c] \in IdsOf(store'[m])
        /\ what = "forgotten" => target[c] \notin IdsOf(store'[m])
    BY <1>1, HolderWrites DEF WriteRecord, Promise
  <1>7. ASSUME NEW n \in Model, NEW i \in Id
        PROVE  /\ fate'[n][i] = "kept" => i \in IdsOf(store'[n])
               /\ fate'[n][i] = "forgotten" => i \notin IdsOf(store'[n])
    <2>1. CASE n = m /\ i = target[c]
      BY <1>2, <1>6, <2>1
    <2>2. CASE ~ (n = m /\ i = target[c])
      BY <1>2, <1>3, <1>5, <2>2 DEF LockInv, AcknowledgedKept, ForgottenStaysForgotten
    <2> QED
      BY <2>1, <2>2
  <1> QED
    BY <1>7 DEF AcknowledgedKept, ForgottenStaysForgotten, IdsOf

\* Every step keeps the invariant of the lock, as long as only its holders write.
LEMMA LockInvNext ==
    ASSUME OnlyLockedWrites
    PROVE  LockInv /\ [Next]_vars => LockInv'
  <1> SUFFICES ASSUME LockInv, [Next]_vars
               PROVE  LockInv'
    OBVIOUS
  <1> USE DEF LockInv
  <1>0. TypeInv /\ TypeInv'
    BY TypeInvNext
  <1>a. /\ pc \in [Call -> Awaits]
        /\ base \in [Call -> SUBSET Memory]
        /\ target \in [Call -> Id \cup {NoId}]
        /\ DOMAIN ask = Call
    BY <1>0 DEF TypeInv, TypeOK, StoreTypeOK
  <1>1. ASSUME NEW c \in Call, Begin(c)
        PROVE  LockInv'
    <2>1. UNCHANGED <<store, base, target, late, fate>>
      BY <1>1 DEF Begin
    <2>2. /\ pc'[c] \in {"reading", "waiting"}
          /\ pc'[c] = "reading" => holder = NoCall /\ holder' = c
          /\ pc'[c] = "waiting" => holder' = holder
          /\ \A d \in Call \ {c} : pc'[d] = pc[d] /\ ask'[d] = ask[d]
      BY <1>a, <1>1 DEF Begin, LockOpen
    <2>3. IdleAsksNothing' /\ Holding'
      BY <2>2, AbsenceAssumption DEF IdleAsksNothing, Holding
    <2>4. Prepared'
      BY <2>1, <2>2 DEF Prepared
    <2>5. WriterIsCurrent'
      BY <2>1, <2>2, AbsenceAssumption DEF WriterIsCurrent, Holding
    <2> QED
      BY <1>0, <2>1, <2>3, <2>4, <2>5, PromisesKept
  <1>2. ASSUME NEW c \in Call, RejectInput(c)
        PROVE  LockInv'
    <2>1. UNCHANGED <<store, ask, pc, holder, base, target, late, fate>>
      BY <1>2 DEF RejectInput
    <2> QED
      BY <1>0, <2>1, PromisesKept
      DEF IdleAsksNothing, Holding, Prepared, WriterIsCurrent, Owns, IdsOf
  <1>3. ASSUME NEW c \in Call, Acquire(c)
        PROVE  LockInv'
    <2>1. UNCHANGED <<store, ask, base, target, late, fate>>
      BY <1>3 DEF Acquire
    <2>2. /\ pc[c] = "waiting" /\ pc'[c] = "reading" /\ holder = NoCall /\ holder' = c
          /\ \A d \in Call \ {c} : pc'[d] = pc[d]
      BY <1>a, <1>3 DEF Acquire
    <2>3. \A d \in Call : pc[d] \notin {"reading", "writing"}
      BY <2>2, AbsenceAssumption DEF Holding
    <2>4. IdleAsksNothing' /\ Holding' /\ Prepared' /\ WriterIsCurrent'
      BY <2>1, <2>2, <2>3 DEF IdleAsksNothing, Holding, Prepared, WriterIsCurrent
    <2> QED
      BY <1>0, <2>1, <2>4, PromisesKept
  <1>4. ASSUME NEW c \in Call, PrepareAdd(c) \/ PrepareRemove(c)
        PROVE  LockInv'
    <2>1. pc[c] = "reading" /\ holder = c
      BY <1>4 DEF PrepareAdd, PrepareRemove, Holding
    <2>2. PICK i : /\ Prepare(c, i)
                   /\ IF ask[c].op = "add"
                      THEN /\ Cardinality(store[ask[c].model]) < Cap
                           /\ i \notin IdsOf(store[ask[c].model])
                      ELSE /\ i = ask[c].id
                           /\ Owns(store[ask[c].model], i, ask[c].user)
      BY <1>4 DEF PrepareAdd, PrepareRemove
    <2>3. UNCHANGED <<store, ask, holder, late, fate>>
      BY <2>2 DEF Prepare
    <2>4. /\ pc'[c] = "writing" /\ base'[c] = store[ask[c].model] /\ target'[c] = i
          /\ \A d \in Call \ {c} : pc'[d] = pc[d] /\ base'[d] = base[d] /\ target'[d] = target[d]
      BY <1>a, <2>2 DEF Prepare
    <2>5. \A d \in Call \ {c} : pc[d] # "writing"
      BY <2>1 DEF Holding
    <2>6. IdleAsksNothing' /\ Holding' /\ WriterIsCurrent'
      BY <2>1, <2>3, <2>4, <2>5 DEF IdleAsksNothing, Holding, WriterIsCurrent
    <2>7. Prepared'
      BY <2>2, <2>3, <2>4, <2>5 DEF Prepared
    <2> QED
      BY <1>0, <2>3, <2>6, <2>7, PromisesKept
  <1>5. ASSUME NEW c \in Call,
               RefuseCall(c) \/ ReadFails(c) \/ CancelReading(c) \/ CancelWaiting(c)
        PROVE  LockInv'
    <2>1. PICK how \in Reply : Answer(c, how)
      BY <1>5 DEF RefuseCall, ReadFails, CancelReading, CancelWaiting, Reply
    <2>2. /\ UNCHANGED <<store, late, fate>>
          /\ \/ pc[c] = "waiting" /\ UNCHANGED holder
             \/ pc[c] = "reading" /\ Release
      BY <1>5 DEF RefuseCall, ReadFails, CancelReading, CancelWaiting
    <2>3. IdleAsksNothing' /\ Holding' /\ Prepared' /\ WriterIsCurrent'
      BY <2>1, <2>2, AnswerKeepsLock
    <2> QED
      BY <1>0, <2>2, <2>3, PromisesKept
  <1>6. ASSUME NEW c \in Call, Save(c) \/ WriteFails(c) \/ CancelWriting(c)
        PROVE  LockInv'
    <2>1. PICK how \in Reply : Answer(c, how)
      BY <1>6 DEF Save, WriteFails, CancelWriting, Reply
    <2>2. late' = {}
      <3>1. ~ (Cardinality(late) < MaxLate)
        BY FS_EmptySet DEF OnlyLockedWrites
      <3> QED
        BY <1>6, <3>1 DEF Save, WriteFails, CancelWriting, Abandon
    <2>3. pc[c] = "writing" /\ Release
      BY <1>6 DEF Save, WriteFails, CancelWriting
    <2>4. PICK what \in Fates :
             /\ Remark(c, what)
             /\ \/ WriteRecord(c) /\ (what = "unknown" \/ what = Promise(c))
                \/ UNCHANGED store /\ what = "unknown"
      <3>1. ~ (Cardinality(late) < MaxLate)
        BY FS_EmptySet DEF OnlyLockedWrites
      <3>2. CASE Save(c)
        BY <3>2 DEF Save, Promise, Fates
      <3>3. CASE WriteFails(c)
        BY <3>1, <3>3 DEF WriteFails, Abandon, Fates
      <3>4. CASE CancelWriting(c)
        BY <3>1, <3>4 DEF CancelWriting, Abandon, Fates
      <3> QED
        BY <1>6, <3>2, <3>3, <3>4
    <2>5. IdleAsksNothing' /\ Holding' /\ Prepared' /\ WriterIsCurrent'
      BY <2>1, <2>3, AnswerKeepsLock
    <2>6. AcknowledgedKept' /\ ForgottenStaysForgotten'
      BY <2>3, <2>4, WriteKeepsPromises
    <2> QED
      BY <1>0, <2>2, <2>5, <2>6
  <1>7. ASSUME NEW w \in late, Land(w)
        PROVE  LockInv'
    BY <1>7
  <1>8. ASSUME NEW m \in Model, NEW i \in Id, Curate(m, i)
        PROVE  LockInv'
    BY <1>8 DEF Curate, OnlyLockedWrites
  <1>9. ASSUME Crash
        PROVE  LockInv'
    <2>0. ~ (Cardinality(late) < MaxLate)
      BY FS_EmptySet DEF OnlyLockedWrites
    <2>1. IdleAsksNothing' /\ Holding' /\ Prepared' /\ WriterIsCurrent' /\ late' = {}
      BY <1>9, <2>0 DEF Crash, Abandon, IdleAsksNothing, Holding, Prepared, WriterIsCurrent
    <2>2. CASE UNCHANGED <<store, fate>>
      BY <1>0, <2>1, <2>2, PromisesKept
    <2>3. CASE \E c \in Busy :
                  /\ pc[c] = "writing"
                  /\ WriteRecord(c) \/ UNCHANGED store
                  /\ Remark(c, "unknown")
      <3>1. PICK c \in Call : /\ pc[c] = "writing"
                              /\ WriteRecord(c) \/ UNCHANGED store
                              /\ Remark(c, "unknown")
        BY <2>3 DEF Busy
      <3>2. "unknown" \in Fates
        BY DEF Fates
      <3>3. AcknowledgedKept' /\ ForgottenStaysForgotten'
        BY <3>1, <3>2, WriteKeepsPromises
      <3> QED
        BY <1>0, <2>1, <3>3
    <2> QED
      BY <1>9, <2>0, <2>2, <2>3 DEF Crash, Abandon
  <1>10. CASE UNCHANGED vars
    <2>1. UNCHANGED <<store, ask, pc, holder, base, target, late, fate>>
      BY <1>10 DEF vars
    <2> QED
      BY <1>0, <2>1, PromisesKept
      DEF IdleAsksNothing, Holding, Prepared, WriterIsCurrent, Owns, IdsOf
  <1> QED
    BY <1>1, <1>2, <1>3, <1>4, <1>5, <1>6, <1>7, <1>8, <1>9, <1>10 DEF Next, Serve, Cancel

(***************************************************************************)
(* With one process and nobody else writing the table, a remembered note   *)
(* is never lost, a forgotten one never returns, and every put overwrites  *)
(* the record it was computed from (memory.py:88-124).                     *)
(***************************************************************************)
THEOREM PromisesAreKept ==
    ASSUME OnlyLockedWrites
    PROVE  Spec => [](AcknowledgedKept /\ ForgottenStaysForgotten /\ WriterIsCurrent)
  <1>1. LockInv /\ [Next]_vars => LockInv'
    BY LockInvNext
  <1>2. LockInv => AcknowledgedKept /\ ForgottenStaysForgotten /\ WriterIsCurrent
    BY DEF LockInv
  <1> QED
    BY <1>1, <1>2, LockInvInit, PTL DEF Spec

\* Only the call inside the lock changes a record, by writing its draft.
LEMMA StepWrites ==
    ASSUME OnlyLockedWrites, LockInv, [Next]_vars
    PROVE  UNCHANGED store \/ \E c \in Call : pc[c] = "writing" /\ WriteRecord(c)
  <1>1. ASSUME NEW c \in Call, Begin(c) \/ RejectInput(c) \/ Serve(c) \/ Cancel(c)
        PROVE  UNCHANGED store \/ (pc[c] = "writing" /\ WriteRecord(c))
    BY <1>1 DEF Begin, RejectInput, Serve, Acquire, PrepareAdd, PrepareRemove, Prepare, RefuseCall,
                Save, ReadFails, WriteFails, Cancel, CancelWaiting, CancelReading, CancelWriting, Abandon
  <1>2. ASSUME Crash
        PROVE  UNCHANGED store \/ \E c \in Call : pc[c] = "writing" /\ WriteRecord(c)
    BY <1>2 DEF Crash, Abandon, Busy
  <1>3. ASSUME NEW m \in Model, NEW i \in Id
        PROVE  ~ Curate(m, i)
    BY DEF Curate, OnlyLockedWrites
  <1>4. late = {}
    BY DEF LockInv
  <1> QED
    BY <1>1, <1>2, <1>3, <1>4 DEF Next, vars

\* The step that takes a memory out of a record is the put of a forget of its author.
LEMMA ForgetStep ==
    ASSUME OnlyLockedWrites, LockInv, RecordInv, [Next]_vars,
           NEW m \in Model, NEW x \in store[m] \ store'[m]
    PROVE  \E c \in Call :
              /\ pc[c] = "writing"
              /\ ask[c] = [op |-> "remove", model |-> m, user |-> x.author, id |-> x.id]
  <1>1. PICK c \in Call : pc[c] = "writing" /\ WriteRecord(c)
    BY StepWrites
  <1>2. /\ ask[c] \in Request
        /\ store \in [Model -> SUBSET Memory]
        /\ base[c] = store[ask[c].model]
    BY <1>1, RequestModel DEF LockInv, WriterIsCurrent, TypeInv, TypeOK, StoreTypeOK
  <1>3. ask[c].model = m /\ x \in base[c] /\ x \notin Draft(c)
    BY <1>1, <1>2 DEF WriteRecord
  <1>4. ask[c].op # "add"
    BY <1>3 DEF Draft
  <1>5. ask[c] \in RemoveRequest
    BY <1>2, <1>4 DEF Request, AddRequest
  <1>6. x.id = target[c] /\ target[c] = ask[c].id
    BY <1>1, <1>3, <1>4 DEF Draft, Without, LockInv, Prepared
  <1>7. x.author = ask[c].user
    <2>1. PICK y \in base[c] : y.id = target[c] /\ y.author = ask[c].user
      BY <1>1, <1>4 DEF LockInv, Prepared, Owns
    <2>2. x = y
      BY <1>2, <1>3, <1>6, <2>1 DEF RecordInv, RecordWellFormed, WellFormed
    <2> QED
      BY <2>1, <2>2
  <1>8. ask[c] = [op |-> "remove", model |-> m, user |-> x.author, id |-> x.id]
    BY <1>3, <1>5, <1>6, <1>7 DEF RemoveRequest
  <1> QED
    BY <1>1, <1>8

(***************************************************************************)
(* A memory leaves its record only by its own author's forget call         *)
(* (memory.py:112-117).                                                    *)
(***************************************************************************)
THEOREM OnlyAuthorsForget ==
    ASSUME OnlyLockedWrites
    PROVE  Spec => OnlyTheAuthorForgets
  <1>1. LockInv /\ [Next]_vars => LockInv'
    BY LockInvNext
  <1>2. LockInv /\ RecordInv /\ [Next]_vars =>
          [\A m \in Model : \A x \in store[m] \ store'[m] :
             \E c \in Call :
                /\ pc[c] = "writing"
                /\ ask[c] = [op |-> "remove", model |-> m, user |-> x.author, id |-> x.id]]_vars
    BY ForgetStep
  <1> QED
    BY <1>1, <1>2, LockInvInit, RecordInvInit, RecordInvNext, PTL DEF Spec, OnlyTheAuthorForgets

-----------------------------------------------------------------------------
(***************************************************************************)
(* Each step of the detailed store is a step of the abstract one, or       *)
(* leaves what it shows unchanged: queueing, acquiring and reading do.     *)
(***************************************************************************)
LEMMA FailStep ==
    ASSUME LockInv, NEW c \in Call, pc[c] # "idle", Answer(c, "failed"),
           UNCHANGED store \/ (pc[c] = "writing" /\ WriteRecord(c))
    PROVE  Fail({c})
  <1>1. ask[c] # Nothing /\ DOMAIN ask = Call /\ DOMAIN reply = Call
    BY DEF LockInv, TypeInv, Asked, TypeOK, StoreTypeOK
  <1>2. UNCHANGED store \/ \E record \in Outcomes(ask[c], store[ask[c].model]) :
                              store' = [store EXCEPT ![ask[c].model] = record]
    BY HolderWrites DEF WriteRecord
  <1>3. /\ ask' = [d \in Call |-> IF d \in {c} THEN Nothing ELSE ask[d]]
        /\ reply' = [d \in Call |-> IF d \in {c} THEN "failed" ELSE reply[d]]
    BY <1>1 DEF Answer
  <1> QED
    BY <1>1, <1>2, <1>3 DEF Fail

\* Every step of the implementation is a step of the atomic store, or none.
LEMMA StoreStep ==
    ASSUME OnlyLockedWrites
    PROVE  LockInv /\ [Next]_vars => [StoreNext]_storeVars
  <1> SUFFICES ASSUME LockInv, [Next]_vars
               PROVE  [StoreNext]_storeVars
    OBVIOUS
  <1>1. ASSUME NEW c \in Call, Begin(c)
        PROVE  Ask(c)
    BY <1>1 DEF Begin, Ask, LockInv, IdleAsksNothing
  <1>2. ASSUME NEW c \in Call, RejectInput(c)
        PROVE  Reject(c)
    BY <1>2 DEF RejectInput, Reject, LockInv, IdleAsksNothing
  <1>3. ASSUME NEW c \in Call, Acquire(c) \/ PrepareAdd(c) \/ PrepareRemove(c)
        PROVE  UNCHANGED storeVars
    BY <1>3 DEF Acquire, PrepareAdd, PrepareRemove, Prepare, storeVars
  <1>4. ASSUME NEW c \in Call, RefuseCall(c)
        PROVE  Refuse(c)
    BY <1>4 DEF RefuseCall, Refuse, Answer, LockInv, TypeInv, Asked
  <1>5. ASSUME NEW c \in Call, Save(c)
        PROVE  Perform(c)
    <2>1. Draft(c) \in Outcomes(ask[c], store[ask[c].model]) /\ ask[c] # Nothing
      BY <1>5, HolderWrites DEF Save, LockInv, TypeInv, Asked
    <2> QED
      BY <1>5, <2>1 DEF Save, WriteRecord, Answer, Perform
  <1>6. ASSUME NEW c \in Call, ReadFails(c) \/ WriteFails(c) \/ Cancel(c)
        PROVE  Fail({c})
    <2>1. /\ pc[c] # "idle" /\ Answer(c, "failed")
          /\ UNCHANGED store \/ (pc[c] = "writing" /\ WriteRecord(c))
      BY <1>6
      DEF ReadFails, WriteFails, Cancel, CancelWaiting, CancelReading, CancelWriting, Abandon
    <2> QED
      BY <2>1, FailStep
  <1>7. ASSUME Crash
        PROVE  Fail(Busy)
    <2>1. \A c \in Busy : c \in Call /\ ask[c] # Nothing
      BY DEF Busy, LockInv, TypeInv, Asked
    <2>2. \A c \in Call \ Busy : ask[c] = Nothing
      BY DEF Busy, LockInv, IdleAsksNothing
    <2>3. ask' = [c \in Call |-> IF c \in Busy THEN Nothing ELSE ask[c]]
      BY <1>7, <2>2 DEF Crash
    <2>4. UNCHANGED store \/ \E c \in Busy :
             \E record \in Outcomes(ask[c], store[ask[c].model]) :
                store' = [store EXCEPT ![ask[c].model] = record]
      BY <1>7, <2>1, HolderWrites DEF Crash, Abandon, WriteRecord
    <2> QED
      BY <1>7, <2>1, <2>3, <2>4 DEF Crash, Fail
  <1>8. ASSUME NEW m \in Model, NEW i \in Id
        PROVE  ~ Curate(m, i)
    BY DEF Curate, OnlyLockedWrites
  <1>9. late = {} /\ Busy \in SUBSET Call /\ \A c \in Call : {c} \in SUBSET Call
    BY DEF LockInv, Busy
  <1>10. CASE UNCHANGED vars
    BY <1>10 DEF vars, storeVars
  <1> QED
    BY <1>1, <1>2, <1>3, <1>4, <1>5, <1>6, <1>7, <1>8, <1>9, <1>10
    DEF Next, Serve, StoreNext

(***************************************************************************)
(* The lock, the queue and the read before the write implement a store     *)
(* whose calls are atomic (Memories.add and remove, memory.py:79-118).     *)
(***************************************************************************)
THEOREM MemoriesAreAtomic ==
    ASSUME OnlyLockedWrites
    PROVE  Spec => ImplementsStore
  <1>1. LockInv /\ [Next]_vars => LockInv'
    BY LockInvNext
  <1>2. LockInv /\ [Next]_vars => [StoreNext]_storeVars
    BY StoreStep
  <1>3. Init => StoreInit
    BY DEF Init
  <1> QED
    BY <1>1, <1>2, <1>3, LockInvInit, PTL DEF Spec, ImplementsStore, StoreSpec

=============================================================================
