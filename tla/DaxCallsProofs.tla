--------------------------- MODULE DaxCallsProofs ---------------------------
(***************************************************************************)
(* Proofs about DaxCalls, for every set of queries, every way validate_dax *)
(* may draw the line through it, every row cap and any number of changes   *)
(* of the schema and the notes around a call.                              *)
(***************************************************************************)
EXTENDS DaxCalls, FiniteSetTheorems, WellFoundedInduction, TLAPS

Stages == {"idle", "schema", "notes", "generating", "running", "repairing", "rerunning",
           "executing"}

\* No query is sent but a checked one, and none without a cap within the limit.
QueryInv ==
    /\ at \in Stages
    /\ at # "idle" => cap \in Nat /\ cap <= RowsLimit
    /\ at \in {"running", "repairing", "rerunning"} => first \in Checked
    /\ at = "rerunning" => second \in Checked
    /\ answer.kind \in {"dax", "rows", "errors"} => answer.dax \in Checked

\* The deployment was asked once before the first run, on the grounding of the call.
PromptInv ==
    /\ prompts \in Seq([schema : Version, notes : Version, history : BOOLEAN])
    /\ schema \in Version /\ notes \in Version /\ history \in BOOLEAN
    /\ published \in Version /\ remembered \in Version
    /\ at \in {"schema", "notes"} => prompts = <<>>
    /\ at \in {"generating", "running"} =>
          Len(prompts) = 1 /\ prompts[1].schema = schema /\ prompts[1].notes = notes
    /\ RepairKeepsGrounding

(***************************************************************************)
(* The inductive invariant.  That a query runs checked rests on it having  *)
(* been checked two awaits earlier; that the repair has the grounding of   *)
(* the first attempt, on the call keeping both until then.                 *)
(***************************************************************************)
DaxInv == QueryInv /\ PromptInv

-----------------------------------------------------------------------------
\* The cap of a call is a number within the limit, whatever the caller passed.
LEMMA CapWithinLimit ==
    ASSUME NEW rows \in RowsWanted \cup {NoRows}
    PROVE  RowCap(rows) \in Nat /\ RowCap(rows) <= RowsLimit
  BY RowsAssumption DEF RowCap

\* A prompt on the present grounding is added to those of the call.
LEMMA Asked ==
    ASSUME PromptInv, NEW h \in BOOLEAN, NEW n \in Version
    PROVE  LET asked == Append(prompts, [schema |-> schema, notes |-> n, history |-> h])
           IN  /\ asked \in Seq([schema : Version, notes : Version, history : BOOLEAN])
               /\ Len(asked) = Len(prompts) + 1
               /\ asked[Len(prompts) + 1] = [schema |-> schema, notes |-> n, history |-> h]
               /\ Len(prompts) = 1 => asked[1] = prompts[1]
  BY DEF PromptInv

\* The invariant holds of a server that has answered nothing yet.
LEMMA DaxInvInit == Init => DaxInv
  <1> SUFFICES ASSUME Init
               PROVE  DaxInv
    OBVIOUS
  <1>1. QueryInv
    BY DEF Init, QueryInv, Stages, Silence
  <1>2. prompts = <<>> /\ 0 \in Version
    BY VersionAssumption DEF Init, Version
  <1>3. PromptInv
    <2>1. Len(prompts) = 0 /\ prompts \in Seq([schema : Version, notes : Version, history : BOOLEAN])
      BY <1>2
    <2>2. RepairKeepsGrounding
      BY <2>1 DEF RepairKeepsGrounding
    <2> QED
      BY <1>2, <2>1, <2>2 DEF Init, PromptInv
  <1> QED
    BY <1>1, <1>3 DEF DaxInv

\* Steps that answer the call, or end it without an answer, and change nothing else of it.
LEMMA Ended ==
    ASSUME DaxInv, NEW a, End(a), a.kind \in {"dax", "rows", "errors"} => a.dax \in Checked,
           UNCHANGED <<grounding, prompts, history, world>>
    PROVE  DaxInv'
  <1>1. QueryInv'
    BY DEF DaxInv, QueryInv, End, Stages
  <1>2. PromptInv'
    BY DEF DaxInv, PromptInv, End, grounding, world, RepairKeepsGrounding, Version
  <1> QED
    BY <1>1, <1>2 DEF DaxInv

\* Every step of a call, and of the world around it, keeps the invariant.
LEMMA DaxInvNext == DaxInv /\ [Next]_vars => DaxInv'
  <1> SUFFICES ASSUME DaxInv, [Next]_vars
               PROVE  DaxInv'
    OBVIOUS
  <1> USE DEF DaxInv, world, request, grounding, generation, execution
  <1>1. ASSUME NEW rows \in RowsWanted \cup {NoRows}, NEW execute \in BOOLEAN, NEW chat \in BOOLEAN,
               Generate(rows, execute, chat)
        PROVE  DaxInv'
    <2>1. QueryInv'
      BY <1>1, CapWithinLimit DEF Generate, Fresh, QueryInv, Stages, Silence
    <2>2. PromptInv'
      BY <1>1 DEF Generate, Fresh, PromptInv, RepairKeepsGrounding, Version
    <2> QED
      BY <2>1, <2>2
  <1>2. ASSUME NEW rows \in RowsWanted \cup {NoRows}, NEW queries \in Batch, Execute(rows, queries)
        PROVE  DaxInv'
    <2>1. QueryInv'
      BY <1>2, CapWithinLimit DEF Execute, Fresh, QueryInv, Stages, Silence
    <2>2. PromptInv'
      BY <1>2 DEF Execute, Fresh, PromptInv, RepairKeepsGrounding, Version
    <2> QED
      BY <2>1, <2>2
  <1>3. CASE RejectInput
    <2>1. QueryInv'
      BY <1>3 DEF RejectInput, QueryInv, Raised
    <2>2. PromptInv'
      BY <1>3 DEF RejectInput, PromptInv, RepairKeepsGrounding, Version
    <2> QED
      BY <2>1, <2>2
  <1>4. CASE GroundingFails \/ NotConfigured \/ GenerationFails
    <2>1. End(Raised) /\ UNCHANGED <<grounding, prompts, history, world>>
      BY <1>4 DEF GroundingFails, NotConfigured, GenerationFails
    <2> QED
      BY <2>1, Ended DEF Raised
  <1>5. CASE Cancel
    <2>1. End(Silence) /\ UNCHANGED <<grounding, prompts, history, world>>
      BY <1>5 DEF Cancel
    <2> QED
      BY <2>1, Ended DEF Silence
  <1>6. CASE SchemaKnown
    <2>1. QueryInv'
      BY <1>6 DEF SchemaKnown, QueryInv, Stages
    <2>2. schema' \in Version
      BY <1>6, VersionAssumption DEF SchemaKnown, PromptInv, Version
    <2>3. PromptInv'
      BY <1>6, <2>2 DEF SchemaKnown, PromptInv, RepairKeepsGrounding, Version
    <2> QED
      BY <2>1, <2>3
  <1>7. CASE NotesKnown
    <2>1. QueryInv'
      BY <1>7 DEF NotesKnown, QueryInv, Stages
    <2>2. /\ notes' = remembered /\ remembered \in Version /\ history \in BOOLEAN
          /\ prompts' = Append(prompts, [schema |-> schema, notes |-> remembered, history |-> history])
          /\ Len(prompts) = 0 /\ at' = "generating"
          /\ UNCHANGED <<schema, history, published, remembered>>
      BY <1>7 DEF NotesKnown, PromptInv
    <2>3. /\ prompts' \in Seq([schema : Version, notes : Version, history : BOOLEAN])
          /\ Len(prompts') = 1
          /\ prompts'[1] = [schema |-> schema, notes |-> remembered, history |-> history]
      BY <2>2, Asked
    <2>4. PromptInv'
      BY <2>2, <2>3 DEF PromptInv, RepairKeepsGrounding, Version
    <2> QED
      BY <2>1, <2>4
  <1>8. ASSUME NEW q \in Query, Generated(q)
        PROVE  DaxInv'
    <2>1. CASE run
      <3>1. QueryInv'
        BY <1>8, <2>1 DEF Generated, Acceptable, QueryInv, Stages
      <3>2. PromptInv'
        BY <1>8, <2>1 DEF Generated, PromptInv, RepairKeepsGrounding, Version
      <3> QED
        BY <3>1, <3>2
    <2>2. CASE ~ run
      <3>1. End([kind |-> "dax", dax |-> q]) /\ UNCHANGED <<grounding, prompts, history, world>>
        BY <1>8, <2>2 DEF Generated
      <3>2. q \in Checked
        BY <1>8 DEF Generated, Acceptable
      <3> QED
        BY <3>1, <3>2, Ended
    <2> QED
      BY <2>1, <2>2
  <1>9. ASSUME NEW q \in Query, Repaired(q)
        PROVE  DaxInv'
    <2>1. QueryInv'
      BY <1>9 DEF Repaired, Acceptable, QueryInv, Stages
    <2>2. PromptInv'
      BY <1>9 DEF Repaired, PromptInv, RepairKeepsGrounding, Version
    <2> QED
      BY <2>1, <2>2
  <1>10. CASE RepairFails
    <2>1. /\ End(BothErrors([kind |-> "other", of |-> NoQuery]))
          /\ UNCHANGED <<grounding, prompts, history, world>>
          /\ first \in Checked
      BY <1>10 DEF RepairFails, QueryInv
    <2>2. BothErrors([kind |-> "other", of |-> NoQuery]).dax = first
      BY DEF BothErrors
    <2> QED
      BY <2>1, <2>2, Ended
  <1>11. ASSUME NEW reply \in Reply, RowsArrive(reply) \/ RowsArriveAgain(reply)
         PROVE  DaxInv'
    <2>1. PICK q \in Checked :
             \E e : /\ End([kind |-> "rows", dax |-> q, result |-> ResultOf(q, reply),
                            repaired_after |-> e])
                    /\ UNCHANGED <<grounding, prompts, history, world>>
      BY <1>11 DEF RowsArrive, RowsArriveAgain, QueryInv
    <2> QED
      BY <2>1, Ended
  <1>12. ASSUME NEW reply \in Reply, QueryFails(reply)
         PROVE  DaxInv'
    <2>1. QueryInv'
      BY <1>12 DEF QueryFails, QueryInv, Stages
    <2>2. /\ prompts' = Append(prompts, [schema |-> schema, notes |-> notes, history |-> FALSE])
          /\ Len(prompts) = 1 /\ prompts[1].schema = schema /\ prompts[1].notes = notes
          /\ notes \in Version /\ at' = "repairing"
          /\ UNCHANGED <<schema, notes, history, published, remembered>>
      BY <1>12 DEF QueryFails, PromptInv
    <2>3. /\ prompts' \in Seq([schema : Version, notes : Version, history : BOOLEAN])
          /\ Len(prompts') = 2 /\ prompts'[1] = prompts[1]
          /\ prompts'[2] = [schema |-> schema, notes |-> notes, history |-> FALSE]
      <3>1. PromptInv /\ FALSE \in BOOLEAN /\ Len(prompts) + 1 = 2
        BY <2>2
      <3> QED
        BY <2>2, <3>1, Asked
    <2>4. PromptInv'
      BY <2>2, <2>3 DEF PromptInv, RepairKeepsGrounding, Version
    <2> QED
      BY <2>1, <2>4
  <1>13. ASSUME NEW reply \in Reply, QueryFailsAgain(reply)
         PROVE  DaxInv'
    <2> DEFINE last == [kind |-> ToolErrorOf(reply), of |-> second]
    <2>1. /\ End(BothErrors(last)) /\ UNCHANGED <<grounding, prompts, history, world>>
          /\ first \in Checked
      BY <1>13 DEF QueryFailsAgain, QueryInv
    <2>2. BothErrors(last).dax = first
      BY DEF BothErrors
    <2> QED
      BY <2>1, <2>2, Ended
  <1>14. ASSUME NEW reply \in Reply, TableArrives(reply)
         PROVE  DaxInv'
    <2>1. CASE UNCHANGED <<at, answer>>
      <3>1. QueryInv'
        BY <1>14, <2>1 DEF TableArrives, QueryInv
      <3>2. PromptInv'
        BY <1>14, <2>1 DEF TableArrives, PromptInv, RepairKeepsGrounding, Version
      <3> QED
        BY <3>1, <3>2
    <2>2. CASE End([kind |-> "tables", results |-> Merged(results')]) \/ End(Raised)
      <3>1. UNCHANGED <<grounding, prompts, history, world>>
        BY <1>14 DEF TableArrives
      <3> QED
        BY <2>2, <3>1, Ended DEF Raised
    <2> QED
      BY <1>14, <2>1, <2>2 DEF TableArrives
  <1>15. ASSUME NEW reply \in Reply, ExecuteFails(reply) \/ NoObjectArrives(reply)
         PROVE  DaxInv'
    <2>1. End(Raised) /\ UNCHANGED <<grounding, prompts, history, world>>
      BY <1>15 DEF ExecuteFails, NoObjectArrives
    <2> QED
      BY <2>1, Ended DEF Raised
  <1>16. CASE Publish \/ Remember
    <2>1. QueryInv'
      BY <1>16 DEF Publish, Remember, QueryInv
    <2>2. published' \in Version /\ remembered' \in Version
      BY <1>16, VersionAssumption DEF Publish, Remember, PromptInv, Version
    <2>3. PromptInv'
      BY <1>16, <2>2 DEF Publish, Remember, PromptInv, RepairKeepsGrounding, Version
    <2> QED
      BY <2>1, <2>3
  <1>17. CASE UNCHANGED vars
    BY <1>17 DEF vars, QueryInv, PromptInv, RepairKeepsGrounding, Version
  <1> QED
    BY <1>1, <1>2, <1>3, <1>4, <1>5, <1>6, <1>7, <1>8, <1>9, <1>10, <1>11, <1>12, <1>13, <1>14,
       <1>15, <1>16, <1>17 DEF Next, Proceed, Begin

(***************************************************************************)
(* No query the deployment wrote is run, repaired or returned unchecked,   *)
(* and none of either tool asks for more rows than the limit.              *)
(***************************************************************************)
THEOREM QueriesAreChecked == Spec => []OnlyCheckedQueriesRun
  <1>1. DaxInv => OnlyCheckedQueriesRun
    BY DEF DaxInv, QueryInv, OnlyCheckedQueriesRun
  <1> QED
    BY <1>1, DaxInvInit, DaxInvNext, PTL DEF Spec

(***************************************************************************)
(* There is at most one repair, on the grounding of the first attempt.     *)
(***************************************************************************)
THEOREM RepairIsGrounded == Spec => []RepairKeepsGrounding
  <1>1. DaxInv => RepairKeepsGrounding
    BY DEF DaxInv, PromptInv
  <1> QED
    BY <1>1, DaxInvInit, DaxInvNext, PTL DEF Spec

-----------------------------------------------------------------------------
(***************************************************************************)
(* Induction up to a number, over a set: a set that has 0 and, with each   *)
(* number below n, the next one, has all numbers up to n.                  *)
(***************************************************************************)
LEMMA CountingUp ==
    ASSUME NEW n \in Nat, NEW T, 0 \in T, \A k \in 0..n : k < n /\ k \in T => k + 1 \in T
    PROVE  0..n \subseteq T
  <1> DEFINE order == StrictSubsetOrdering(1..n)
             missed == {k \in 0..n : k \notin T}
             prefixes == {1..k : k \in missed}
  <1> SUFFICES ASSUME missed # {}
               PROVE  FALSE
    OBVIOUS
  <1>1. prefixes \subseteq FiniteSubsetsOf(1..n) /\ prefixes # {}
    <2>1. ASSUME NEW k \in missed
          PROVE  1..k \in SUBSET (1..n) /\ IsFiniteSet(1..k)
      BY FS_Interval
    <2> QED
      BY <2>1 DEF FiniteSubsetsOf
  <1>2. \E x \in prefixes : \A y \in prefixes : ~ (<<y, x>> \in order)
    <2> HIDE DEF prefixes, order
    <2> QED
      BY <1>1, FS_StrictSubsetOrderingWellFounded, WFMin DEF order
  <1>3. PICK k \in missed : \A j \in missed : ~ (<<1..j, 1..k>> \in order)
    BY <1>2
  <1>4. k \in 0..n /\ k \notin T /\ k # 0
    OBVIOUS
  <1>5. k - 1 \in 0..n /\ k - 1 < n /\ (k - 1) + 1 = k
    BY <1>4
  <1>6. k - 1 \in missed
    BY <1>4, <1>5
  <1>7. <<1..(k - 1), 1..k>> \in order
    <2>1. 1..(k - 1) \subseteq 1..k /\ 1..k \subseteq 1..n
      BY <1>4
    <2>2. k \in 1..k /\ k \notin 1..(k - 1)
      BY <1>4
    <2> QED
      BY <2>1, <2>2 DEF StrictSubsetOrdering
  <1> QED
    BY <1>3, <1>6, <1>7

\* What the loop over the results has after k of them, if g is what it had before.
TablesAfter(all, g, k) ==
    IF k = 0 THEN <<>>
    ELSE IF HasTable(all[k]) THEN Append(g[k - 1], all[k]) ELSE g[k - 1]

\* The loop over n results has a state after each of them.
LEMMA TablesDefined ==
    ASSUME NEW all, NEW n \in Nat
    PROVE  \E g : g = [k \in 0..n |-> TablesAfter(all, g, k)]
  <1> DEFINE T == {m \in 0..n : \E g : g = [k \in 0..m |-> TablesAfter(all, g, k)]}
  <1>1. 0 \in T
    <2> DEFINE g == [k \in 0..0 |-> <<>>]
    <2>1. g = [k \in 0..0 |-> TablesAfter(all, g, k)]
      BY DEF TablesAfter
    <2> HIDE DEF g
    <2> QED
      BY <2>1
  <1>2. ASSUME NEW m \in 0..n, m < n, m \in T
        PROVE  m + 1 \in T
    <2>1. PICK g : g = [k \in 0..m |-> TablesAfter(all, g, k)]
      BY <1>2
    <2> DEFINE h == [k \in 0..(m + 1) |-> TablesAfter(all, g, k)]
    <2>2. \A k \in 0..m : h[k] = g[k]
      <3>1. \A k \in 0..m : k \in 0..(m + 1) /\ g[k] = TablesAfter(all, g, k)
        BY <2>1
      <3> QED
        BY <3>1
    <2>3. \A k \in 0..(m + 1) : TablesAfter(all, g, k) = TablesAfter(all, h, k)
      <3>1. \A k \in 0..(m + 1) : k # 0 => k - 1 \in 0..m
        OBVIOUS
      <3> HIDE DEF h
      <3> QED
        BY <2>2, <3>1 DEF TablesAfter
    <2>4. h = [k \in 0..(m + 1) |-> TablesAfter(all, h, k)]
      <3> DEFINE f == h
      <3>1. f = [k \in 0..(m + 1) |-> TablesAfter(all, g, k)]
        OBVIOUS
      <3>2. \A k \in 0..(m + 1) : TablesAfter(all, g, k) = TablesAfter(all, f, k)
        BY <2>3
      <3> HIDE DEF f, h
      <3>3. f = [k \in 0..(m + 1) |-> TablesAfter(all, f, k)]
        BY <3>1, <3>2
      <3> QED
        BY <3>3 DEF f
    <2>5. m + 1 \in 0..n
      BY <1>2
    <2> HIDE DEF h
    <2> QED
      BY <2>4, <2>5
  <1>3. 0..n \subseteq T
    <2> HIDE DEF T
    <2> QED
      BY <1>1, <1>2, CountingUp
  <1> QED
    BY <1>3

(***************************************************************************)
(* The tables of some results are among them, each in the place its result *)
(* has: there is an order-preserving map from the tables to the results.   *)
(***************************************************************************)
InOrder(tables, all, n) ==
    /\ Len(tables) <= n
    /\ \E place \in [1..Len(tables) -> 1..n] :
          /\ \A k \in 1..Len(tables) : tables[k] = all[place[k]]
          /\ \A k, l \in 1..Len(tables) : k < l => place[k] < place[l]

LEMMA TablesInOrder ==
    ASSUME NEW S, NEW all \in Seq(S)
    PROVE  TablesOf(all) \in Seq(S) /\ InOrder(TablesOf(all), all, Len(all))
  <1> DEFINE n == Len(all)
             loop == CHOOSE g : g = [k \in 0..n |-> TablesAfter(all, g, k)]
             T == {k \in 0..n : loop[k] \in Seq(S) /\ InOrder(loop[k], all, k)}
  <1>1. n \in Nat /\ \A k \in 1..n : all[k] \in S
    OBVIOUS
  <1>2. TablesOf(all) = loop[n]
    BY Zenon DEF TablesOf, TablesAfter
  <1>3. loop = [k \in 0..n |-> TablesAfter(all, loop, k)]
    <2> HIDE DEF n
    <2> QED
      BY <1>1, TablesDefined, Zenon
  <1> HIDE DEF loop, n
  <1>4. /\ loop[0] = <<>>
        /\ \A k \in 0..n : k < n =>
              loop[k + 1] = IF HasTable(all[k + 1]) THEN Append(loop[k], all[k + 1]) ELSE loop[k]
    <2>1. \A k \in 0..n : loop[k] = TablesAfter(all, loop, k)
      BY <1>3
    <2>2. 0 \in 0..n /\ \A k \in 0..n : k < n => k + 1 \in 0..n /\ k + 1 # 0 /\ (k + 1) - 1 = k
      BY <1>1
    <2> QED
      BY <2>1, <2>2 DEF TablesAfter
  <1>5. 0 \in T
    <2>1. loop[0] \in Seq(S) /\ Len(loop[0]) = 0
      BY <1>4
    <2>2. InOrder(loop[0], all, 0)
      <3> DEFINE none == [k \in 1..Len(loop[0]) |-> k]
      <3>1. none \in [1..Len(loop[0]) -> 1..0] /\ 1..Len(loop[0]) = {}
        BY <2>1
      <3> QED
        BY <2>1, <3>1 DEF InOrder
    <2> QED
      BY <1>1, <2>1, <2>2
  <1>6. ASSUME NEW k \in 0..n, k < n, k \in T
        PROVE  k + 1 \in T
    <2>1. loop[k] \in Seq(S) /\ InOrder(loop[k], all, k) /\ k + 1 \in 0..n /\ all[k + 1] \in S
          /\ k \in Nat
      BY <1>1, <1>6
    <2>2. PICK pos \in [1..Len(loop[k]) -> 1..k] :
             /\ \A j \in 1..Len(loop[k]) : loop[k][j] = all[pos[j]]
             /\ \A i, j \in 1..Len(loop[k]) : i < j => pos[i] < pos[j]
      BY <2>1 DEF InOrder
    <2>3. Len(loop[k]) \in Nat /\ Len(loop[k]) <= k
      BY <2>1 DEF InOrder
    <2>4. CASE HasTable(all[k + 1])
      <3> DEFINE more == loop[k + 1]
                 size == Len(loop[k]) + 1
                 to == [j \in 1..size |-> IF j = size THEN k + 1 ELSE pos[j]]
      <3>1. /\ more \in Seq(S) /\ Len(more) = size /\ size <= k + 1
            /\ more[size] = all[k + 1] /\ \A j \in 1..Len(loop[k]) : more[j] = loop[k][j]
        <4>1. more = Append(loop[k], all[k + 1])
          BY <1>4, <1>6, <2>4
        <4> QED
          BY <2>1, <2>3, <4>1
      <3>2. \A j \in 1..size : j # size => j \in 1..Len(loop[k])
        BY <2>3
      <3>3. /\ to \in [1..size -> 1..(k + 1)] /\ to[size] = k + 1
            /\ \A j \in 1..Len(loop[k]) : to[j] = pos[j] /\ to[j] < k + 1
        <4>1. size \in 1..size /\ k + 1 \in 1..(k + 1)
          BY <2>1, <2>3
        <4>2. \A j \in 1..Len(loop[k]) :
                 j \in 1..size /\ j # size /\ pos[j] \in 1..(k + 1) /\ pos[j] < k + 1
          <5>1. \A j \in 1..Len(loop[k]) : pos[j] \in 1..k
            OBVIOUS
          <5> QED
            BY <2>1, <2>3, <5>1
        <4> HIDE DEF size
        <4> QED
          BY <3>2, <4>1, <4>2
      <3> HIDE DEF more, size, to
      <3>4. \A j \in 1..size : more[j] = all[to[j]]
        BY <2>2, <3>1, <3>2, <3>3
      <3>5. \A i, j \in 1..size : i < j => to[i] < to[j]
        BY <2>2, <2>3, <3>2, <3>3 DEF size
      <3>6. InOrder(more, all, k + 1)
        BY <3>1, <3>3, <3>4, <3>5 DEF InOrder
      <3> QED
        BY <2>1, <3>1, <3>6 DEF more
    <2>5. CASE ~ HasTable(all[k + 1])
      <3>1. loop[k + 1] = loop[k]
        BY <1>4, <1>6, <2>5
      <3>2. pos \in [1..Len(loop[k]) -> 1..(k + 1)]
        BY <2>1
      <3>3. Len(loop[k]) <= k + 1
        BY <2>1, <2>3
      <3>4. InOrder(loop[k], all, k + 1)
        BY <2>2, <3>2, <3>3 DEF InOrder
      <3> QED
        BY <2>1, <3>1, <3>4
    <2> QED
      BY <2>4, <2>5
  <1>7. 0..n \subseteq T
    <2> HIDE DEF T
    <2> QED
      BY <1>1, <1>5, <1>6, CountingUp
  <1>8. n \in T
    BY <1>1, <1>7
  <1> QED
    BY <1>2, <1>8 DEF n

-----------------------------------------------------------------------------
\* What an answer has to fit: the attempts and the queries of its call.
Fits(a) ==
    /\ a.kind = "rows" =>
          /\ a.result.of = a.dax
          /\ a.result.body \in {"rows", "bare"}
          /\ a.repaired_after # NoError => a.repaired_after.of = first
          /\ a.repaired_after = NoError => a.dax = first
    /\ a.kind = "errors" =>
          /\ a.execution_error.of = a.dax
          /\ a.repair_error.of = second
    /\ a.kind = "tables" =>
          /\ Len(a.results) <= Len(batch)
          /\ \A k \in DOMAIN a.results : a.results[k].body \in {"rows", "bare", "array"}
          /\ \A k, l \in DOMAIN a.results : k <= l =>
                \E i, j \in DOMAIN batch :
                   /\ i <= j /\ (k < l => i < j)
                   /\ a.results[k].of = batch[i] /\ a.results[l].of = batch[j]

\* What the call knows of its attempts, until it is answered.
AttemptInv ==
    /\ at # "idle" => answer = Silence
    /\ at \in Stages \ {"idle", "rerunning"} => second = NoQuery
    /\ at \in {"repairing", "rerunning"} => error \in Failure /\ error.of = first

\* execute_dax has one result for each query it has sent, and sends one more.
ExecuteInv ==
    at = "executing" =>
        /\ Len(results) < Len(batch)
        /\ \A k \in 1..Len(results) : results[k].of = batch[k] /\ results[k].body \in Payload

(***************************************************************************)
(* The inductive invariant of the answers.  An answer is put together from *)
(* what several awaits left behind: the first query and its error survive  *)
(* to the second run, and the results of a batch line up with its queries. *)
(***************************************************************************)
AnswerInv == DaxInv /\ TypeOK /\ AttemptInv /\ ExecuteInv /\ Fits(answer)

\* Each shape of an answer.
LEMMA AnswerShapes ==
    /\ Silence \in Answer /\ Raised \in Answer
    /\ \A q \in Query : [kind |-> "dax", dax |-> q] \in Answer
    /\ \A q \in Query, r \in Result, e \in Failure \cup {NoError} :
          [kind |-> "rows", dax |-> q, result |-> r, repaired_after |-> e] \in Answer
    /\ \A q \in Query, e, f \in Failure :
          [kind |-> "errors", dax |-> q, execution_error |-> e, repair_error |-> f] \in Answer
    /\ \A s \in Seq(Result) : [kind |-> "tables", results |-> s] \in Answer
  <1>1. Silence \in Answer /\ Raised \in Answer
    BY DEF Answer
  <1>2. \A q \in Query : [kind |-> "dax", dax |-> q] \in [kind : {"dax"}, dax : Query]
    OBVIOUS
  <1>3. \A q \in Query, r \in Result, e \in Failure \cup {NoError} :
           [kind |-> "rows", dax |-> q, result |-> r, repaired_after |-> e]
           \in [kind : {"rows"}, dax : Query, result : Result, repaired_after : Failure \cup {NoError}]
    OBVIOUS
  <1>4. \A q \in Query, e, f \in Failure :
           [kind |-> "errors", dax |-> q, execution_error |-> e, repair_error |-> f]
           \in [kind : {"errors"}, dax : Query, execution_error : Failure, repair_error : Failure]
    OBVIOUS
  <1>5. \A s \in Seq(Result) :
           [kind |-> "tables", results |-> s] \in [kind : {"tables"}, results : Seq(Result)]
    OBVIOUS
  <1> QED
    BY <1>1, <1>2, <1>3, <1>4, <1>5, Zenon DEF Answer

\* What a successful reply makes of a query.
LEMMA ResultShape ==
    ASSUME TypeOK, NEW q \in Query, NEW reply \in Reply, Succeeds(reply)
    PROVE  /\ ResultOf(q, reply) \in Result
           /\ ResultOf(q, reply).of = q /\ ResultOf(q, reply).body \in Payload
  <1>1. reply.body \in Payload /\ Payload \subseteq Body
    BY DEF Succeeds, Payload, Body
  <1> QED
    BY <1>1 DEF ResultOf, Result, TypeOK

\* What a failed one is told as.
LEMMA FailureShape ==
    ASSUME NEW reply, NEW q \in Query \cup {NoQuery}
    PROVE  /\ [kind |-> ToolErrorOf(reply), of |-> q] \in Failure
           /\ [kind |-> "other", of |-> q] \in Failure
  BY DEF ToolErrorOf, Told, Failure

\* A failure is none of "no error".
LEMMA FailureIsAnError == \A e \in Failure : e # NoError /\ e \in Failure \cup {NoError}
  BY DEF Failure, NoError, Told

LEMMA AnswerInvInit == Init => AnswerInv
  <1> SUFFICES ASSUME Init
               PROVE  AnswerInv
    OBVIOUS
  <1>1. TypeOK
    <2>1. DefaultRows \in Rows /\ 0 \in Version
      BY VersionAssumption DEF Rows, Version
    <2>2. /\ prompts \in Seq(Prompt) /\ batch \in Seq(Query) /\ results \in Seq(Result)
          /\ answer \in Answer
      BY AnswerShapes DEF Init
    <2> QED
      BY <2>1, <2>2 DEF Init, TypeOK
  <1>2. AttemptInv /\ ExecuteInv /\ Fits(answer)
    BY DEF Init, AttemptInv, ExecuteInv, Fits, Silence, Stages
  <1> QED
    BY <1>1, <1>2, DaxInvInit DEF AnswerInv

\* The answer fits while a call runs, since there is none yet.
LEMMA SilenceFits == Fits(Silence) /\ Fits(Raised) /\ \A q : Fits([kind |-> "dax", dax |-> q])
  BY DEF Fits, Silence, Raised

\* A step that ends the call with an answer that fits keeps the invariant.
LEMMA Answered ==
    ASSUME AnswerInv, DaxInv', NEW a \in Answer, End(a), Fits(a), results' \in Seq(Result),
           UNCHANGED <<request, grounding, generation, batch, world>>
    PROVE  AnswerInv'
  <1> USE DEF request, grounding, generation, world
  <1>1. TypeOK'
    BY DEF AnswerInv, TypeOK, End
  <1>2. at' = "idle" /\ answer' = a /\ UNCHANGED <<first, second, batch>>
    BY DEF End
  <1>3. Fits(answer)'
    BY <1>2 DEF Fits
  <1>4. AttemptInv' /\ ExecuteInv'
    BY <1>2 DEF AttemptInv, ExecuteInv
  <1> QED
    BY <1>1, <1>3, <1>4 DEF AnswerInv

\* A new call of either tool.
LEMMA BeginsSilent ==
    ASSUME AnswerInv, DaxInv', NEW rows \in RowsWanted \cup {NoRows},
           \/ \E execute, chat \in BOOLEAN : Generate(rows, execute, chat)
           \/ \E queries \in Batch : Execute(rows, queries)
    PROVE  AnswerInv'
  <1>1. RowCap(rows) \in Rows
    BY RowsAssumption DEF RowCap, Rows
  <1>2. /\ prompts' = <<>> /\ first' = NoQuery /\ error' = NoError /\ second' = NoQuery
        /\ results' = <<>> /\ answer' = Silence /\ cap' = RowCap(rows)
        /\ UNCHANGED <<schema, notes, configured, published, remembered>>
    BY DEF Generate, Execute, Fresh, grounding, world
  <1>3. \/ at' = "schema" /\ run' \in BOOLEAN /\ history' \in BOOLEAN /\ UNCHANGED batch
        \/ /\ at' = "executing" /\ batch' \in Seq(Query) /\ 0 < Len(batch')
           /\ UNCHANGED <<run, history>>
    BY BatchAssumption DEF Generate, Execute, BatchAccepted
  <1>4. TypeOK'
    <2>1. prompts' \in Seq(Prompt) /\ results' \in Seq(Result) /\ answer' \in Answer
      BY <1>2, AnswerShapes
    <2>2. batch' \in Seq(Query) /\ run' \in BOOLEAN /\ history' \in BOOLEAN
      BY <1>3 DEF AnswerInv, TypeOK
    <2> QED
      BY <1>1, <1>2, <1>3, <2>1, <2>2 DEF AnswerInv, TypeOK
  <1>5. AttemptInv' /\ ExecuteInv'
    BY <1>2, <1>3 DEF AttemptInv, ExecuteInv, Stages
  <1>6. Fits(answer)'
    BY <1>2 DEF Fits, Silence
  <1> QED
    BY <1>4, <1>5, <1>6 DEF AnswerInv

\* A step of a call that answers nothing yet, and of the two tools changes the first only.
LEMMA GoesOn ==
    ASSUME AnswerInv, DaxInv', at # "idle", at' \in Stages \ {"idle", "executing"},
           UNCHANGED <<answer, request, execution, world>>,
           schema' \in Version, notes' \in Version,
           first' \in Query \cup {NoQuery}, second' \in Query \cup {NoQuery},
           error' \in Failure \cup {NoError}, AttemptInv'
    PROVE  AnswerInv'
  <1> USE DEF request, execution, world
  <1>1. prompts' \in Seq(Prompt)
    BY DEF DaxInv, PromptInv, Prompt
  <1>2. TypeOK'
    BY <1>1 DEF AnswerInv, TypeOK, Stages
  <1>3. ExecuteInv'
    BY DEF ExecuteInv
  <1>4. Fits(answer)'
    BY DEF Fits, AnswerInv, AttemptInv, Silence
  <1> QED
    BY <1>2, <1>3, <1>4 DEF AnswerInv

\* The tables of a batch fit it: each is one of its results, and they keep their order.
LEMMA TablesFit ==
    ASSUME NEW all \in Seq(Result), Len(all) = Len(batch), batch \in Seq(Query),
           \A k \in 1..Len(all) : all[k].of = batch[k] /\ all[k].body \in Payload
    PROVE  Merged(all) \in Seq(Result) /\ Fits([kind |-> "tables", results |-> Merged(all)])
  <1> DEFINE tables == Merged(all)
             n == Len(all)
  <1>1. tables \in Seq(Result) /\ InOrder(tables, all, n)
    <2>1. CASE n = 1
      <3>1. tables = all
        BY <2>1 DEF Merged
      <3>2. InOrder(all, all, n)
        <4> DEFINE same == [k \in 1..n |-> k]
        <4>1. same \in [1..Len(all) -> 1..n] /\ \A k \in 1..n : same[k] = k
          OBVIOUS
        <4> HIDE DEF same
        <4> QED
          BY <4>1 DEF InOrder
      <3> QED
        BY <3>1, <3>2
    <2>2. CASE n # 1
      BY <2>2, TablesInOrder DEF Merged
    <2> QED
      BY <2>1, <2>2
  <1> HIDE DEF tables
  <1>2. PICK pos \in [1..Len(tables) -> 1..n] :
           /\ \A k \in 1..Len(tables) : tables[k] = all[pos[k]]
           /\ \A k, l \in 1..Len(tables) : k < l => pos[k] < pos[l]
    BY <1>1 DEF InOrder
  <1>3. DOMAIN tables = 1..Len(tables) /\ DOMAIN batch = 1..n /\ Len(tables) <= Len(batch)
    BY <1>1 DEF InOrder
  <1>4. \A k \in 1..Len(tables) :
           pos[k] \in 1..n /\ tables[k].of = batch[pos[k]] /\ tables[k].body \in Payload
    BY <1>2
  <1>5. ASSUME NEW k \in 1..Len(tables), NEW l \in 1..Len(tables), k <= l
        PROVE  pos[k] <= pos[l]
    <2>1. pos[k] \in 1..n /\ pos[l] \in 1..n /\ n \in Nat
      BY <1>2
    <2>2. CASE k = l
      BY <2>1, <2>2
    <2>3. CASE k < l
      BY <1>2, <2>1, <2>3
    <2> QED
      BY <1>5, <2>2, <2>3
  <1>6. \A k, l \in DOMAIN tables : k <= l =>
           \E i, j \in DOMAIN batch :
              /\ i <= j /\ (k < l => i < j)
              /\ tables[k].of = batch[i] /\ tables[l].of = batch[j]
    BY <1>2, <1>3, <1>4, <1>5
  <1> QED
    BY <1>1, <1>3, <1>4, <1>6 DEF Fits, Payload, tables

\* Every step keeps the invariant.
LEMMA AnswerInvNext == AnswerInv /\ [Next]_vars => AnswerInv'
  <1> SUFFICES ASSUME AnswerInv, [Next]_vars
               PROVE  AnswerInv'
    OBVIOUS
  <1>0. DaxInv' /\ DaxInv /\ TypeOK /\ AttemptInv /\ ExecuteInv
    BY DaxInvNext DEF AnswerInv
  <1>1. ASSUME NEW rows \in RowsWanted \cup {NoRows},
               \/ \E execute, chat \in BOOLEAN : Generate(rows, execute, chat)
               \/ \E queries \in Batch : Execute(rows, queries)
        PROVE  AnswerInv'
    BY <1>0, <1>1, BeginsSilent
  <1>2. CASE RejectInput
    <2>1. answer' = Raised /\ at = "idle"
          /\ UNCHANGED <<at, request, grounding, generation, execution, world>>
      BY <1>2 DEF RejectInput
    <2>2. End(Raised) /\ results' \in Seq(Result)
          /\ UNCHANGED <<request, grounding, generation, batch, world>>
      BY <1>0, <2>1 DEF End, TypeOK, execution
    <2> QED
      BY <1>0, <2>2, Answered, AnswerShapes, SilenceFits
  <1>3. CASE GroundingFails \/ NotConfigured \/ GenerationFails \/ Cancel
             \/ \E reply \in Reply : ExecuteFails(reply) \/ NoObjectArrives(reply)
    <2>1. \E a \in {Raised, Silence} : End(a) /\ results' \in Seq(Result)
          /\ UNCHANGED <<request, grounding, generation, batch, world>>
      BY <1>0, <1>3
      DEF GroundingFails, NotConfigured, GenerationFails, Cancel, ExecuteFails, NoObjectArrives,
          TypeOK, execution
    <2> QED
      BY <1>0, <2>1, Answered, AnswerShapes, SilenceFits
  <1>4. CASE SchemaKnown \/ NotesKnown
    <2>1. /\ at # "idle" /\ at' \in {"notes", "generating"} /\ at \in {"schema", "notes"}
          /\ UNCHANGED <<answer, request, execution, world, first, error, second>>
          /\ schema' \in Version /\ notes' \in Version
      BY <1>0, <1>4, VersionAssumption
      DEF SchemaKnown, NotesKnown, TypeOK, Version, generation
    <2>2. AttemptInv'
      BY <1>0, <2>1 DEF AttemptInv, Stages
    <2> QED
      BY <1>0, <2>1, <2>2, GoesOn DEF TypeOK, Stages
  <1>5. ASSUME NEW q \in Query, Generated(q)
        PROVE  AnswerInv'
    <2>1. /\ at = "generating" /\ first' = q
          /\ UNCHANGED <<request, grounding, prompts, error, second, execution, world>>
      BY <1>5 DEF Generated
    <2>2. CASE at' = "running" /\ UNCHANGED answer
      <3>1. AttemptInv'
        BY <1>0, <2>1, <2>2 DEF AttemptInv, Stages
      <3> QED
        BY <1>0, <2>1, <2>2, <3>1, GoesOn DEF TypeOK, Stages, grounding
    <2>3. CASE End([kind |-> "dax", dax |-> q])
      <3>1. at' = "idle" /\ answer' = [kind |-> "dax", dax |-> q] /\ answer' \in Answer
        BY <2>3, AnswerShapes DEF End
      <3>2. TypeOK'
        BY <1>0, <2>1, <3>1 DEF TypeOK, request, grounding, execution, world
      <3>3. AttemptInv' /\ ExecuteInv' /\ Fits(answer)'
        BY <3>1 DEF AttemptInv, ExecuteInv, Fits
      <3> QED
        BY <1>0, <3>2, <3>3 DEF AnswerInv
    <2> QED
      BY <1>5, <2>2, <2>3 DEF Generated
  <1>6. ASSUME NEW reply \in Reply, RowsArrive(reply) \/ RowsArriveAgain(reply)
        PROVE  AnswerInv'
    <2>1. /\ first \in Query /\ (at = "rerunning" => second \in Query)
      BY <1>0, <1>6, QueryAssumption DEF DaxInv, QueryInv, RowsArrive, RowsArriveAgain
    <2>2. PICK q \in Query, e \in Failure \cup {NoError} :
             /\ End([kind |-> "rows", dax |-> q, result |-> ResultOf(q, reply), repaired_after |-> e])
             /\ e # NoError => e.of = first
             /\ e = NoError => q = first
      <3>1. CASE RowsArrive(reply)
        BY <2>1, <3>1 DEF RowsArrive
      <3>2. CASE RowsArriveAgain(reply)
        <4>1. at = "rerunning" /\ error \in Failure /\ error.of = first /\ error # NoError
          BY <1>0, <3>2, FailureIsAnError DEF RowsArriveAgain, AttemptInv
        <4>2. second \in Query /\ error \in Failure \cup {NoError}
          BY <2>1, <4>1
        <4>3. End([kind |-> "rows", dax |-> second, result |-> ResultOf(second, reply),
                   repaired_after |-> error])
          BY <3>2 DEF RowsArriveAgain
        <4> QED
          BY <4>1, <4>2, <4>3, Zenon
      <3> QED
        BY <1>6, <3>1, <3>2
    <2>3. /\ Succeeds(reply) /\ HasGet(reply) /\ results' \in Seq(Result)
          /\ UNCHANGED <<request, grounding, generation, batch, world>>
      BY <1>0, <1>6 DEF RowsArrive, RowsArriveAgain, TypeOK, execution
    <2> DEFINE a == [kind |-> "rows", dax |-> q, result |-> ResultOf(q, reply), repaired_after |-> e]
    <2>4. /\ ResultOf(q, reply) \in Result /\ ResultOf(q, reply).of = q
          /\ ResultOf(q, reply).body \in Payload
      BY <1>0, <2>3, ResultShape
    <2>5. a \in Answer
      BY <2>4, AnswerShapes
    <2>6. Fits(a)
      BY <2>2, <2>3, <2>4 DEF Fits, Payload, HasGet, ResultOf
    <2> HIDE DEF a
    <2>7. End(a)
      BY <2>2 DEF a
    <2> QED
      BY <1>0, <2>3, <2>5, <2>6, <2>7, Answered
  <1>7. ASSUME NEW reply \in Reply, QueryFails(reply)
        PROVE  AnswerInv'
    <2>1. /\ at = "running" /\ at' = "repairing"
          /\ error' = [kind |-> ToolErrorOf(reply), of |-> first]
          /\ UNCHANGED <<request, grounding, first, second, execution, answer, world>>
      BY <1>7 DEF QueryFails
    <2>2. first \in Query \cup {NoQuery} /\ second \in Query \cup {NoQuery}
      BY <1>0 DEF TypeOK
    <2>3. error' \in Failure /\ error'.of = first
      BY <2>1, <2>2, FailureShape
    <2>4. AttemptInv'
      BY <1>0, <2>1, <2>3 DEF AttemptInv, Stages
    <2> QED
      BY <1>0, <2>1, <2>2, <2>3, <2>4, GoesOn DEF TypeOK, Stages, grounding
  <1>8. ASSUME NEW q \in Query, Repaired(q)
        PROVE  AnswerInv'
    <2>1. /\ at = "repairing" /\ at' = "rerunning" /\ second' = q
          /\ UNCHANGED <<request, grounding, prompts, first, error, execution, answer, world>>
      BY <1>8 DEF Repaired
    <2>2. AttemptInv'
      BY <1>0, <2>1 DEF AttemptInv, Stages
    <2> QED
      BY <1>0, <2>1, <2>2, GoesOn DEF TypeOK, Stages, grounding
  <1>9. CASE RepairFails \/ \E reply \in Reply : QueryFailsAgain(reply)
    <2>1. PICK last \in Failure : End(BothErrors(last)) /\ last.of = second
      <3>1. CASE RepairFails
        <4>1. second = NoQuery
          BY <1>0, <3>1 DEF RepairFails, AttemptInv, Stages
        <4> DEFINE last == [kind |-> "other", of |-> NoQuery]
        <4>2. last \in Failure /\ last.of = second
          BY <4>1, FailureShape
        <4>3. End(BothErrors(last))
          BY <3>1 DEF RepairFails
        <4> QED
          BY <4>2, <4>3, Zenon
      <3>2. ASSUME NEW reply \in Reply, QueryFailsAgain(reply)
            PROVE  \E last \in Failure : End(BothErrors(last)) /\ last.of = second
        <4>1. second \in Query \cup {NoQuery}
          BY <1>0 DEF TypeOK
        <4> DEFINE last == [kind |-> ToolErrorOf(reply), of |-> second]
        <4>2. last \in Failure /\ last.of = second
          BY <4>1, FailureShape
        <4>3. End(BothErrors(last))
          BY <3>2 DEF QueryFailsAgain
        <4> QED
          BY <4>2, <4>3, Zenon
      <3> QED
        BY <1>9, <3>1, <3>2
    <2>2. /\ at \in {"repairing", "rerunning"} /\ results' \in Seq(Result)
          /\ UNCHANGED <<request, grounding, generation, batch, world>>
      BY <1>0, <1>9 DEF RepairFails, QueryFailsAgain, TypeOK, execution
    <2>3. first \in Query /\ error \in Failure /\ error.of = first
      BY <1>0, <2>2, QueryAssumption DEF DaxInv, QueryInv, AttemptInv
    <2>4. BothErrors(last) \in Answer /\ Fits(BothErrors(last))
      <3>1. BothErrors(last)
            = [kind |-> "errors", dax |-> first, execution_error |-> error, repair_error |-> last]
        BY DEF BothErrors
      <3>2. BothErrors(last) \in Answer
        BY <2>1, <2>3, <3>1, AnswerShapes
      <3>3. Fits(BothErrors(last))
        BY <2>1, <2>3, <3>1 DEF Fits
      <3> QED
        BY <3>2, <3>3
    <2> QED
      BY <1>0, <2>1, <2>2, <2>4, Answered
  <1>10. ASSUME NEW reply \in Reply, TableArrives(reply)
         PROVE  AnswerInv'
    <2> DEFINE n == Len(results) + 1
               next == ResultOf(batch[n], reply)
    <2>1. /\ at = "executing" /\ Succeeds(reply) /\ results' = Append(results, next)
          /\ UNCHANGED <<request, grounding, generation, batch, world>>
      BY <1>10 DEF TableArrives
    <2>2. /\ results \in Seq(Result) /\ batch \in Seq(Query) /\ Len(results) < Len(batch)
          /\ \A k \in 1..Len(results) : results[k].of = batch[k] /\ results[k].body \in Payload
      BY <1>0, <2>1 DEF TypeOK, ExecuteInv
    <2>3. n \in 1..Len(batch) /\ batch[n] \in Query /\ n \in Nat
      BY <2>2
    <2>4. next \in Result /\ next.of = batch[n] /\ next.body \in Payload
      BY <1>0, <2>1, <2>3, ResultShape
    <2> HIDE DEF next
    <2>5. /\ results' \in Seq(Result) /\ Len(results') = n /\ results'[n] = next
          /\ \A k \in 1..Len(results) : results'[k] = results[k]
      BY <2>1, <2>2, <2>4
    <2>6. \A k \in 1..n : k \in 1..Len(results) \/ k = n
      BY <2>2
    <2> HIDE DEF n
    <2>7. \A k \in 1..n : results'[k].of = batch[k] /\ results'[k].body \in Payload
      BY <2>2, <2>4, <2>5, <2>6
    <2>8. CASE n = Len(batch) /\ ~ Mergeable(results')
      <3>1. End(Raised)
        BY <1>10, <2>5, <2>8 DEF TableArrives
      <3> QED
        BY <1>0, <2>1, <2>5, <3>1, AnswerShapes, SilenceFits, Answered
    <2>10. CASE n = Len(batch) /\ Mergeable(results')
      <3>1. End([kind |-> "tables", results |-> Merged(results')])
        BY <1>10, <2>5, <2>10 DEF TableArrives
      <3>2. /\ Merged(results') \in Seq(Result)
            /\ Fits([kind |-> "tables", results |-> Merged(results')])
        BY <2>2, <2>5, <2>7, <2>10, TablesFit
      <3>3. [kind |-> "tables", results |-> Merged(results')] \in Answer
        BY <3>2, AnswerShapes
      <3> QED
        BY <1>0, <2>1, <2>5, <3>1, <3>2, <3>3, Answered
    <2>9. CASE n # Len(batch)
      <3>1. UNCHANGED <<at, answer>>
        BY <1>10, <2>5, <2>9 DEF TableArrives
      <3>2. n < Len(batch)
        BY <2>2, <2>3, <2>9
      <3>3. ExecuteInv'
        BY <2>1, <2>5, <2>7, <3>1, <3>2 DEF ExecuteInv
      <3>4. TypeOK'
        BY <1>0, <2>1, <2>5, <3>1 DEF TypeOK, request, grounding, generation, world
      <3>5. AttemptInv'
        BY <1>0, <2>1, <3>1 DEF AttemptInv, generation
      <3>6. Fits(answer)'
        BY <2>1, <3>5, <3>1 DEF AttemptInv, Fits, Silence
      <3> QED
        BY <1>0, <3>3, <3>4, <3>5, <3>6 DEF AnswerInv
    <2> QED
      BY <2>8, <2>9, <2>10
  <1>11. CASE Publish \/ Remember \/ UNCHANGED vars
    <2>1. /\ UNCHANGED <<at, cap, run, history, schema, notes, prompts, first, error, second>>
          /\ UNCHANGED <<batch, results, answer, configured>>
      BY <1>11 DEF Publish, Remember, vars, request, grounding, generation, execution
    <2>2. published' \in Version /\ remembered' \in Version
      BY <1>0, <1>11, VersionAssumption DEF Publish, Remember, vars, TypeOK, Version
    <2>3. TypeOK'
      BY <1>0, <2>1, <2>2 DEF TypeOK
    <2>4. AttemptInv' /\ ExecuteInv'
      BY <1>0, <2>1 DEF AttemptInv, ExecuteInv
    <2>5. Fits(answer)'
      BY <2>1 DEF AnswerInv, Fits
    <2> QED
      BY <1>0, <2>3, <2>4, <2>5 DEF AnswerInv
  <1> QED
    BY <1>1, <1>2, <1>3, <1>4, <1>5, <1>6, <1>7, <1>8, <1>9, <1>10, <1>11
    DEF Next, Proceed, Begin

(***************************************************************************)
(* The parts of an answer belong together, whatever the queries, however   *)
(* the two runs of generate_dax go, and however many queries of a batch    *)
(* come back without a table (gateway.py:304-325, hosted_mcp.py:128-143).  *)
(***************************************************************************)
THEOREM AnswersBelongTogether == Spec => [](TypeOK /\ AnswersAreConsistent)
  <1>1. AnswerInv => TypeOK /\ AnswersAreConsistent
    BY DEF AnswerInv, Fits, AnswersAreConsistent
  <1> QED
    BY <1>1, AnswerInvInit, AnswerInvNext, PTL DEF Spec
=============================================================================
