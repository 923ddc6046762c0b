---------------------------- MODULE ListingProofs ----------------------------
(***************************************************************************)
(* Proofs about Listing, for every set of workspaces and models, however   *)
(* many pages Fabric makes of them, and any number of permits.             *)
(***************************************************************************)
EXTENDS Listing, FiniteSetTheorems, TLAPS

\* What the pages of p before page n hold.
Before(p, n) == UNION {Content[p][k] : k \in 1..(n - 1)}

\* The permits that are out are those of the requests in flight.
PermitInv ==
    /\ IsFiniteSet(Held) /\ Cardinality(Held) + free = Permits
    /\ IsFiniteSet(ProbesHeld) /\ Cardinality(ProbesHeld) + gate = Gate

\* A fetch has read the pages before the one it asks for, and all of them when it is done.
PageInv ==
    \A p \in Path :
        /\ fetch[p] \in Active => items[p] = Before(p, page[p])
        /\ fetch[p] = "done" => items[p] = Everything(p) /\ p \notin Forbidden

\* The workspaces are known, each was listed or refused, and only missing models were probed.
Complete ==
    /\ fetch[Root] = "done"
    /\ \A w \in items[Root] : fetch[w] \in {"done", "refused"}
    /\ \A m \in Model : probe[m] # "off" => m \in Missing

\* Which fetches and probes there may be at each point of the call.
PhaseInv ==
    /\ phase = "idle" => \A p \in Path : fetch[p] \notin Active
    /\ phase = "workspaces" =>
          \A w \in Workspace : fetch[w] = "off" /\ page[w] = 1 /\ items[w] = {}
    /\ phase = "models" =>
          /\ fetch[Root] = "done"
          /\ \A w \in Workspace \ items[Root] : fetch[w] = "off"
    /\ phase = "probing" => Complete /\ \A p \in Path : fetch[p] \notin Active
    /\ phase \in {"workspaces", "models"} => \A m \in Model : probe[m] \notin Pending
    /\ phase = "idle" /\ (\E m \in Model : probe[m] \in Pending) =>
          answer = Raised /\ ~ cache.listed /\ \E m \in Model : probe[m] = "cancelled"
    /\ \A m \in Model : probe[m] = "shared" => m \in Queryable

\* What is cached, and what was answered, is what the fetches and probes of the call came to.
ResultInv ==
    /\ cache.listed => phase = "idle" /\ Complete /\ cache.rows = ListedRows \cup SharedRows
    /\ answer.listed =>
          phase = "idle" /\ Complete /\ answer.rows \subseteq ListedRows \cup SharedRows

(***************************************************************************)
(* The inductive invariant.  That a list is complete rests on what each    *)
(* page left behind (PageInv) and on the order of the two gathers          *)
(* (PhaseInv); a cached list keeps the traces of its own call, since no    *)
(* call starts before it expired.                                          *)
(***************************************************************************)
ListingInv == TypeOK /\ PermitInv /\ PageInv /\ PhaseInv /\ ResultInv

-----------------------------------------------------------------------------
\* The pages, each of which is what Fabric serves at its path.
LEMMA ContentPages ==
    ASSUME NEW p \in Path
    PROVE  /\ Len(Content[p]) \in Nat \ {0}
           /\ DOMAIN Content[p] = 1..Len(Content[p])
           /\ \A k \in DOMAIN Content[p] : Content[p][k] \subseteq Workspace \cup Model
  <1>1. Content[p] \in Seq(SUBSET (Workspace \cup Model)) /\ Content[p] # <<>>
    BY ContentAssumption
  <1> QED
    BY <1>1

\* Workspaces are listed at the root, and models in a workspace.
LEMMA EverythingInPlace ==
    /\ Everything(Root) \subseteq Workspace
    /\ \A w \in Workspace : Everything(w) \subseteq Model
  BY ContentAssumption DEF Everything

\* Reading a page adds its contents to those before it; the last one completes them.
LEMMA PageByPage ==
    ASSUME NEW p \in Path, NEW n \in DOMAIN Content[p]
    PROVE  /\ Before(p, 1) = {}
           /\ Before(p, n) \subseteq Everything(p)
           /\ Before(p, n) \cup Content[p][n] = Before(p, n + 1)
           /\ n = Len(Content[p]) => Before(p, n + 1) = Everything(p)
  <1>1. n \in Nat \ {0} /\ n <= Len(Content[p]) /\ DOMAIN Content[p] = 1..Len(Content[p])
    BY ContentPages
  <1>2. Before(p, 1) = {}
    <2>1. 1..(1 - 1) = {}
      OBVIOUS
    <2> QED
      BY <2>1 DEF Before
  <1>3. 1..(n - 1) \subseteq DOMAIN Content[p]
    BY <1>1
  <1>4. 1..((n + 1) - 1) = (1..(n - 1)) \cup {n}
    BY <1>1
  <1>5. n = Len(Content[p]) => 1..((n + 1) - 1) = DOMAIN Content[p]
    BY <1>1
  <1>6. Before(p, n) \subseteq Everything(p)
    BY <1>3 DEF Before, Everything
  <1>7. Before(p, n) \cup Content[p][n] = Before(p, n + 1)
    BY <1>4, Zenon DEF Before
  <1>8. n = Len(Content[p]) => Before(p, n + 1) = Everything(p)
    BY <1>5, Zenon DEF Before, Everything
  <1> QED
    BY <1>2, <1>6, <1>7, <1>8

\* A permit is counted out with the request that takes it, and back with the one that ends.
LEMMA PermitMoves ==
    ASSUME NEW S, IsFiniteSet(S), NEW e
    PROVE  /\ e \notin S => IsFiniteSet(S \cup {e}) /\ Cardinality(S \cup {e}) = Cardinality(S) + 1
           /\ e \in S => IsFiniteSet(S \ {e}) /\ Cardinality(S \ {e}) = Cardinality(S) - 1
  BY FS_CardinalityType, FS_AddElement, FS_RemoveElement

-----------------------------------------------------------------------------
(***************************************************************************)
(* What the steps of a fetch have in common: only a fetch under way takes  *)
(* one, it changes nothing of the others, it keeps the books of the        *)
(* semaphore, and what it has read is what the pages it asked for hold.    *)
(***************************************************************************)
LEMMA FetchStep ==
    ASSUME TypeOK, PermitInv, PageInv, NEW p \in Path, Fetch(p)
    PROVE  /\ UNCHANGED <<call, probing, cache, answer>>
           /\ fetch[p] \in Active
           /\ fetch' \in [Path -> {"off"} \cup Active \cup Ended]
           /\ fetch'[p] # "off"
           /\ page' \in [Path -> Nat \ {0}] /\ page'[p] \in DOMAIN Content[p]
           /\ items' \in [Path -> SUBSET (Workspace \cup Model)]
           /\ \A q \in Path \ {p} :
                 fetch'[q] = fetch[q] /\ page'[q] = page[q] /\ items'[q] = items[q]
           /\ fetch'[p] \in Active => items'[p] = Before(p, page'[p])
           /\ fetch'[p] = "done" => items'[p] = Everything(p) /\ p \notin Forbidden
           /\ IsFiniteSet(Held') /\ Cardinality(Held') + free' = Permits
           /\ free' \in Nat
  <1>0. /\ free \in Nat /\ Permits \in Nat /\ Cardinality(Held) + free = Permits
        /\ IsFiniteSet(Held) /\ Cardinality(Held) \in Nat
    <2>1. IsFiniteSet(Held) /\ Cardinality(Held) + free = Permits
      BY DEF PermitInv
    <2>2. Cardinality(Held) \in Nat
      BY <2>1, FS_CardinalityType
    <2> QED
      BY <2>1, <2>2, ConcurrencyAssumption DEF TypeOK
  <1>1. /\ page[p] \in DOMAIN Content[p] /\ page[p] \in Nat \ {0}
        /\ DOMAIN Content[p] = 1..Len(Content[p]) /\ Len(Content[p]) \in Nat
        /\ Content[p][page[p]] \subseteq Workspace \cup Model
    BY ContentPages DEF TypeOK
  <1>2. /\ fetch \in [Path -> {"off"} \cup Active \cup Ended]
        /\ page \in [Path -> Nat \ {0}]
        /\ items \in [Path -> SUBSET (Workspace \cup Model)]
        /\ fetch[p] \in Active => items[p] = Before(p, page[p])
    BY DEF TypeOK, PageInv
  <1>3. CASE Acquire(p)
    <2>1. Held' = Held \cup {p} /\ p \notin Held
      BY <1>2, <1>3 DEF Acquire, Held, InFlight
    <2>2. IsFiniteSet(Held') /\ Cardinality(Held') + free' = Permits /\ free' \in Nat
      <3>1. IsFiniteSet(Held') /\ Cardinality(Held') = Cardinality(Held) + 1
        BY <1>0, <2>1, PermitMoves
      <3> QED
        BY <1>0, <1>3, <3>1 DEF Acquire
    <2>3. /\ UNCHANGED <<call, probing, cache, answer>>
          /\ fetch' = [fetch EXCEPT ![p] = "asked"] /\ fetch[p] = "queued"
          /\ UNCHANGED <<page, items>>
      BY <1>3 DEF Acquire
    <2> QED
      BY <1>1, <1>2, <2>2, <2>3 DEF Active, InFlight
  <1>4. CASE Throttled(p) \/ AskAgain(p)
    <2>1. Held' = Held
      BY <1>2, <1>4 DEF Throttled, AskAgain, Held, InFlight
    <2>2. /\ UNCHANGED <<call, probing, cache, answer>>
          /\ \E status \in InFlight : fetch' = [fetch EXCEPT ![p] = status]
          /\ fetch[p] \in InFlight
          /\ UNCHANGED <<page, items, free>>
      BY <1>4 DEF Throttled, AskAgain, InFlight
    <2> QED
      BY <1>0, <1>1, <1>2, <2>1, <2>2 DEF Active, InFlight
  <1>5. ASSUME NEW status \in {"queued"} \cup Ended, Leave(p, status)
        PROVE  /\ IsFiniteSet(Held') /\ Cardinality(Held') + free' = Permits /\ free' \in Nat
               /\ fetch' \in [Path -> {"off"} \cup Active \cup Ended]
               /\ fetch'[p] = status /\ fetch[p] \in Active
               /\ \A q \in Path \ {p} : fetch'[q] = fetch[q]
    <2>1. Held' = Held \ {p} /\ p \in Held
      BY <1>2, <1>5 DEF Leave, Held, InFlight, Ended
    <2>2. IsFiniteSet(Held') /\ Cardinality(Held') + free' = Permits /\ free' \in Nat
      <3>1. IsFiniteSet(Held') /\ Cardinality(Held') = Cardinality(Held) - 1
        BY <1>0, <2>1, PermitMoves
      <3> QED
        BY <1>0, <1>5, <3>1 DEF Leave
    <2> QED
      BY <1>2, <1>5, <2>2 DEF Leave, Active, InFlight, Ended
  <1>6. /\ Before(p, page[p]) \cup Content[p][page[p]] = Before(p, page[p] + 1)
        /\ page[p] = Len(Content[p]) => Before(p, page[p] + 1) = Everything(p)
    BY <1>1, PageByPage
  <1>7. CASE PageArrives(p)
    <2>1. page[p] + 1 \in DOMAIN Content[p]
      BY <1>1, <1>7 DEF PageArrives, LastPage
    <2>2. Leave(p, "queued")
      BY <1>7 DEF PageArrives
    <2>3. items'[p] = Before(p, page'[p])
      BY <1>2, <1>5, <1>6, <1>7, <2>2 DEF PageArrives
    <2> QED
      BY <1>1, <1>2, <1>5, <1>7, <2>1, <2>2, <2>3 DEF PageArrives
  <1>8. CASE LastPageArrives(p)
    <2>1. Leave(p, "done") /\ "done" \in Ended
      BY <1>8 DEF LastPageArrives, Ended
    <2>2. items'[p] = Everything(p) /\ p \notin Forbidden
      BY <1>2, <1>5, <1>6, <1>8, <2>1 DEF LastPageArrives, LastPage, Denied
    <2> QED
      BY <1>1, <1>2, <1>5, <1>8, <2>1, <2>2 DEF LastPageArrives, Active, InFlight
  <1>9. CASE FetchRefused(p) \/ FetchFails(p)
    <2>1. PICK status \in {"refused", "failed"} : Leave(p, status)
      BY <1>9 DEF FetchRefused, FetchFails
    <2>2. status \in Ended /\ status \notin Active /\ status \notin {"off", "done"}
      BY <2>1 DEF Ended, Active, InFlight
    <2> QED
      BY <1>1, <1>2, <1>5, <1>9, <2>1, <2>2 DEF FetchRefused, FetchFails
  <1> QED
    BY <1>3, <1>4, <1>7, <1>8, <1>9 DEF Fetch

\* What the steps of a probe have in common.
LEMMA ProbeStep ==
    ASSUME TypeOK, PermitInv, PhaseInv, NEW m \in Model, Probe(m)
    PROVE  /\ UNCHANGED <<call, fetching, cache, answer>>
           /\ probe[m] \in Pending /\ probe'[m] \in {"asked", "shared", "skipped"}
           /\ probe' \in [Model -> {"off", "shared", "skipped", "cancelled"} \cup Pending]
           /\ \A n \in Model \ {m} : probe'[n] = probe[n]
           /\ probe'[m] = "shared" => m \in Queryable
           /\ IsFiniteSet(ProbesHeld') /\ Cardinality(ProbesHeld') + gate' = Gate
           /\ gate' \in Nat
  <1>1. /\ gate \in Nat /\ Gate \in Nat /\ Cardinality(ProbesHeld) + gate = Gate
        /\ IsFiniteSet(ProbesHeld) /\ Cardinality(ProbesHeld) \in Nat
        /\ probe \in [Model -> {"off", "shared", "skipped", "cancelled"} \cup Pending]
    <2>1. IsFiniteSet(ProbesHeld) /\ Cardinality(ProbesHeld) + gate = Gate
      BY DEF PermitInv
    <2>2. Cardinality(ProbesHeld) \in Nat
      BY <2>1, FS_CardinalityType
    <2> QED
      BY <2>1, <2>2, ConcurrencyAssumption DEF TypeOK
  <1>2. CASE ProbeAsks(m)
    <2>1. ProbesHeld' = ProbesHeld \cup {m} /\ m \notin ProbesHeld
      BY <1>1, <1>2 DEF ProbeAsks, ProbesHeld
    <2>2. IsFiniteSet(ProbesHeld') /\ Cardinality(ProbesHeld') + gate' = Gate /\ gate' \in Nat
      <3>1. IsFiniteSet(ProbesHeld') /\ Cardinality(ProbesHeld') = Cardinality(ProbesHeld) + 1
        BY <1>1, <2>1, PermitMoves
      <3> QED
        BY <1>1, <1>2, <3>1 DEF ProbeAsks
    <2> QED
      BY <1>1, <1>2, <2>2 DEF ProbeAsks, Pending
  <1>3. CASE ProbeAnswered(m) \/ ProbeFails(m)
    <2>1. ProbesHeld' = ProbesHeld \ {m} /\ m \in ProbesHeld
      BY <1>1, <1>3 DEF ProbeAnswered, ProbeFails, ProbesHeld
    <2>2. IsFiniteSet(ProbesHeld') /\ Cardinality(ProbesHeld') + gate' = Gate /\ gate' \in Nat
      <3>1. IsFiniteSet(ProbesHeld') /\ Cardinality(ProbesHeld') = Cardinality(ProbesHeld) - 1
        BY <1>1, <2>1, PermitMoves
      <3> QED
        BY <1>1, <1>3, <3>1 DEF ProbeAnswered, ProbeFails
    <2>3. probe' \in [Model -> {"off", "shared", "skipped", "cancelled"} \cup Pending]
      BY <1>1, <1>3 DEF ProbeAnswered, ProbeFails
    <2>4. UNCHANGED <<call, fetching, cache, answer>>
      BY <1>3 DEF ProbeAnswered, ProbeFails
    <2>5. /\ probe[m] = "asked" /\ probe'[m] \in {"shared", "skipped"}
          /\ \A n \in Model \ {m} : probe'[n] = probe[n]
          /\ probe'[m] = "shared" => m \in Queryable
      BY <1>1, <1>3 DEF ProbeAnswered, ProbeFails
    <2> QED
      BY <2>2, <2>3, <2>4, <2>5 DEF Pending
  <1> QED
    BY <1>2, <1>3 DEF Probe

\* A call that still runs has neither cached nor answered anything.
LEMMA NothingYet ==
    ASSUME ResultInv, phase # "idle"
    PROVE  ~ cache.listed /\ ~ answer.listed
  BY DEF ResultInv

\* A step that touches neither fetches nor probes leaves what they came to.
LEMMA SameTraces ==
    ASSUME UNCHANGED <<fetching, probing>>
    PROVE  /\ UNCHANGED <<fetch, page, items, free, probe, gate>>
           /\ PermitInv <=> PermitInv'
           /\ PageInv <=> PageInv'
           /\ Complete <=> Complete'
           /\ ListedRows' = ListedRows /\ SharedRows' = SharedRows
  <1>1. UNCHANGED <<fetch, page, items, free, probe, gate>>
    BY DEF fetching, probing
  <1>2. Held' = Held /\ ProbesHeld' = ProbesHeld /\ Listed' = Listed
    BY <1>1 DEF Held, ProbesHeld, Listed
  <1>3. PermitInv <=> PermitInv'
    BY <1>1, <1>2 DEF PermitInv
  <1>4. PageInv <=> PageInv'
    BY <1>1 DEF PageInv
  <1>5. Complete <=> Complete'
    BY <1>1, <1>2 DEF Complete, Missing
  <1>6. ListedRows' = ListedRows /\ SharedRows' = SharedRows
    BY <1>1, <1>2 DEF ListedRows, SharedRows
  <1> QED
    BY <1>1, <1>3, <1>4, <1>5, <1>6

\* What was listed and shared are models, listed once.
LEMMA RowsOfAList ==
    ASSUME TypeOK, PageInv, Complete
    PROVE  /\ items[Root] = Workspaces /\ Workspaces \subseteq Workspace
           /\ Listed \subseteq Model
           /\ ListedRows \cup SharedRows \subseteq Row
  <1>1. items[Root] = Workspaces /\ Workspaces \subseteq Workspace
    BY EverythingInPlace DEF Complete, PageInv, Path, Workspaces
  <1>2. Listed \subseteq Model
    BY <1>1, EverythingInPlace DEF Listed, PageInv, Path
  <1>3. ListedRows \cup SharedRows \subseteq Row
    <2>1. \A m \in Model, b \in BOOLEAN, s \in BOOLEAN :
             [id |-> m, curated |-> b, shared_directly |-> s] \in Row
      BY DEF Row
    <2>2. \A m \in Model : (m \in Curated) \in BOOLEAN
      OBVIOUS
    <2> QED
      BY <1>2, <2>1, <2>2, Zenon DEF ListedRows, SharedRows
  <1> QED
    BY <1>1, <1>2, <1>3

-----------------------------------------------------------------------------
LEMMA ListingInvInit == Init => ListingInv
  <1> SUFFICES ASSUME Init
               PROVE  ListingInv
    OBVIOUS
  <1>1. TypeOK
    <2>1. \A p \in Path : 1 \in DOMAIN Content[p]
      BY ContentPages
    <2>2. free \in 0..Permits /\ gate \in 0..Gate
      BY ConcurrencyAssumption DEF Init
    <2>3. /\ fetch \in [Path -> {"off"} \cup Active \cup Ended]
          /\ page \in [Path -> Nat \ {0}] /\ \A p \in Path : page[p] = 1
          /\ items \in [Path -> SUBSET (Workspace \cup Model)]
          /\ probe \in [Model -> {"off", "shared", "skipped", "cancelled"} \cup Pending]
      BY DEF Init
    <2>4. phase = "idle" /\ want = TRUE /\ expired = FALSE /\ cache = Absent /\ answer = Absent
      BY DEF Init
    <2> QED
      BY <2>1, <2>2, <2>3, <2>4 DEF TypeOK
  <1>2. PermitInv
    <2>1. Held = {} /\ ProbesHeld = {}
      BY DEF Init, Held, ProbesHeld, InFlight
    <2> QED
      BY <2>1, FS_EmptySet, ConcurrencyAssumption DEF Init, PermitInv
  <1>3. PageInv /\ PhaseInv /\ ResultInv
    BY DEF Init, PageInv, PhaseInv, ResultInv, Active, InFlight, Path, Absent, Pending
  <1> QED
    BY <1>1, <1>2, <1>3 DEF ListingInv

\* A step of a fetch keeps the invariant.
LEMMA FetchKeeps ==
    ASSUME ListingInv, NEW p \in Path, Fetch(p)
    PROVE  ListingInv'
  <1>0. TypeOK /\ PermitInv /\ PageInv /\ PhaseInv /\ ResultInv
    BY DEF ListingInv
  <1>1. /\ UNCHANGED <<phase, want, expired, probe, gate, cache, answer>>
        /\ fetch[p] \in Active
        /\ fetch' \in [Path -> {"off"} \cup Active \cup Ended]
        /\ page' \in [Path -> Nat \ {0}] /\ page'[p] \in DOMAIN Content[p]
        /\ items' \in [Path -> SUBSET (Workspace \cup Model)]
        /\ \A q \in Path \ {p} :
              fetch'[q] = fetch[q] /\ page'[q] = page[q] /\ items'[q] = items[q]
        /\ fetch'[p] \in Active => items'[p] = Before(p, page'[p])
        /\ fetch'[p] = "done" => items'[p] = Everything(p) /\ p \notin Forbidden
    BY <1>0, FetchStep DEF call, probing
  <1>2. IsFiniteSet(Held') /\ Cardinality(Held') + free' = Permits /\ free' \in Nat
    BY <1>0, FetchStep
  <1>3. \/ phase = "workspaces" /\ p = Root
        \/ phase = "models" /\ p \in items[Root] /\ p \in Workspace
    BY <1>0, <1>1, EverythingInPlace, ContentAssumption
    DEF Fetch, PhaseInv, PageInv, TypeOK, Active, InFlight, Path
  <1>4. PermitInv'
    <2>1. ProbesHeld' = ProbesHeld
      BY <1>1 DEF ProbesHeld
    <2> QED
      BY <1>0, <1>1, <1>2, <2>1 DEF PermitInv
  <1>5. TypeOK'
    <2>1. free' \in 0..Permits
      <3>1. Cardinality(Held') \in Nat
        BY <1>2, FS_CardinalityType
      <3> QED
        BY <1>2, <3>1, ConcurrencyAssumption
    <2> QED
      BY <1>0, <1>1, <2>1 DEF TypeOK
  <1>6. PageInv'
    BY <1>0, <1>1 DEF PageInv
  <1>7. PhaseInv'
    <2>1. CASE phase = "workspaces" /\ p = Root
      BY <1>0, <1>1, <2>1, ContentAssumption DEF PhaseInv, Path
    <2>2. CASE phase = "models" /\ p \in items[Root] /\ p \in Workspace
      <3>1. p # Root
        BY <2>2, ContentAssumption
      <3>2. items'[Root] = items[Root] /\ fetch'[Root] = fetch[Root]
        BY <1>1, <3>1 DEF Path
      <3> QED
        BY <1>0, <1>1, <2>2, <3>2 DEF PhaseInv, Path
    <2> QED
      BY <1>3, <2>1, <2>2
  <1>8. ResultInv'
    BY <1>0, <1>1, <1>3, NothingYet DEF ResultInv
  <1> QED
    BY <1>4, <1>5, <1>6, <1>7, <1>8 DEF ListingInv

\* A step of a probe keeps the invariant.
LEMMA ProbeKeeps ==
    ASSUME ListingInv, NEW m \in Model, Probe(m)
    PROVE  ListingInv'
  <1>0. TypeOK /\ PermitInv /\ PageInv /\ PhaseInv /\ ResultInv
    BY DEF ListingInv
  <1>1. /\ UNCHANGED <<phase, want, expired, fetch, page, items, free, cache, answer>>
        /\ phase = "probing" /\ probe[m] \in Pending /\ probe'[m] \in {"asked", "shared", "skipped"}
        /\ probe' \in [Model -> {"off", "shared", "skipped", "cancelled"} \cup Pending]
        /\ \A n \in Model \ {m} : probe'[n] = probe[n]
        /\ probe'[m] = "shared" => m \in Queryable
    BY <1>0, ProbeStep DEF call, fetching, Probe
  <1>2. IsFiniteSet(ProbesHeld') /\ Cardinality(ProbesHeld') + gate' = Gate /\ gate' \in Nat
    BY <1>0, ProbeStep
  <1>3. phase = "probing" /\ Complete
    BY <1>0, <1>1 DEF PhaseInv
  <1>4. PermitInv'
    <2>1. Held' = Held
      BY <1>1 DEF Held
    <2> QED
      BY <1>0, <1>1, <1>2, <2>1 DEF PermitInv
  <1>5. TypeOK'
    <2>1. gate' \in 0..Gate
      <3>1. Cardinality(ProbesHeld') \in Nat
        BY <1>2, FS_CardinalityType
      <3> QED
        BY <1>2, <3>1, ConcurrencyAssumption
    <2> QED
      BY <1>0, <1>1, <2>1 DEF TypeOK
  <1>6. PageInv'
    BY <1>0, <1>1 DEF PageInv
  <1>7. PhaseInv'
    <2>1. Missing' = Missing
      BY <1>1 DEF Missing, Listed
    <2>2. Complete'
      BY <1>1, <1>3, <2>1 DEF Complete, Pending
    <2> QED
      BY <1>0, <1>1, <1>3, <2>2 DEF PhaseInv
  <1>8. ResultInv'
    BY <1>0, <1>1, <1>3, NothingYet DEF ResultInv
  <1> QED
    BY <1>4, <1>5, <1>6, <1>7, <1>8 DEF ListingInv

\* A new call starts with nothing cached, every permit and no trace of the last call.
LEMMA StartKeeps ==
    ASSUME ListingInv, Start
    PROVE  ListingInv'
  <1>0. TypeOK
    BY DEF ListingInv
  <1>1. /\ phase' = "workspaces" /\ want' \in BOOLEAN /\ expired' = FALSE
        /\ fetch' = [p \in Path |-> IF p = Root THEN "queued" ELSE "off"]
        /\ page' = [p \in Path |-> 1] /\ items' = [p \in Path |-> {}]
        /\ free' = Permits /\ probe' = [m \in Model |-> "off"] /\ gate' = Gate
        /\ ~ cache.listed /\ cache' = cache /\ answer' = Absent
    BY DEF Start
  <1>2. TypeOK'
    <2>1. \A p \in Path : 1 \in DOMAIN Content[p]
      BY ContentPages
    <2>2. free' \in 0..Permits /\ gate' \in 0..Gate
      BY <1>1, ConcurrencyAssumption
    <2>3. /\ fetch' \in [Path -> {"off"} \cup Active \cup Ended]
          /\ page' \in [Path -> Nat \ {0}] /\ \A p \in Path : page'[p] = 1
          /\ items' \in [Path -> SUBSET (Workspace \cup Model)]
          /\ probe' \in [Model -> {"off", "shared", "skipped", "cancelled"} \cup Pending]
      BY <1>1 DEF Active
    <2> QED
      BY <1>0, <1>1, <2>1, <2>2, <2>3 DEF TypeOK
  <1>3. PermitInv'
    <2>1. Held' = {} /\ ProbesHeld' = {}
      BY <1>1 DEF Held, ProbesHeld, InFlight
    <2> QED
      BY <1>1, <2>1, FS_EmptySet, ConcurrencyAssumption DEF PermitInv
  <1>4. PageInv'
    <2>1. Before(Root, 1) = {}
      BY ContentPages, PageByPage DEF Path
    <2> QED
      BY <1>1, <2>1 DEF PageInv, Active, InFlight
  <1>5. PhaseInv'
    BY <1>1, ContentAssumption DEF PhaseInv, Path, Pending
  <1>6. ResultInv'
    BY <1>1 DEF ResultInv, Absent
  <1> QED
    BY <1>2, <1>3, <1>4, <1>5, <1>6 DEF ListingInv

\* The fetches of the second gather are queued once the first one is complete.
LEMMA WorkspacesKnownKeeps ==
    ASSUME ListingInv, WorkspacesKnown
    PROVE  ListingInv'
  <1>0. TypeOK /\ PermitInv /\ PageInv /\ PhaseInv /\ ResultInv
    BY DEF ListingInv
  <1>1. /\ phase = "workspaces" /\ fetch[Root] = "done" /\ phase' = "models"
        /\ fetch' = [p \in Path |-> IF p \in items[Root] THEN "queued" ELSE fetch[p]]
        /\ UNCHANGED <<want, expired, page, items, free, probe, gate, cache, answer>>
    BY DEF WorkspacesKnown, probing
  <1>2. items[Root] \subseteq Workspace /\ Root \notin Workspace
    BY <1>0, <1>1, EverythingInPlace, ContentAssumption DEF PageInv, Path
  <1>3. \A w \in Workspace : fetch[w] = "off" /\ page[w] = 1 /\ items[w] = {}
    BY <1>0, <1>1 DEF PhaseInv
  <1>4. TypeOK'
    <2>1. fetch' \in [Path -> {"off"} \cup Active \cup Ended]
      BY <1>0, <1>1 DEF TypeOK, Active
    <2> QED
      BY <1>0, <1>1, <2>1 DEF TypeOK
  <1>5. PermitInv'
    <2>1. Held' = Held /\ ProbesHeld' = ProbesHeld
      BY <1>1, <1>2, <1>3 DEF Held, ProbesHeld, InFlight
    <2> QED
      BY <1>0, <1>1, <2>1 DEF PermitInv
  <1>6. PageInv'
    <2>1. \A w \in Workspace : Before(w, 1) = {}
      BY ContentPages, PageByPage DEF Path
    <2>2. \A p \in Path : p \notin items[Root] => fetch'[p] = fetch[p]
      BY <1>1
    <2>3. \A p \in items[Root] : fetch'[p] = "queued" /\ items'[p] = Before(p, page'[p])
      BY <1>1, <1>2, <1>3, <2>1 DEF Path
    <2> QED
      BY <1>0, <1>1, <2>2, <2>3 DEF PageInv
  <1>7. PhaseInv'
    BY <1>0, <1>1, <1>2, <1>3 DEF PhaseInv, Path
  <1>8. ResultInv'
    BY <1>0, <1>1, NothingYet DEF ResultInv
  <1> QED
    BY <1>4, <1>5, <1>6, <1>7, <1>8 DEF ListingInv

\* The probes are queued once every workspace was listed or refused.
LEMMA ModelsKnownKeeps ==
    ASSUME ListingInv, ModelsKnown
    PROVE  ListingInv'
  <1>0. TypeOK /\ PermitInv /\ PageInv /\ PhaseInv /\ ResultInv
    BY DEF ListingInv
  <1>1. /\ phase = "models" /\ phase' = "probing"
        /\ \A w \in items[Root] : fetch[w] \in {"done", "refused"}
        /\ probe' = [m \in Model |-> IF m \in Missing THEN "queued" ELSE "off"]
        /\ UNCHANGED <<want, expired, fetch, page, items, free, gate, cache, answer>>
    BY DEF ModelsKnown, Gathered, fetching, Ended
  <1>2. /\ fetch[Root] = "done" /\ \A w \in Workspace \ items[Root] : fetch[w] = "off"
        /\ \A m \in Model : probe[m] \notin Pending
    BY <1>0, <1>1 DEF PhaseInv
  <1>3. TypeOK'
    BY <1>0, <1>1 DEF TypeOK, Pending
  <1>4. PermitInv'
    <2>1. Held' = Held /\ ProbesHeld' = ProbesHeld
      BY <1>1, <1>2 DEF Held, ProbesHeld, Pending
    <2> QED
      BY <1>0, <1>1, <2>1 DEF PermitInv
  <1>5. PageInv'
    BY <1>0, <1>1 DEF PageInv
  <1>6. PhaseInv'
    <2>1. Missing' = Missing
      BY <1>1 DEF Missing, Listed
    <2>2. Complete'
      BY <1>1, <1>2, <2>1 DEF Complete
    <2>3. \A p \in Path : fetch[p] \notin Active
      BY <1>1, <1>2 DEF Path, Active, InFlight
    <2> QED
      BY <1>1, <2>2, <2>3 DEF PhaseInv
  <1>7. ResultInv'
    BY <1>0, <1>1, NothingYet DEF ResultInv
  <1> QED
    BY <1>3, <1>4, <1>5, <1>6, <1>7 DEF ListingInv

\* The list is cached and answered as the fetches and the probes made it.
LEMMA FinishKeeps ==
    ASSUME ListingInv, Finish
    PROVE  ListingInv'
  <1> DEFINE rows == ListedRows \cup SharedRows
  <1>0. TypeOK /\ PermitInv /\ PageInv /\ PhaseInv /\ ResultInv
    BY DEF ListingInv
  <1>1. /\ phase = "probing" /\ phase' = "idle"
        /\ \A m \in Model : probe[m] \notin Pending
        /\ cache' = [listed |-> TRUE, rows |-> rows]
        /\ answer' = [listed |-> TRUE, rows |-> Shown(rows, want)]
        /\ UNCHANGED <<want, expired, fetching, probing>>
    BY DEF Finish, List, Pending
  <1>2. /\ Complete /\ \A p \in Path : fetch[p] \notin Active
        /\ \A m \in Model : probe[m] = "shared" => m \in Queryable
    BY <1>0, <1>1 DEF PhaseInv
  <1>3. rows \subseteq Row /\ Shown(rows, want) \subseteq rows
    BY <1>0, <1>2, RowsOfAList DEF Shown
  <1>4. /\ UNCHANGED <<fetch, page, items, free, probe, gate>>
        /\ PermitInv' /\ PageInv' /\ Complete' /\ rows' = rows
    BY <1>0, <1>1, <1>2, SameTraces
  <1> HIDE DEF rows
  <1>5. TypeOK'
    BY <1>0, <1>1, <1>3, <1>4 DEF TypeOK
  <1>6. PhaseInv'
    BY <1>1, <1>2, <1>4 DEF PhaseInv
  <1>7. ResultInv'
    BY <1>1, <1>3, <1>4 DEF ResultInv, rows
  <1> QED
    BY <1>4, <1>5, <1>6, <1>7 DEF ListingInv

\* An error ends the call; what was in flight has ended before.
LEMMA RaiseKeeps ==
    ASSUME ListingInv, WorkspacesFail \/ ModelsFail
    PROVE  ListingInv'
  <1>0. TypeOK /\ PermitInv /\ PageInv /\ PhaseInv /\ ResultInv
    BY DEF ListingInv
  <1>1. /\ phase \in {"workspaces", "models"} /\ phase' = "idle" /\ answer' = Raised
        /\ UNCHANGED <<want, expired, fetching, probing, cache>>
    BY DEF WorkspacesFail, ModelsFail, Gathered, Raise
  <1>2. UNCHANGED <<fetch, page, items, free, probe, gate>> /\ PermitInv' /\ PageInv'
    BY <1>0, <1>1, SameTraces
  <1>3. \A p \in Path : fetch[p] \notin Active
    <2>1. CASE WorkspacesFail
      BY <1>0, <2>1 DEF WorkspacesFail, PhaseInv, Path, Active, InFlight
    <2>2. CASE ModelsFail
      <3>1. fetch[Root] = "done" /\ \A w \in Workspace \ items[Root] : fetch[w] = "off"
        BY <1>0, <2>2 DEF ModelsFail, Gathered, PhaseInv
      <3>2. \A w \in items[Root] : fetch[w] \in Ended
        BY <2>2 DEF ModelsFail, Gathered
      <3> QED
        BY <3>1, <3>2 DEF Path, Active, InFlight, Ended
    <2> QED
      BY <2>1, <2>2
  <1>4. TypeOK'
    BY <1>0, <1>1, <1>2 DEF TypeOK
  <1>5. PhaseInv'
    BY <1>0, <1>1, <1>2, <1>3 DEF PhaseInv
  <1>6. ResultInv'
    BY <1>0, <1>1, NothingYet DEF ResultInv, Raised
  <1> QED
    BY <1>2, <1>4, <1>5, <1>6 DEF ListingInv

\* The cancellation of the call reaches its tasks later.
LEMMA CancelKeeps ==
    ASSUME ListingInv, Cancel
    PROVE  ListingInv'
  <1>0. TypeOK /\ PermitInv /\ PageInv /\ PhaseInv /\ ResultInv
    BY DEF ListingInv
  <1>1. /\ phase # "idle" /\ phase' = "cancelled"
        /\ UNCHANGED <<want, expired, fetching, probing, cache, answer>>
    BY DEF Cancel
  <1>2. UNCHANGED <<fetch, page, items, free, probe, gate>> /\ PermitInv' /\ PageInv'
    BY <1>0, <1>1, SameTraces
  <1>3. TypeOK' /\ PhaseInv'
    BY <1>0, <1>1, <1>2 DEF TypeOK, PhaseInv
  <1>4. ResultInv'
    BY <1>0, <1>1, NothingYet DEF ResultInv
  <1> QED
    BY <1>2, <1>3, <1>4 DEF ListingInv

\* A fetch that unwinds gives back the permit it holds.
LEMMA FetchUnwindsKeeps ==
    ASSUME ListingInv, NEW p \in Path, FetchUnwinds(p)
    PROVE  ListingInv'
  <1>0. TypeOK /\ PermitInv /\ PageInv /\ PhaseInv /\ ResultInv
    BY DEF ListingInv
  <1>1. /\ phase = "cancelled" /\ fetch[p] \in Active
        /\ free' = IF fetch[p] \in InFlight THEN free + 1 ELSE free
        /\ fetch' = [fetch EXCEPT ![p] = "off"]
        /\ UNCHANGED <<phase, want, expired, page, items, probe, gate, cache, answer>>
    BY DEF FetchUnwinds, call, probing
  <1>2. IsFiniteSet(Held') /\ Cardinality(Held') + free' = Permits /\ free' \in 0..Permits
    <2>1. /\ IsFiniteSet(Held) /\ Cardinality(Held) \in Nat /\ free \in Nat /\ Permits \in Nat
          /\ Cardinality(Held) + free = Permits
      BY <1>0, FS_CardinalityType, ConcurrencyAssumption DEF PermitInv, TypeOK
    <2>2. CASE fetch[p] \in InFlight
      <3>1. Held' = Held \ {p} /\ p \in Held
        BY <1>0, <1>1, <2>2 DEF Held, InFlight, TypeOK
      <3>2. IsFiniteSet(Held') /\ Cardinality(Held') = Cardinality(Held) - 1
        BY <2>1, <3>1, PermitMoves
      <3>3. Cardinality(Held') \in Nat
        BY <3>2, FS_CardinalityType
      <3> QED
        BY <1>1, <2>1, <2>2, <3>2, <3>3
    <2>3. CASE fetch[p] \notin InFlight
      <3>1. Held' = Held
        BY <1>0, <1>1, <2>3 DEF Held, InFlight, TypeOK
      <3> QED
        BY <1>1, <2>1, <2>3, <3>1
    <2> QED
      BY <2>2, <2>3
  <1>3. PermitInv'
    <2>1. ProbesHeld' = ProbesHeld
      BY <1>1 DEF ProbesHeld
    <2> QED
      BY <1>0, <1>1, <1>2, <2>1 DEF PermitInv
  <1>4. fetch' \in [Path -> {"off"} \cup Active \cup Ended]
    BY <1>0, <1>1 DEF TypeOK
  <1>5. TypeOK'
    BY <1>0, <1>1, <1>2, <1>4 DEF TypeOK
  <1>6. PageInv'
    BY <1>0, <1>1 DEF PageInv, TypeOK, Active, InFlight
  <1>7. PhaseInv'
    BY <1>0, <1>1 DEF PhaseInv
  <1>8. ResultInv'
    BY <1>0, <1>1, NothingYet DEF ResultInv
  <1> QED
    BY <1>3, <1>5, <1>6, <1>7, <1>8 DEF ListingInv

\* So does a probe, and the list it does not come into is no other for it.
LEMMA ProbeUnwindsKeeps ==
    ASSUME ListingInv, NEW m \in Model, ProbeUnwinds(m)
    PROVE  ListingInv'
  <1>0. TypeOK /\ PermitInv /\ PageInv /\ PhaseInv /\ ResultInv
    BY DEF ListingInv
  <1>1. /\ phase \in {"cancelled", "idle"} /\ probe[m] \in Pending
        /\ gate' = IF probe[m] = "asked" THEN gate + 1 ELSE gate
        /\ probe' = [probe EXCEPT ![m] = "cancelled"]
        /\ UNCHANGED <<phase, want, expired, fetch, page, items, free, cache, answer>>
    BY DEF ProbeUnwinds, call, fetching
  <1>2. IsFiniteSet(ProbesHeld') /\ Cardinality(ProbesHeld') + gate' = Gate /\ gate' \in 0..Gate
    <2>1. /\ IsFiniteSet(ProbesHeld) /\ Cardinality(ProbesHeld) \in Nat
          /\ gate \in Nat /\ Gate \in Nat /\ Cardinality(ProbesHeld) + gate = Gate
      BY <1>0, FS_CardinalityType, ConcurrencyAssumption DEF PermitInv, TypeOK
    <2>2. CASE probe[m] = "asked"
      <3>1. ProbesHeld' = ProbesHeld \ {m} /\ m \in ProbesHeld
        BY <1>0, <1>1, <2>2 DEF ProbesHeld, TypeOK
      <3>2. IsFiniteSet(ProbesHeld') /\ Cardinality(ProbesHeld') = Cardinality(ProbesHeld) - 1
        BY <2>1, <3>1, PermitMoves
      <3>3. Cardinality(ProbesHeld') \in Nat
        BY <3>2, FS_CardinalityType
      <3> QED
        BY <1>1, <2>1, <2>2, <3>2, <3>3
    <2>3. CASE probe[m] # "asked"
      <3>1. ProbesHeld' = ProbesHeld
        BY <1>0, <1>1, <2>3 DEF ProbesHeld, TypeOK
      <3> QED
        BY <1>1, <2>1, <2>3, <3>1
    <2> QED
      BY <2>2, <2>3
  <1>3. PermitInv'
    <2>1. Held' = Held
      BY <1>1 DEF Held
    <2> QED
      BY <1>0, <1>1, <1>2, <2>1 DEF PermitInv
  <1>4. /\ probe' \in [Model -> {"off", "shared", "skipped", "cancelled"} \cup Pending]
        /\ probe'[m] = "cancelled" /\ \A n \in Model \ {m} : probe'[n] = probe[n]
        /\ probe[m] # "shared" /\ probe[m] # "off"
    BY <1>0, <1>1 DEF TypeOK, Pending
  <1>5. TypeOK'
    BY <1>0, <1>1, <1>2, <1>4 DEF TypeOK
  <1>6. PageInv'
    BY <1>0, <1>1 DEF PageInv
  <1>7. PhaseInv'
    BY <1>0, <1>1, <1>4 DEF PhaseInv
  <1>8. Complete => Complete'
    <2>1. Missing' = Missing
      BY <1>1 DEF Missing, Listed
    <2> QED
      BY <1>1, <1>4, <2>1 DEF Complete
  <1>9. ListedRows' = ListedRows /\ SharedRows' = SharedRows
    <2>1. Listed' = Listed /\ {n \in Model : probe'[n] = "shared"} = {n \in Model : probe[n] = "shared"}
      BY <1>1, <1>4 DEF Listed
    <2> QED
      BY <2>1 DEF ListedRows, SharedRows
  <1>10. ResultInv'
    BY <1>0, <1>1, <1>8, <1>9 DEF ResultInv
  <1> QED
    BY <1>3, <1>5, <1>6, <1>7, <1>10 DEF ListingInv

\* A cancelled call ends when no fetch is left, and of the probes one at least has unwound.
LEMMA CancelledKeeps ==
    ASSUME ListingInv, Cancelled
    PROVE  ListingInv'
  <1>0. TypeOK /\ PermitInv /\ PageInv /\ PhaseInv /\ ResultInv
    BY DEF ListingInv
  <1>1. /\ phase = "cancelled" /\ phase' = "idle" /\ answer' = Raised
        /\ \A p \in Path : fetch[p] \notin Active
        /\ (\E m \in Model : probe[m] \in Pending) => \E m \in Model : probe[m] = "cancelled"
        /\ UNCHANGED <<want, expired, fetching, probing, cache>>
    BY DEF Cancelled, Unwound, Raise
  <1>2. UNCHANGED <<fetch, page, items, free, probe, gate>> /\ PermitInv' /\ PageInv'
    BY <1>0, <1>1, SameTraces
  <1>3. TypeOK'
    BY <1>0, <1>1, <1>2 DEF TypeOK
  <1>4. PhaseInv' /\ ResultInv'
    BY <1>0, <1>1, <1>2, NothingYet DEF PhaseInv, ResultInv, Raised
  <1> QED
    BY <1>2, <1>3, <1>4 DEF ListingInv

\* A hit, an expiry of the entry or of the token touch no fetch and no probe.
LEMMA OutsideKeeps ==
    ASSUME ListingInv, CacheHit \/ TokenExpires \/ CacheExpires
    PROVE  ListingInv'
  <1>0. TypeOK /\ PermitInv /\ PageInv /\ PhaseInv /\ ResultInv
    BY DEF ListingInv
  <1>1. UNCHANGED <<phase, fetching, probing>> /\ want' \in BOOLEAN /\ expired' \in BOOLEAN
    BY <1>0 DEF CacheHit, TokenExpires, CacheExpires, call, TypeOK
  <1>2. /\ UNCHANGED <<fetch, page, items, free, probe, gate>>
        /\ PermitInv' /\ PageInv' /\ (Complete' <=> Complete)
        /\ ListedRows' = ListedRows /\ SharedRows' = SharedRows
    BY <1>0, <1>1, SameTraces
  <1>3. \/ UNCHANGED <<cache, answer>>
        \/ cache' = Absent /\ UNCHANGED answer
        \/ /\ cache.listed /\ UNCHANGED cache
           /\ \E rows \in SUBSET cache.rows : answer' = [listed |-> TRUE, rows |-> rows]
    BY DEF CacheHit, TokenExpires, CacheExpires, List, Shown
  <1>4. TypeOK'
    <2> DEFINE Lists == [listed : {TRUE}, rows : SUBSET Row]
    <2>1. cache \in Lists \cup {Absent} /\ answer \in Lists \cup {Absent, Raised}
      BY <1>0 DEF TypeOK
    <2>2. /\ ~ Absent.listed
          /\ \A list \in Lists : list.rows \subseteq Row
          /\ \A rows \in SUBSET Row : [listed |-> TRUE, rows |-> rows] \in Lists
      BY DEF Absent
    <2> HIDE DEF Lists
    <2>3. cache.listed => cache \in Lists /\ SUBSET cache.rows \subseteq SUBSET Row
      BY <2>1, <2>2
    <2>4. cache' \in Lists \cup {Absent} /\ answer' \in Lists \cup {Absent, Raised}
      BY <1>3, <2>1, <2>2, <2>3
    <2> USE DEF Lists
    <2> QED
      BY <1>0, <1>1, <1>2, <2>4 DEF TypeOK
  <1>5. PhaseInv'
    <2>1. CASE phase = "idle"
      <3>1. cache.listed
        BY <2>1 DEF CacheHit, TokenExpires, CacheExpires
      <3> QED
        BY <1>0, <1>1, <1>2, <2>1, <3>1 DEF PhaseInv
    <2>2. CASE phase # "idle"
      BY <1>0, <1>1, <1>2, <2>2 DEF PhaseInv
    <2> QED
      BY <2>1, <2>2
  <1>6. ResultInv'
    BY <1>0, <1>1, <1>2, <1>3 DEF ResultInv, Absent
  <1> QED
    BY <1>2, <1>4, <1>5, <1>6 DEF ListingInv

\* Every step keeps the invariant.
LEMMA ListingInvNext == ListingInv /\ [Next]_vars => ListingInv'
  <1> SUFFICES ASSUME ListingInv, [Next]_vars
               PROVE  ListingInv'
    OBVIOUS
  <1>1. ASSUME NEW p \in Path, Fetch(p)
        PROVE  ListingInv'
    BY <1>1, FetchKeeps
  <1>2. ASSUME NEW m \in Model, Probe(m)
        PROVE  ListingInv'
    BY <1>2, ProbeKeeps
  <1>3. CASE WorkspacesFail \/ ModelsFail
    BY <1>3, RaiseKeeps
  <1>4. CASE WorkspacesKnown
    BY <1>4, WorkspacesKnownKeeps
  <1>5. CASE ModelsKnown
    BY <1>5, ModelsKnownKeeps
  <1>6. CASE Finish
    BY <1>6, FinishKeeps
  <1>7. CASE Start
    BY <1>7, StartKeeps
  <1>8. CASE CacheHit \/ TokenExpires \/ CacheExpires
    BY <1>8, OutsideKeeps
  <1>9. CASE Cancel \/ Cancelled
    BY <1>9, CancelKeeps, CancelledKeeps
  <1>10. CASE UNCHANGED vars
    <2>1. /\ UNCHANGED <<phase, want, expired, fetch, page, items, free, probe, gate>>
          /\ UNCHANGED <<cache, answer>>
      BY <1>10 DEF vars
    <2>2. UNCHANGED <<fetching, probing>>
      BY <2>1 DEF fetching, probing
    <2> QED
      BY <2>1, <2>2, SameTraces DEF ListingInv, TypeOK, PhaseInv, ResultInv
  <1>11. ASSUME NEW p \in Path, FetchUnwinds(p)
         PROVE  ListingInv'
    BY <1>11, FetchUnwindsKeeps
  <1>12. ASSUME NEW m \in Model, ProbeUnwinds(m)
         PROVE  ListingInv'
    BY <1>12, ProbeUnwindsKeeps
  <1> QED
    BY <1>1, <1>2, <1>3, <1>4, <1>5, <1>6, <1>7, <1>8, <1>9, <1>10,
       <1>11, <1>12 DEF Next, Proceed

-----------------------------------------------------------------------------
\* Every reachable state is in the invariant, and so has its type.
THEOREM ListingInvHolds == Spec => [](ListingInv /\ TypeOK)
  <1>1. ListingInv => ListingInv /\ TypeOK
    BY DEF ListingInv
  <1> QED
    BY <1>1, ListingInvInit, ListingInvNext, PTL DEF Spec

\* The rows of a complete list: who is in them, and where they come from.
LEMMA IdsOfAList ==
    ASSUME NEW rows
    PROVE  /\ rows = ListedRows \cup SharedRows => Listed \subseteq IdsIn(rows)
           /\ rows = ListedRows \cup SharedRows =>
                 \A m \in Model : probe[m] = "shared" => m \in IdsIn(rows)
           /\ rows \subseteq ListedRows \cup SharedRows =>
                 \A r \in rows :
                    \/ /\ ~ r.shared_directly /\ r.id \in Listed
                       /\ r = [id |-> r.id, curated |-> r.id \in Curated,
                               shared_directly |-> FALSE]
                    \/ /\ r.shared_directly /\ r.id \in Model /\ probe[r.id] = "shared"
                       /\ r = [id |-> r.id, curated |-> TRUE, shared_directly |-> TRUE]
  <1>1. ASSUME NEW m \in Listed
        PROVE  LET r == [id |-> m, curated |-> m \in Curated, shared_directly |-> FALSE]
               IN  r \in ListedRows /\ r.id = m /\ ~ r.shared_directly
    BY DEF ListedRows
  <1>2. ASSUME NEW m \in Model, probe[m] = "shared"
        PROVE  LET r == [id |-> m, curated |-> TRUE, shared_directly |-> TRUE]
               IN  r \in SharedRows /\ r.id = m /\ r.shared_directly
    BY <1>2 DEF SharedRows
  <1>3. ASSUME NEW r \in ListedRows
        PROVE  /\ ~ r.shared_directly /\ r.id \in Listed
               /\ r = [id |-> r.id, curated |-> r.id \in Curated, shared_directly |-> FALSE]
    <2>1. PICK m \in Listed :
             r = [id |-> m, curated |-> m \in Curated, shared_directly |-> FALSE]
      BY DEF ListedRows
    <2>2. r.id = m /\ ~ r.shared_directly
      BY <2>1
    <2> QED
      BY <2>1, <2>2, Zenon
  <1>4. ASSUME NEW r \in SharedRows
        PROVE  /\ r.shared_directly /\ r.id \in Model /\ probe[r.id] = "shared"
               /\ r = [id |-> r.id, curated |-> TRUE, shared_directly |-> TRUE]
    BY DEF SharedRows
  <1> QED
    BY <1>1, <1>2, <1>3, <1>4, Zenon DEF IdsIn

(***************************************************************************)
(* Whatever the user may list is in a cached list, throttled and retried   *)
(* as it may have been: what a fetch has read is all the pages before the  *)
(* one it asks for (list_models, gateway.py:192-202; fabric.py:63-132).    *)
(***************************************************************************)
THEOREM NothingIsLeftOut == Spec => []EverythingIsListed
  <1>1. ListingInv => EverythingIsListed
    <2> SUFFICES ASSUME ListingInv, cache.listed
                 PROVE  /\ \A w \in Workspaces :
                              \/ fetch[w] = "refused"
                              \/ Everything(w) \subseteq IdsIn(cache.rows)
                        /\ \A m \in Curated : probe[m] = "shared" => m \in IdsIn(cache.rows)
      BY DEF EverythingIsListed
    <2>1. TypeOK /\ PageInv /\ Complete /\ cache.rows = ListedRows \cup SharedRows
      BY DEF ListingInv, ResultInv
    <2>2. items[Root] = Workspaces /\ Workspaces \subseteq Path
      BY <2>1, RowsOfAList DEF Path
    <2>3. Listed \subseteq IdsIn(cache.rows)
      BY <2>1, IdsOfAList
    <2>4. ASSUME NEW w \in Workspaces, fetch[w] # "refused"
          PROVE  Everything(w) \subseteq IdsIn(cache.rows)
      <3>1. fetch[w] = "done" /\ items[w] = Everything(w)
        BY <2>1, <2>2, <2>4 DEF Complete, PageInv
      <3> QED
        BY <2>2, <2>3, <3>1 DEF Listed
    <2>5. \A m \in Curated : probe[m] = "shared" => m \in IdsIn(cache.rows)
      BY <2>1, IdsOfAList, ContentAssumption
    <2> QED
      BY <2>4, <2>5
  <1> QED
    BY <1>1, ListingInvHolds, PTL

(***************************************************************************)
(* Each row the user is given comes from a workspace that let the user     *)
(* list its items, and gave all of them, or was queried with the user's    *)
(* token; no model comes twice (catalog.py:76, fabric.py:106-132).         *)
(***************************************************************************)
THEOREM RowsAreReachable == Spec => []OnlyReachableModels
  <1>1. ASSUME ListingInv, answer.listed
        PROVE  /\ \A r \in answer.rows :
                     IF r.shared_directly
                     THEN r.id \in Queryable \cap Curated
                     ELSE \E w \in Workspaces \ Forbidden : r.id \in Everything(w)
               /\ \A r, s \in answer.rows : r.id = s.id => r = s
    <2>1. /\ TypeOK /\ PageInv /\ PhaseInv /\ Complete
          /\ answer.rows \subseteq ListedRows \cup SharedRows
      BY <1>1 DEF ListingInv, ResultInv
    <2>2. items[Root] = Workspaces /\ Workspaces \subseteq Path
      BY <2>1, RowsOfAList DEF Path
    <2>3. \A r \in answer.rows :
             \/ /\ ~ r.shared_directly /\ r.id \in Listed
                /\ r = [id |-> r.id, curated |-> r.id \in Curated, shared_directly |-> FALSE]
             \/ /\ r.shared_directly /\ r.id \in Model /\ probe[r.id] = "shared"
                /\ r = [id |-> r.id, curated |-> TRUE, shared_directly |-> TRUE]
      BY <2>1, IdsOfAList, Zenon
    <2>4. \A m \in Model : probe[m] = "shared" => m \in Queryable \cap Curated /\ m \notin Listed
      BY <2>1 DEF PhaseInv, Complete, Missing
    <2>5. \A m \in Listed : \E w \in Workspaces \ Forbidden : m \in Everything(w)
      BY <2>1, <2>2 DEF Listed, PageInv
    <2>6. ASSUME NEW r \in answer.rows, NEW s \in answer.rows, r.id = s.id
          PROVE  r = s
      <3>1. r.id \in Listed <=> s.id \in Listed
        BY <2>6
      <3>2. CASE r.id \in Listed
        <4>1. r = [id |-> r.id, curated |-> r.id \in Curated, shared_directly |-> FALSE]
          BY <2>3, <2>4, <3>2, Zenon
        <4>2. s = [id |-> s.id, curated |-> s.id \in Curated, shared_directly |-> FALSE]
          BY <2>3, <2>4, <3>1, <3>2, Zenon
        <4> QED
          BY <2>6, <4>1, <4>2, Zenon
      <3>3. CASE r.id \notin Listed
        BY <2>3, <2>6, <3>1, <3>3, Zenon
      <3> QED
        BY <3>2, <3>3
    <2> QED
      BY <2>3, <2>4, <2>5, <2>6
  <1>2. ListingInv => OnlyReachableModels
    BY <1>1 DEF OnlyReachableModels
  <1> QED
    BY <1>2, ListingInvHolds, PTL

(***************************************************************************)
(* The semaphore of the fetches is full and none of them waits when a call *)
(* has ended, with an answer, an error or a cancellation; probes are left  *)
(* of a cancelled call alone (fabric.py:63-80 and 128, gateway.py:228).    *)
(***************************************************************************)
THEOREM PermitsComeBack == Spec => []NothingLeftBehind
  <1>1. ListingInv => NothingLeftBehind
    <2> SUFFICES ASSUME ListingInv
                 PROVE  NothingLeftBehind
      OBVIOUS
    <2>1. phase = "idle" =>
             /\ \A p \in Path : fetch[p] \notin Active
             /\ (\E m \in Model : probe[m] \in Pending) =>
                   answer = Raised /\ ~ cache.listed /\ \E m \in Model : probe[m] = "cancelled"
      BY DEF ListingInv, PhaseInv
    <2> QED
      BY <2>1 DEF ListingInv, PermitInv, NothingLeftBehind
  <1> QED
    BY <1>1, ListingInvHolds, PTL


-----------------------------------------------------------------------------
\* A refusal has its reason, and keeps it while the call runs.
RefusedInv == \A p \in Path : fetch[p] = "refused" => Denied(p)

LEMMA RefusedInvInit == Init => RefusedInv
  BY DEF Init, RefusedInv

LEMMA RefusedInvNext == ListingInv /\ RefusedInv /\ [Next]_vars => RefusedInv'
  <1> SUFFICES ASSUME ListingInv, RefusedInv, [Next]_vars, NEW p \in Path, fetch'[p] = "refused"
               PROVE  Denied(p)'
    BY DEF RefusedInv
  <1>1. DOMAIN fetch = Path
    BY DEF ListingInv, TypeOK
  <1>2. ASSUME expired => expired', fetch[p] = "refused"
        PROVE  Denied(p)'
    BY <1>2 DEF RefusedInv, Denied
  <1>3. ASSUME NEW q \in Path, Fetch(q)
        PROVE  Denied(p)'
    <2>1. UNCHANGED expired
      BY <1>3 DEF Fetch, Acquire, Throttled, AskAgain, PageArrives, LastPageArrives,
                  FetchRefused, FetchFails, call
    <2>2. CASE FetchRefused(q)
      <3>1. fetch[p] = "refused" \/ p = q
        BY <1>1, <2>2 DEF FetchRefused, Leave
      <3> QED
        BY <1>2, <2>1, <2>2, <3>1 DEF FetchRefused, Denied
    <2>3. CASE ~ FetchRefused(q)
      <3>1. fetch[p] = "refused"
        BY <1>1, <1>3, <2>3 DEF Fetch, Acquire, Throttled, AskAgain, PageArrives,
                                LastPageArrives, FetchFails, Leave
      <3> QED
        BY <1>2, <2>1, <3>1
    <2> QED
      BY <2>2, <2>3
  <1>4. ASSUME NEW m \in Model, Probe(m)
        PROVE  Denied(p)'
    BY <1>2, <1>4 DEF Probe, ProbeAsks, ProbeAnswered, ProbeFails, call, fetching
  <1>5. CASE Start
    BY <1>5 DEF Start
  <1>6. CASE WorkspacesKnown
    BY <1>2, <1>6 DEF WorkspacesKnown
  <1>7. CASE WorkspacesFail \/ ModelsFail \/ ModelsKnown \/ Finish \/ Cancel \/ Cancelled
    BY <1>2, <1>7 DEF WorkspacesFail, ModelsFail, ModelsKnown, Finish, Cancel, Cancelled, Raise,
                      fetching
  <1>8. CASE CacheHit \/ TokenExpires \/ CacheExpires \/ UNCHANGED vars
    BY <1>2, <1>8 DEF CacheHit, TokenExpires, CacheExpires, vars, fetching, call
  <1>9. ASSUME NEW q \in Path, FetchUnwinds(q)
        PROVE  Denied(p)'
    <2>1. UNCHANGED expired /\ fetch[p] = "refused"
      BY <1>1, <1>9 DEF FetchUnwinds, call
    <2> QED
      BY <1>2, <2>1
  <1>10. ASSUME NEW m \in Model, ProbeUnwinds(m)
         PROVE  Denied(p)'
    BY <1>2, <1>10 DEF ProbeUnwinds, call, fetching
  <1> QED
    BY <1>3, <1>4, <1>5, <1>6, <1>7, <1>8, <1>9, <1>10 DEF Next, Proceed

-----------------------------------------------------------------------------
\* The workspaces that gave all their models, and the models found beside them.
Open == {w \in Workspaces : fetch[w] = "done"}
Found == {m \in Model : probe[m] = "shared"}

\* The call delivers what its fetches and probes came to.
LEMMA FinishDelivers ==
    ASSUME ListingInv, RefusedInv, Finish
    PROVE  Open \in SUBSET Workspaces /\ Found \in SUBSET Curated /\ AtOnce!Deliver(Open, Found)
  <1>1. /\ TypeOK /\ PageInv /\ PhaseInv /\ Complete
        /\ phase = "probing" /\ phase' = "idle" /\ UNCHANGED <<want, expired>>
    BY DEF ListingInv, PhaseInv, Finish
  <1>2. items[Root] = Workspaces /\ Workspaces \subseteq Path
    BY <1>1, RowsOfAList DEF Path
  <1>3. Open \cap Forbidden = {}
    BY <1>1, <1>2 DEF Open, PageInv
  <1>4. expired \/ Workspaces \ Open \subseteq Forbidden
    BY <1>1, <1>2 DEF Open, Complete, RefusedInv, Denied
  <1>5. Listed = AtOnce!Given(Open)
    <2>1. \A w \in Open : items[w] = [v \in Workspaces |-> Everything(v)][w]
      BY <1>1, <1>2 DEF Open, PageInv
    <2> QED
      BY <1>2, <2>1 DEF Listed, Open, AtOnce!Given
  <1>6. Found \subseteq (Curated \cap Queryable) \ Listed
    BY <1>1 DEF Found, Complete, PhaseInv, Missing
  <1>7. ListedRows \cup SharedRows = AtOnce!RowsOf(Open, Found)
    BY <1>5 DEF ListedRows, SharedRows, Found, AtOnce!RowsOf
  <1>8. /\ cache' = AtOnce!List(AtOnce!RowsOf(Open, Found))
        /\ answer' = AtOnce!List(AtOnce!Shown(AtOnce!RowsOf(Open, Found), want))
    BY <1>7 DEF Finish, List, Shown, AtOnce!List, AtOnce!Shown
  <1>9. AtOnce!Deliver(Open, Found)
    BY <1>1, <1>3, <1>4, <1>5, <1>6, <1>8 DEF AtOnce!Deliver
  <1> QED
    BY <1>6, <1>9 DEF Open

\* Every step of the listing is a step of the list at once, or none.
LEMMA ListingStep == ListingInv /\ RefusedInv /\ [Next]_vars => [AtOnce!ListNext]_(AtOnce!listVars)
  <1> SUFFICES ASSUME ListingInv, RefusedInv, [Next]_vars
               PROVE  AtOnce!ListNext \/ UNCHANGED AtOnce!listVars
    OBVIOUS
  <1> USE DEF AtOnce!listVars
  <1>1. ASSUME NEW p \in Path, Fetch(p) \/ FetchUnwinds(p)
        PROVE  UNCHANGED AtOnce!listVars
    BY <1>1 DEF Fetch, FetchUnwinds, Acquire, Throttled, AskAgain, PageArrives, LastPageArrives,
                FetchRefused, FetchFails, call
  <1>2. ASSUME NEW m \in Model, Probe(m) \/ ProbeUnwinds(m)
        PROVE  UNCHANGED AtOnce!listVars
    BY <1>2 DEF Probe, ProbeUnwinds, ProbeAsks, ProbeAnswered, ProbeFails, call
  <1>3. CASE WorkspacesKnown \/ ModelsKnown \/ Cancel
    <2>1. phase # "idle" /\ phase' # "idle" /\ UNCHANGED <<want, expired, cache, answer>>
      BY <1>3 DEF WorkspacesKnown, ModelsKnown, Cancel, Gathered
    <2> QED
      BY <2>1
  <1>4. CASE WorkspacesFail \/ ModelsFail \/ Cancelled
    <2>1. phase # "idle" /\ phase' = "idle" /\ answer' = Raised /\ UNCHANGED <<want, expired, cache>>
      BY <1>4 DEF WorkspacesFail, ModelsFail, Cancelled, Gathered, Raise
    <2> QED
      BY <2>1 DEF Raised, AtOnce!Fail, AtOnce!Raised, AtOnce!ListNext
  <1>5. CASE Finish
    BY <1>5, FinishDelivers DEF AtOnce!ListNext
  <1>6. CASE CacheHit
    BY <1>6 DEF CacheHit, List, Shown, AtOnce!Repeat, AtOnce!List, AtOnce!Shown, AtOnce!ListNext
  <1>7. CASE Start
    BY <1>7 DEF Start, Absent, AtOnce!Ask, AtOnce!Absent, AtOnce!ListNext
  <1>8. CASE TokenExpires
    BY <1>8 DEF TokenExpires, AtOnce!Expire, AtOnce!ListNext
  <1>9. CASE CacheExpires
    BY <1>9 DEF CacheExpires, call, Absent, AtOnce!Forget, AtOnce!Absent, AtOnce!ListNext
  <1>10. CASE UNCHANGED vars
    BY <1>10 DEF vars
  <1> QED
    BY <1>1, <1>2, <1>3, <1>4, <1>5, <1>6, <1>7, <1>8, <1>9, <1>10 DEF Next, Proceed

(***************************************************************************)
(* The pages, permits, retries and probes of FabricClient and the gateway  *)
(* implement a list that is made at once, of whole workspaces (fabric.py:  *)
(* 63-132; gateway.py:192-229).                                            *)
(***************************************************************************)
THEOREM ListingIsAtOnce == Spec => ImplementsModelList
  <1>1. Init => AtOnce!ListInit
    BY DEF Init, Absent, AtOnce!ListInit, AtOnce!Absent
  <1> QED
    BY <1>1, ListingInvInit, ListingInvNext, RefusedInvInit, RefusedInvNext, ListingStep, PTL
    DEF Spec, ImplementsModelList, AtOnce!ListSpec

(***************************************************************************)
(* What "a partial list is never returned as if it were complete" (fabric. *)
(* py:109) is worth: it holds of every list that was made while the user's *)
(* token lasted.  A token that expires on the way is the only thing that   *)
(* takes an open workspace out of a cached list.                           *)
(***************************************************************************)
THEOREM ListsAreCompleteWhileTheTokenLasts ==
    Spec => [](~ expired => PartialListIsNeverReturned)
  <1>1. ListingInv /\ RefusedInv /\ EverythingIsListed => (~ expired => PartialListIsNeverReturned)
    <2> SUFFICES ASSUME ListingInv, RefusedInv, EverythingIsListed, ~ expired, cache.listed,
                        NEW w \in Workspaces \ Forbidden
                 PROVE  Everything(w) \subseteq IdsIn(cache.rows)
      BY DEF PartialListIsNeverReturned
    <2>1. w \in Path
      BY RowsOfAList DEF ListingInv, ResultInv, Path
    <2>2. fetch[w] # "refused"
      BY <2>1 DEF RefusedInv, Denied
    <2> QED
      BY <2>2 DEF EverythingIsListed
  <1> QED
    BY <1>1, ListingInvInit, ListingInvNext, RefusedInvInit, RefusedInvNext, NothingIsLeftOut, PTL
    DEF Spec
=============================================================================
