------------------------------ MODULE Listing ------------------------------
(***************************************************************************)
(* list_semantic_models for one user: Gateway.list_models with             *)
(* FabricClient (powerbi_mcp/fabric.py) and the direct-share probes.       *)
(*                                                                         *)
(* A call lists the user's workspaces, then the models of all of them      *)
(* concurrently (a semaphore bounds the requests, each page is a request,  *)
(* a 429 is retried once after a sleep with the permit held), then probes  *)
(* the curated models it did not find, and caches the merged list.  Each   *)
(* request may be throttled or fail, the user's token may expire while the *)
(* listing runs, and the call may be cancelled at any await, which its     *)
(* tasks come to know one by one.                                          *)
(*                                                                         *)
(* Calls are modelled one after the other: two listings share nothing but  *)
(* the cache slot of their user.                                           *)
(***************************************************************************)
EXTENDS Naturals, FiniteSets, Sequences

CONSTANTS
    Workspace,
    Model,      \* semantic model ids, in lower case
    Root,       \* the path /workspaces
    Content,    \* what Fabric lists: path -> sequence of pages, each a set
    Forbidden,  \* workspaces whose items the user may not list
    Curated,    \* the models of skills/catalog.yaml
    Queryable,  \* the models the user may query
    Permits,    \* concurrency of the FabricClient
    Gate        \* PROBE_CONCURRENCY

Path == Workspace \cup {Root}

ASSUME ContentAssumption ==
    /\ Root \notin Workspace
    /\ Content \in [Path -> Seq(SUBSET (Workspace \cup Model))]
    /\ \A p \in Path : Content[p] # <<>>
    /\ \A k \in DOMAIN Content[Root] : Content[Root][k] \subseteq Workspace
    /\ \A w \in Workspace : \A k \in DOMAIN Content[w] : Content[w][k] \subseteq Model
    /\ Forbidden \subseteq Workspace
    /\ Curated \subseteq Model
    /\ Queryable \subseteq Model
ASSUME ConcurrencyAssumption == Permits \in Nat \ {0} /\ Gate \in Nat \ {0}

VARIABLES
    phase,    \* where the call is: its gather over workspaces, over probes, ...
    want,     \* include_uncurated
    expired,  \* the user's token expired
    fetch,    \* path -> what its _get_all is doing
    page,     \* path -> the page it asks for
    items,    \* path -> what it collected
    free,     \* permits left in the semaphore
    probe,    \* model -> what its probe is doing
    gate,     \* permits left for probes
    cache,    \* _models_cache for this user, or Absent
    answer    \* what the last call was answered

call == <<phase, want, expired>>
fetching == <<fetch, page, items, free>>
probing == <<probe, gate>>
vars == <<phase, want, expired, fetch, page, items, free, probe, gate, cache, answer>>

Absent == [listed |-> FALSE]
List(rows) == [listed |-> TRUE, rows |-> rows]
Raised == [listed |-> FALSE, error |-> TRUE]
Row == [id : Model, curated : BOOLEAN, shared_directly : BOOLEAN]

InFlight == {"asked", "asleep", "again"}
Active == {"queued"} \cup InFlight  \* a fetch that still has a page to ask for
Pending == {"queued", "asked"}      \* a probe that has not come to anything yet
Ended == {"done", "refused", "failed"}

TypeOK ==
    /\ phase \in {"idle", "workspaces", "models", "probing", "cancelled"}
    /\ want \in BOOLEAN
    /\ expired \in BOOLEAN
    /\ fetch \in [Path -> {"off"} \cup Active \cup Ended]
    /\ page \in [Path -> Nat \ {0}]
    /\ \A p \in Path : page[p] \in DOMAIN Content[p]
    /\ items \in [Path -> SUBSET (Workspace \cup Model)]
    /\ free \in 0..Permits
    /\ probe \in [Model -> {"off", "shared", "skipped", "cancelled"} \cup Pending]
    /\ gate \in 0..Gate
    /\ cache \in [listed : {TRUE}, rows : SUBSET Row] \cup {Absent}
    /\ answer \in [listed : {TRUE}, rows : SUBSET Row] \cup {Absent, Raised}

Init ==
    /\ phase = "idle"
    /\ want = TRUE
    /\ expired = FALSE
    /\ fetch = [p \in Path |-> "off"]
    /\ page = [p \in Path |-> 1]
    /\ items = [p \in Path |-> {}]
    /\ free = Permits
    /\ probe = [m \in Model |-> "off"]
    /\ gate = Gate
    /\ cache = Absent
    /\ answer = Absent

-----------------------------------------------------------------------------
\* `rows if include_uncurated else [r for r in rows if r["curated"]]`
Shown(rows, all) == {r \in rows : all \/ r.curated}

\* The list is cached for this user: no request is made.
CacheHit ==
    /\ phase = "idle"
    /\ cache.listed
    /\ \E all \in BOOLEAN : want' = all /\ answer' = List(Shown(cache.rows, all))
    /\ UNCHANGED <<phase, expired, fetching, probing, cache>>

\* It is not: a new FabricClient starts on the workspaces, with a fresh token.
\* (A probe that outlived the last call holds a permit of that call's own gate.)
Start ==
    /\ phase = "idle"
    /\ ~ cache.listed
    /\ want' \in BOOLEAN
    /\ expired' = FALSE
    /\ phase' = "workspaces"
    /\ fetch' = [p \in Path |-> IF p = Root THEN "queued" ELSE "off"]
    /\ page' = [p \in Path |-> 1]
    /\ items' = [p \in Path |-> {}]
    /\ free' = Permits
    /\ probe' = [m \in Model |-> "off"]
    /\ gate' = Gate
    /\ answer' = Absent
    /\ UNCHANGED cache

-----------------------------------------------------------------------------
\* One page: `async with self._sem`, a GET, and another one after a 429.
Acquire(p) ==
    /\ fetch[p] = "queued"
    /\ free > 0
    /\ free' = free - 1
    /\ fetch' = [fetch EXCEPT ![p] = "asked"]
    /\ UNCHANGED <<call, page, items, probing, cache, answer>>

\* Mutant of Throttled: every 429 is waited out and retried.
ThrottledAgain(p) ==
    /\ fetch[p] \in {"asked", "again"}
    /\ fetch' = [fetch EXCEPT ![p] = "asleep"]
    /\ UNCHANGED <<call, page, items, free, probing, cache, answer>>

Throttled(p) ==
    /\ fetch[p] = "asked"
    /\ fetch' = [fetch EXCEPT ![p] = "asleep"]
    /\ UNCHANGED <<call, page, items, free, probing, cache, answer>>

AskAgain(p) ==
    /\ fetch[p] = "asleep"
    /\ fetch' = [fetch EXCEPT ![p] = "again"]
    /\ UNCHANGED <<call, page, items, free, probing, cache, answer>>

\* The permit goes back however the request ends.
Leave(p, status) ==
    /\ fetch[p] \in {"asked", "again"}
    /\ fetch' = [fetch EXCEPT ![p] = status]
    /\ free' = free + 1

Denied(p) == expired \/ p \in Forbidden

\* Mutant of LastPage: an empty continuation token is followed.
LastPagePassed(p) == page[p] > Len(Content[p])

LastPage(p) == page[p] = Len(Content[p])

\* Mutant of PageArrives: paging stops after the first page.
OnlyPageArrives(p) ==
    /\ ~ Denied(p)
    /\ ~ LastPage(p)
    /\ Leave(p, "done")
    /\ items' = [items EXCEPT ![p] = @ \cup Content[p][page[p]]]
    /\ UNCHANGED <<call, page, probing, cache, answer>>

PageArrives(p) ==
    /\ ~ Denied(p)
    /\ ~ LastPage(p)
    /\ Leave(p, "queued")
    /\ items' = [items EXCEPT ![p] = @ \cup Content[p][page[p]]]
    /\ page' = [page EXCEPT ![p] = @ + 1]
    /\ UNCHANGED <<call, probing, cache, answer>>

LastPageArrives(p) ==
    /\ ~ Denied(p)
    /\ LastPage(p)
    /\ Leave(p, "done")
    /\ items' = [items EXCEPT ![p] = @ \cup Content[p][page[p]]]
    /\ UNCHANGED <<call, page, probing, cache, answer>>

\* 401 or 403: FabricAccessError.
FetchRefused(p) ==
    /\ Denied(p)
    /\ Leave(p, "refused")
    /\ UNCHANGED <<call, page, items, probing, cache, answer>>

\* Mutant of FetchFails: an error in the second request keeps the permit.
FetchFailsWithPermit(p) ==
    /\ fetch[p] \in {"asked", "again"}
    /\ fetch' = [fetch EXCEPT ![p] = "failed"]
    /\ free' = IF fetch[p] = "again" THEN free ELSE free + 1
    /\ UNCHANGED <<call, page, items, probing, cache, answer>>

\* A second 429, a 5xx, a timeout, a body that is no JSON: any other error.
FetchFails(p) ==
    /\ Leave(p, "failed")
    /\ UNCHANGED <<call, page, items, probing, cache, answer>>

-----------------------------------------------------------------------------
\* The call ends with an error; nothing is cached.
Raise ==
    /\ phase' = "idle"
    /\ answer' = Raised
    /\ UNCHANGED <<want, expired, fetching, probing, cache>>

WorkspacesFail ==
    /\ phase = "workspaces"
    /\ fetch[Root] \in {"refused", "failed"}
    /\ Raise

WorkspacesKnown ==
    /\ phase = "workspaces"
    /\ fetch[Root] = "done"
    /\ phase' = "models"
    /\ fetch' = [p \in Path |-> IF p \in items[Root] THEN "queued" ELSE fetch[p]]
    /\ UNCHANGED <<want, expired, page, items, free, probing, cache, answer>>

\* Mutant of Gathered: without return_exceptions, the first error ends the gather.
GatheredOrFailed ==
    /\ phase = "models"
    /\ \/ \A w \in items[Root] : fetch[w] \in Ended
       \/ \E w \in items[Root] : fetch[w] = "failed"

\* `gather(..., return_exceptions=True)` comes back when every workspace ended.
Gathered ==
    /\ phase = "models"
    /\ \A w \in items[Root] : fetch[w] \in Ended

ModelsFail ==
    /\ Gathered
    /\ \E w \in items[Root] : fetch[w] = "failed"
    /\ Raise

\* Mutant of Listed: the pages a workspace gave before it was refused are kept.
ListedAnyway == UNION {items[w] : w \in items[Root]}

\* A workspace that was refused contributes nothing, not even its earlier pages.
Listed == UNION {items[w] : w \in {v \in items[Root] : fetch[v] = "done"}}

\* Mutant of Missing: every curated model is probed.
MissingAll == Curated

\* The curated models the workspaces did not give.
Missing == Curated \ Listed

ModelsKnown ==
    /\ Gathered
    /\ \A w \in items[Root] : fetch[w] # "failed"
    /\ phase' = "probing"
    /\ probe' = [m \in Model |-> IF m \in Missing THEN "queued" ELSE "off"]
    /\ UNCHANGED <<want, expired, fetching, gate, cache, answer>>

-----------------------------------------------------------------------------
\* The direct-share probe of one curated model, `async with gate`.
ProbeAsks(m) ==
    /\ probe[m] = "queued"
    /\ gate > 0
    /\ gate' = gate - 1
    /\ probe' = [probe EXCEPT ![m] = "asked"]
    /\ UNCHANGED <<call, fetching, cache, answer>>

\* Mutant of ProbeAnswered: whoever does not fail is taken for an answer.
ProbeAnswersAnybody(m) ==
    /\ probe[m] = "asked"
    /\ gate' = gate + 1
    /\ probe' = [probe EXCEPT ![m] = "shared"]
    /\ UNCHANGED <<call, fetching, cache, answer>>

ProbeAnswered(m) ==
    /\ probe[m] = "asked"
    /\ m \in Queryable /\ ~ expired
    /\ gate' = gate + 1
    /\ probe' = [probe EXCEPT ![m] = "shared"]
    /\ UNCHANGED <<call, fetching, cache, answer>>

\* A refusal or any other error: the model is left out.
ProbeFails(m) ==
    /\ probe[m] = "asked"
    /\ gate' = gate + 1
    /\ probe' = [probe EXCEPT ![m] = "skipped"]
    /\ UNCHANGED <<call, fetching, cache, answer>>

ListedRows ==
    {[id |-> m, curated |-> m \in Curated, shared_directly |-> FALSE] : m \in Listed}

SharedRows ==
    {[id |-> m, curated |-> TRUE, shared_directly |-> TRUE] :
        m \in {n \in Model : probe[n] = "shared"}}

\* Mutant of Finish: the filtered list is cached.
FinishFiltered ==
    /\ phase = "probing"
    /\ \A m \in Model : probe[m] \in {"off", "shared", "skipped"}
    /\ phase' = "idle"
    /\ cache' = List(Shown(ListedRows \cup SharedRows, want))
    /\ answer' = cache'
    /\ UNCHANGED <<want, expired, fetching, probing>>

Finish ==
    /\ phase = "probing"
    /\ \A m \in Model : probe[m] \in {"off", "shared", "skipped"}
    /\ phase' = "idle"
    /\ cache' = List(ListedRows \cup SharedRows)
    /\ answer' = List(Shown(ListedRows \cup SharedRows, want))
    /\ UNCHANGED <<want, expired, fetching, probing>>

-----------------------------------------------------------------------------
TokenExpires ==
    /\ phase # "idle"
    /\ ~ expired
    /\ expired' = TRUE
    /\ UNCHANGED <<phase, want, fetching, probing, cache, answer>>

\* catalog_cache_seconds later.
CacheExpires ==
    /\ phase = "idle"
    /\ cache.listed
    /\ cache' = Absent
    /\ UNCHANGED <<call, fetching, probing, answer>>

\* The call is cancelled at its await, and with it every task of its gather.
Cancel ==
    /\ phase \in {"workspaces", "models", "probing"}
    /\ phase' = "cancelled"
    /\ UNCHANGED <<want, expired, fetching, probing, cache, answer>>

\* Mutant of FetchUnwinds: a sleep that is cancelled keeps its permit.
FetchUnwindsAsleep(p) ==
    /\ phase = "cancelled"
    /\ fetch[p] \in Active
    /\ free' = IF fetch[p] \in {"asked", "again"} THEN free + 1 ELSE free
    /\ fetch' = [fetch EXCEPT ![p] = "off"]
    /\ UNCHANGED <<call, page, items, probing, cache, answer>>

\* What a fetch awaits raises: it leaves the queue, or gives its permit back.
FetchUnwinds(p) ==
    /\ phase = "cancelled"
    /\ fetch[p] \in Active
    /\ free' = IF fetch[p] \in InFlight THEN free + 1 ELSE free
    /\ fetch' = [fetch EXCEPT ![p] = "off"]
    /\ UNCHANGED <<call, page, items, probing, cache, answer>>

\* The same of a probe, which may come to it after its call has ended.
ProbeUnwinds(m) ==
    /\ phase \in {"cancelled", "idle"}
    /\ probe[m] \in Pending
    /\ gate' = IF probe[m] = "asked" THEN gate + 1 ELSE gate
    /\ probe' = [probe EXCEPT ![m] = "cancelled"]
    /\ UNCHANGED <<call, fetching, cache, answer>>

\* Mutant of Unwound: the gather over workspaces is left at its first cancelled task, too.
UnwoundFirst == \E p \in Path : fetch[p] \notin Active

\* `gather(..., return_exceptions=True)` waits for every fetch it cancelled; the
\* gather over the probes, without it, comes back with the first of them.
Unwound ==
    /\ \A p \in Path : fetch[p] \notin Active
    /\ (\E m \in Model : probe[m] \in Pending) => \E m \in Model : probe[m] = "cancelled"

Cancelled == phase = "cancelled" /\ Unwound /\ Raise

-----------------------------------------------------------------------------
\* A task that was cancelled does nothing but unwind.
Fetch(p) ==
    /\ phase \in {"workspaces", "models"}
    /\ \/ Acquire(p) \/ Throttled(p) \/ AskAgain(p) \/ PageArrives(p)
       \/ LastPageArrives(p) \/ FetchRefused(p) \/ FetchFails(p)

Probe(m) ==
    /\ phase = "probing"
    /\ ProbeAsks(m) \/ ProbeAnswered(m) \/ ProbeFails(m)

Proceed ==
    \/ \E p \in Path : Fetch(p) \/ FetchUnwinds(p)
    \/ \E m \in Model : Probe(m) \/ ProbeUnwinds(m)
    \/ Cancelled
    \/ WorkspacesFail \/ WorkspacesKnown \/ ModelsFail \/ ModelsKnown \/ Finish

Next ==
    \/ Proceed
    \/ CacheHit \/ Start
    \/ TokenExpires \/ CacheExpires \/ Cancel

Spec == Init /\ [][Next]_vars
FairSpec == Spec /\ WF_vars(Proceed)

-----------------------------------------------------------------------------
Everything(w) == UNION {Content[w][k] : k \in DOMAIN Content[w]}

Workspaces == Everything(Root)

IdsIn(rows) == {r.id : r \in rows}

(***************************************************************************)
(* A list that is cached leaves nothing out by accident: every page of     *)
(* every workspace is in it but those of workspaces that refused the user, *)
(* and so is every curated model whose probe answered, whatever was        *)
(* throttled, retried or asked for with include_uncurated=false on the way *)
(* (list_models, gateway.py:192-202; fabric.py:103-132).                   *)
(***************************************************************************)
EverythingIsListed ==
    cache.listed =>
        /\ \A w \in Workspaces :
              fetch[w] = "refused" \/ Everything(w) \subseteq IdsIn(cache.rows)
        /\ \A m \in Curated : probe[m] = "shared" => m \in IdsIn(cache.rows)

(***************************************************************************)
(* "Only models the user can reach are returned" (catalog.py:76): each row *)
(* comes from a workspace that let the user list its items, or was queried *)
(* with the user's token, and a model is listed once, as shared directly   *)
(* only when no workspace gave it.                                         *)
(***************************************************************************)
OnlyReachableModels ==
    answer.listed =>
        /\ \A r \in answer.rows :
              IF r.shared_directly
              THEN r.id \in Queryable \cap Curated
              ELSE \E w \in Workspaces \ Forbidden : r.id \in Everything(w)
        /\ \A r, s \in answer.rows : r.id = s.id => r = s

AtOnce == INSTANCE ModelList
            WITH listing <- phase # "idle", Serves <- [w \in Workspaces |-> Everything(w)]

(***************************************************************************)
(* With pages, permits, retries and probes hidden, a list is made at once: *)
(* each workspace is in it as a whole or, having refused the user, not at  *)
(* all, however many of its pages came before the refusal (fabric.py:103-  *)
(* 132), and a call that ends otherwise leaves nothing in the cache        *)
(* (list_models, gateway.py:192-202).                                      *)
(***************************************************************************)
ImplementsModelList == AtOnce!ListSpec

Held == {p \in Path : fetch[p] \in InFlight}
ProbesHeld == {m \in Model : probe[m] = "asked"}

(***************************************************************************)
(* When the call has ended, no request for a list is in flight, no task    *)
(* queues for one and the semaphore is full: the gather at fabric.py:128   *)
(* waits for the others before it lets an error or a cancellation out.     *)
(* The one at gateway.py:228 does not: a probe may outlive its call, but   *)
(* only one that was cancelled, whose call raised and cached nothing.      *)
(* While the call runs, the permits bound the requests.                    *)
(***************************************************************************)
NothingLeftBehind ==
    /\ Cardinality(Held) + free = Permits
    /\ Cardinality(ProbesHeld) + gate = Gate
    /\ phase = "idle" =>
          /\ \A p \in Path : fetch[p] \notin Active
          /\ (\E m \in Model : probe[m] \in Pending) =>
                answer = Raised /\ ~ cache.listed /\ \E m \in Model : probe[m] = "cancelled"

(***************************************************************************)
(* Every listing ends, although the sleep after a 429 keeps its permit     *)
(* (fabric.py:70-76): no fetch waits for a permit nobody gives back, and   *)
(* no cancelled call for a task that does not come back.                   *)
(***************************************************************************)
ListingEnds == phase # "idle" ~> phase = "idle"

(***************************************************************************)
(* The docstring's promise (fabric.py:107-109): "a partial list is never   *)
(* returned as if it were complete", for the workspaces whose items the    *)
(* user may list.                                                          *)
(***************************************************************************)
PartialListIsNeverReturned ==
    cache.listed =>
        \A w \in Workspaces \ Forbidden : Everything(w) \subseteq IdsIn(cache.rows)

=============================================================================
