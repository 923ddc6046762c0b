# A verification of powerbi-mcp-gateway

The gateway is a FastMCP server in front of Power BI.  An AI client calls its
tools; the gateway acts with the *user's* token (exchanged on behalf of the
user) towards two upstreams: the Fabric REST API, which lists workspaces and
models, and Power BI's hosted MCP server, which hands out schemas and runs
DAX.  A Foundry deployment writes DAX.  Users can attach short notes
("memories") to a model.  The server is one asyncio process; the only state it
keeps across restarts is a key-value store (Azure Table Storage), holding the
memories and, encrypted, FastMCP's OAuth state.

This directory holds TLA+ models of that code, TLC configurations that check
them on small instances, and TLAPS proofs of the results that matter most.
Every definition is translated from `src/`; `PROJECT.json` maps each of them
to its lines and lists the runs, the mutants of the code each property catches,
the hazards and the theorems.

```
tlc -workers 2 -config memories_lock.cfg MCMemories     # any run below
tlapm MemoriesProofs.tla                                # any *Proofs module
```

## 1. The system

| part (source) | state it keeps | operations | talks to |
|---|---|---|---|
| Memories (`memory.py`) | the record of each model, in the key-value store; one `asyncio.Lock` | `list`, `add`, `remove`, `_save` | key-value store |
| `TtlCache` (`gateway.py` 49-79) | an insertion-ordered dict | `get`, `set` | the monotonic clock |
| Access check and schema cache (`gateway.py` 231-241, 335-367) | `_schema_cache`, per user and model | `fetch_schema`, `require_access`, then `recall`, `remember`, `forget` | hosted MCP, Memories |
| Model listing (`gateway.py` 190-229, `fabric.py`, `catalog.py`) | `_models_cache` per user; per call a semaphore, pages, probes | `list_models`, `_directly_shared`, `list_accessible_models`, `_get_all`, `_get`, `merge` | Fabric API, hosted MCP |
| DAX (`gateway.py` 265-325, `dax_generator.py`, `hosted_mcp.py`) | locals of one call | `generate`, `execute`, `repair`, `execute_query` | Foundry, hosted MCP, schema cache, Memories |
| Error mapping (`gateway.py` 82-97, `hosted_mcp.py`) | none | `as_tool_error`, `raise_for_http_status` | - |
| Tool call logging (`observability.py`) | none | `on_call_tool` | - |
| OAuth state store (`state_store.py`) | encrypted records, in the table or on the container's disk | `build_client_storage`, then FastMCP's get and put | key-value store |
| Skills, catalog and their check (`skills.py`, `catalog.py`, `validate.py`, `__main__.py`) | read at start | `Skills.load`, `Catalog.load`, `check_skills` | - |
| MCP surface, settings (`server.py`, `config.py`) | none | ten tools that hand over to `Gateway`; recipes as prompts and resources | all |
| Deployment (`deploy/`) | the resources in Azure and Entra, the image | the steps of the script, by switches; staging of the skills | Azure |
| Operator scripts (`scripts/`) | none | manual probes | a running server |

How they interact: a tool of `server.py` takes the user's key and token and
awaits one `Gateway` method.  Each `await` is a point where other calls run,
where the call may be cancelled, and where the process may die.  Between calls
only the two caches, the lock of the memories and the store are shared.  A skills
folder reaches the server in an image, after a check that anybody may run and one
that the deploy script runs.

What is hard in it, and hard to test:

- **read, compute, put** on a shared record, with queueing, errors after the
  effect, cancellation and crashes (`memory.py`);
- **permissions held elsewhere**: an answer of Power BI is cached, and may
  arrive after the permission it rests on is gone (`gateway.py` 231-241), and a
  call that was let through then queues for the lock (`gateway.py` 355-357);
- **two readings of one folder**: the check and the loaders look names up
  differently, and the folder may change between the check and the build
  (`validate.py` 80-84, `deploy_to_azure.ps1` 111, 294);
- **state that outlives its key**: records of an earlier signing key, on a disk
  that a restart wipes or in a table that it does not (`state_store.py`);
- **expiry and eviction** over long sequences of gets and sets (`TtlCache`);
- **a fan-out** of paged, throttled requests through a semaphore, in which some
  workspaces refuse, others fail, the token expires half-way and the caller
  gives up (`fabric.py`);
- **a deployment script** that may end between any two of its steps and is then
  run again (`deploy/deploy_to_azure.ps1`);
- **the repair loop**: four upstream calls that can each fail, around a schema
  and notes that change (`gateway.py` 274-325).

The correctness properties per part are those of section 3; `hazards` in
`PROJECT.json` has one entry per place where the code could go wrong, with the
properties that would notice.

## 2. The modules

```
MemoryStore  <--implements--  Memories   <- MCMemories, MemoriesProofs
TtlCacheOps  <- TtlCache      <- MCTtlCache, TtlCacheProofs
             <- ModelAccess   <- MCModelAccess, ModelAccessProofs
ModelAccess  <--implements--  ToolCalls  <- MCToolCalls, ToolCallsProofs
ModelList    <--implements--  Listing    <- MCListing, ListingProofs
Upstream     <- DaxCalls      <- MCDaxCalls, DaxCallsProofs
Skills       <- Release       <- MCRelease, ReleaseProofs
Deployment   <- DeploymentProofs
```

**MemoryStore** is what `remember` and `forget` promise: a call changes the
record of its model in the step that answers it, or is refused, or fails with
nobody knowing whether it took effect.  A record is a set of memories, a memory
its id and author; the text, the date and the order of a record are not read by
the code that adds and removes.

**Memories** is the code: `pc` is the await a call is suspended at (the lock,
`kv.get`, the put), `holder` and `waiters` the `asyncio.Lock`, `base` the record
`self.list` returned, `target` the memory being added or removed.  `PrepareAdd`
and `PrepareRemove` are the stretch between the read and the put, `Save` the put
and the return, `WriteFails` an error or a timeout of the put, `Cancel*` a
cancellation at each await, `Crash` a restart of the process.  All three abandon
the put (`Abandon`): it took effect before, never does, or, with `MaxLate > 0`,
travels on and may take effect at any later time.
`fate` is a history variable: what the last answered call on a memory promised.
Two constants open the environment further: `MaxLate`, and `Curation`, which lets an
administrator delete memories in the table, as `docs/administration.md` offers.

**TtlCacheOps** has `get` and `set` as operators on a set of entries whose
`place` is the position in the dict's insertion order (the code evicts
`next(iter(self._items))`, so that order is state). **TtlCache** runs them
against a clock, **ModelAccess** uses them for the schema cache.

**ModelAccess** has Power BI's permissions (`permitted`, with the history
`lastSeen`), the schema cache, and calls that find the schema cached, or ask,
wait for an answer decided upstream, cache it when it arrives, and then touch the
memories within `StoreDelay`.  There is no single flight in the code and none in
the model.  It is also the abstract specification of the next module.

**ToolCalls** is the tools of `server.py` and what they call in `gateway.py`, run
together: `at` is the await (the token exchange, the schema, the notes, the lock,
the read, the put, upstream), `queue` the `asyncio.Lock` of the memories with its
holder in front, `from` when the access check passed.  `remember` and `forget`
pass the check first and queue afterwards.  Any await may fail or be cancelled,
and the process may restart.  `A` is the instance of `ModelAccess` it implements:
`AccessCall` takes the lock, the read and the put to "granted", the token and
upstream to "idle", and the store's delay to `QueueDelay`, two awaits for each call
there may be.  The notes themselves stay in `Memories`, the queries in `DaxCalls`.

**ModelList** is what `list_semantic_models` promises: the list is made in one step,
`Deliver`, each workspace is in it with all its models or with none, one that is left out
is forbidden or the token expired, and what is listed beside them is curated, answers
queries and is in none of them.  Or the call fails and nothing is kept.

**Listing** is one `list_semantic_models` call after the other for one user:
`fetch` has the state of each path's `_get_all` (queued for the semaphore, asked,
asleep after a 429 with the permit held, asked again, done, refused, failed),
`probe` the direct-share probes behind their own gate.  `Content` is what Fabric
lists, as pages.  `Gathered` is `gather(..., return_exceptions=True)`.  A cancellation
reaches the tasks of a gather one by one: `Cancel` asks for it, `FetchUnwinds` and
`ProbeUnwinds` are a task's own clean-up, in which it gives its permit back, and others go
on meanwhile; the gather over the workspaces waits for all of them before the
call may end (`Unwound`, `fabric.py` 128), the one over the probes raises at the first
(`Cancelled`, `gateway.py` 228), so probes may outlive a cancelled call, by which time
they stand at a gate that is that call's own.  Two listings share nothing but the cache
slot of one user, which each replaces as a whole, so one at a time is enough.

**DaxCalls** is `generate` and `execute`: `at` is the await, `prompts` what the
deployment was asked, as versions of schema and notes and whether the chat history
was in it, `first`, `second`, `error` the locals of the repair loop.  A query
is a model value, and `validate_dax` the predicate `Checked`.  Schema and notes
change underneath.

**Upstream** is what one request to the hosted server comes back as: a reply's
HTTP status, what its body holds, and whether its text has one of the refusal
words, and from them whether it succeeds (`_rpc`, `call_tool`, `_call_structured`)
and which of three texts the user is told (`as_tool_error`).  A JSON text that is no
object ("array": a list, a number, `null`) is a success to `_call_structured`, and
whoever looks into it then fails; where that is outside the `try` of the repair loop,
the query is lost with it.  `DaxCalls` lets every reply happen at every request.  A
successful result without a table is one of them: `execute_query` then answers fewer
tables than queries, in order but without a gap (`hosted_mcp.py` 140-142), and the
property on batches says no more than that.

**Skills** is what `Skills.load` and `Catalog.load` take from a folder and what
`check_skills` reports as an error.  A recipe's name is its file's stem in lower
case, and a file or a catalog entry may spell it otherwise, which is the only
thing about names the code tells apart.  Warnings change no verdict and are left out.

**Release** is the way of such a folder: edited, checked (`approved`), staged and built
into an image (`Build`), rolled out as a revision (`Roll`), waited for (`Answer`, which is
when the script says "deployed": `reported`), given other settings by an administrator
(`Configure`), restarted by the platform (`Restart`).  `EndDeploy` ends a run after any
step.  `BeginDeploy` runs the check only where the script does; with `-EngineImage` the
folder is laid over the example skills of the published image.  No image carries a
verdict: `vetted` is the model's own record of the folder an image was made of, for
`RowsNameServedRecipes`, which is about rows of a checked folder.  `table` has the key
each client's record is encrypted with, and a record under another key reads as missing.
Two things are assumed: a build has a tag of its own (the minute, if `-ImageTag` does not
say otherwise; a tag used twice is not modelled), and `/healthz` is answered by the new
revision or by none, as `deploy_to_azure.ps1:403` takes it to be.

**Deployment** is `deploy_to_azure.ps1`, one run after the other: `at` is the step,
`made` what exists by now, `registrations` and `parts` what is in Entra, `secrets`,
`images`, `admin`, `app` and `roles` what the later steps depend on, `appExists`, `client`,
`clientSecret` and `image` the script's own variables, `warned` what the run could not
make and went on without.  `Stop` ends a run between any two steps, for any reason.
`Lookup` is `Invoke-AzQuiet`, whose failure reads as "not there"; where a run then makes
again what exists and that changes something the model looks at (the registration at line
173, the app at line 245, the registry at line 285), it may, and `misread` records it.
`containerapp create` is one step: the app, its identity and that identity's `AcrPull` are
made inside a single command of the Azure CLI, and what is left when that command dies
half-way cannot be read off this repository.  A second initial state is the app of an
earlier version of the script, which line 367 treats.

The `MC` modules hold the instances' symmetry sets and the data that a `.cfg`
cannot write down.  The definitions marked "Mutant of" are plausible bugs of the
definition that follows; no specification uses them, and `PROJECT.json` says
which property each one breaks.

## 3. What is checked

| run | instance | shows |
|---|---|---|
| `memories_lock` | 2 calls, 2 users, 1 model, 3 ids, cap 2 | lost updates, undone deletions, foreign deletions and non-atomic outcomes do not happen, whatever fails, is cancelled or crashes |
| `memories_hostile` | 3 calls, late writes, curation, cap 1 | no record outgrows its cap or holds an id twice; every call is answered |
| `cache` | 3 keys, size 2, lifetime 2, 5 ticks | size, eviction order, expiry, and that `get` answers the last `set` |
| `access` | 2 users, 2 calls, lifetime 2, delay 1, store delay 2 | memories are reached only within `Window` of a permission |
| `tools` | 3 calls of `remember`, `generate_dax` and `execute_dax`, lifetime 1, delay 1 | the tools implement `ModelAccess`, whatever the queue and its cancellations; readers do not wait for writers |
| `listing` | 3 workspaces (one forbidden), 2 paged paths, 2 permits, 3 curated models, 2 probes at a time | completeness but for refusals, no request to Fabric after the call and no probe but of a cancelled one, termination, and that it implements `ModelList`: all or nothing per workspace |
| `listing_claim` | violation | a partial list after the token expired |
| `dax` | 3 queries (one invalid), batches of 0 to 3, every reply of `Upstream` | consistent answers, validation, row cap, one repair on the same grounding, termination |
| `skills` | 9 folders, 1 client, 2 signing keys, no example recipes | a deployment that was reported stands whatever is edited and built next, the rows of a checked folder name only what is served, and a storage account keeps what it should |
| `skills_engine` | violation | with `-EngineImage`, a checked folder makes a server that does not start |
| `deployment` | 2 runs of the script, all switches, any lookup failing, fresh or from an earlier version | the app can pull and sign users in, only a run that missed the app replaces its key, and a successful run has made, or warned of, all that the script lists but the identifier URI |
| `deployment_identifier` | violation | a registration created by an interrupted run never gets its identifier URI |

**Bounds.** *Memories:* the lock is global, so one model has all the contention there
is; two calls give every pair of interleaved operations, a third (in `memories_hostile`)
a queue whose middle may be cancelled; cap 2 with 3 ids reaches a full record with an id
to spare, and the proofs of section 4 cover every other size. `MaxLate` bounds the
writes still travelling. *Cache:* with three keys in a cache of two, every set is a
replacement, an insertion into room, into expired entries or into a full cache; five
ticks are two lifetimes and one. *Access:* the window is 5 and `MaxTime` 6 is one more,
so that a permission can be older than it; `Delay` and `StoreDelay` bound the time at
one await, as the HTTP timeouts do. *Tools:* three calls are a holder, a waiter that may
be cancelled, and one behind it; a tool of each way through the server is enough, as the
others of its set take the same steps; `recall` leaves after the notes as a failing
`generate_dax` does. `MaxTime` 4 is more than a turn of the lock and the lifetime, not
the whole `QueueDelay` of 6: the run has 370,000 states without it, and the proofs of
section 4 have no bound. *Skills:* the folders have each fault the loaders or the check
know, and the spellings that tell them apart; two keys are the old and the new one;
every other number is in the proofs. *Listing:* both a listing and a workspace have a
second page, one workspace is refused, fewer permits than workspaces make requests
queue, and the curated models are one listed, one shared directly, one out of reach. A
gate of two lets one probe run while another unwinds. *DAX:* the loop has no counter;
`MaxVersion` 1 lets schema and notes change once, at any await. *Deployment:* `MaxRuns`
2 is a run that is interrupted or misled, and one on its remains, and the earlier
version of the script is a run before both; section 4 has any number. The `deployment`
runs turn deadlock checking off because nobody need run the script again, and
`cache.cfg` turns deadlock checking off because no action is fair or needed there once
the clock has reached its bound.

**Fairness.**  `Memories`: weak fairness of each call's `Serve`: an `asyncio.Lock`
is first come first served, and the store's client answers or raises.  `Listing`
and `DaxCalls`: weak fairness of `Proceed`, the next step of the running call,
since each of its awaits is an HTTP request with a timeout or a bounded sleep.
Nothing obliges anybody to call, cancel, publish, curate or expire.  Liveness is
claimed of the server only: that a call it accepted is answered.

**Findings.**  Three runs end in a violation of what the repository says of itself:

1. `fabric.py:108`: "a partial list is never returned as if it were complete";
   a 401 because the token expired counts as "may not list" (`listing_claim`).
2. `deploy_to_azure.ps1:6`: "creates or updates, idempotently"; the identifier URI is
   set only by the run that creates the registration, so one that ends between
   lines 175 and 178 leaves it out for good (`deployment_identifier`).
3. `validate.py:4-5`: errors are what "the server would refuse or silently ignore",
   and `docs/private-skills.md` stages only the selected skills; with
   `-EngineImage` the folder lands among the example skills of the published image,
   and a recipe `Trend.md` beside an example `trend.md` makes every start fail
   (`skills_engine`).

Section 4 has, for each, the condition under which it does not occur.

## 4. What is proved

The theorems hold for every value of the constants that meets the modules' named
assumptions (at least one memory per model and one entry per cache; `NoCall`,
`NoId` no calls or ids; times natural numbers; finitely many calls in `ToolCalls`, whose
queue is bounded by their number).  TLC evaluates these on every run.

**MemoriesProofs.**  Three invariants build on each other.

- `TypeInv` is `TypeOK` and `Asked`: a suspended call knows its request and a
  writing one its target.  Without the latter, what it writes has no type.
  Theorem `TypeCorrect`.
- `RecordInv` adds that the record a writing call read, and every late write, is
  well formed, and that an adding call read one below the cap with its id
  unused.  It holds in *every* environment, late writes and curation included,
  since a put replaces the whole record by one that is well formed by itself.
  Theorem `RecordAlwaysWellFormed`.
- `LockInv` says that a call at the read or the put is the holder, that nobody
  else is, and that the record it read is the stored one.  It needs
  `OnlyLockedWrites` (`MaxLate = 0` and no curation): the late put of a
  cancelled, timed-out or crashed call, and an administrator's edit between a call's
  read and its put, are the ways it breaks.  From it: `PromisesAreKept`,
  `OnlyAuthorsForget`, and `MemoriesAreAtomic`, the refinement of `MemoryStore`, with the records, requests
  and replies mapped to themselves: the put is the abstract call, everything before
  it a stutter.

**TtlCacheProofs.**  Its lemmas say what deleting from a dict does to its order
(`Compact` keeps the entries, their number and their order).
`CacheInv` is that places are exactly 1 to the size, keys are unique,
insertion order is expiry order, and a live entry holds the last set of its key.
Theorems `CacheIsSound` and `LiveEntriesStay`.

**ModelAccessProofs.**  `RevocationReaches` is about granted calls only.  The
invariant `AccessInv` carries the reason back to its source: what every cached
schema rests on (`CacheIsJustified`), what every answer on its way rests on, and
how long each may still be there.  Theorem `AccessIsBounded`, for any delay of the
store, which is what the next module needs.  `CompactEntries`, `StoredEntries` and
`AfterGetEntries`, the three facts about the dict it needs, are stated again here and in
`ToolCallsProofs`: a module with other variables can extend neither `TtlCacheProofs` nor
`TtlCache`.

**ToolCallsProofs.** `ToolsInv` says that each writer past the check is in the queue once
and nobody else is, that only its head runs (`QueueInv`), how old each await may be
(`WaitInv`), and `QueueInTime`. The lemmas `Turns`, `QueueIsShort` and `Removed` are the
arithmetic: taking any call out of a queue without repetition only brings forward the ones
behind it. Theorem `QueueIsInTime`. From it `ToolsImplementAccess`: `ToolsStep` shows step
by step that each is a step of `ModelAccess` or a stutter, time included, since no granted
call has used up its `QueueDelay` when the clock may tick. Readers need a sharper
invariant, `GrantInv`, which repeats the argument of `ModelAccessProofs` without the
queue: `ReadersSeeRecentPermission`.

**ListingProofs.**  Of the workspaces, models and pages nothing is assumed but that
each path has a page; none of the sets need be finite.  `ListingInv` is `TypeOK` and
four parts:

- `PermitInv`: permits left and requests in flight add up, in both semaphores, also while
  a cancelled call unwinds;
- `PageInv`: a fetch holds exactly the pages before the one it asks for, throttled and
  retried as it may be, and all of them when it is done;
- `PhaseInv`: which fetches and probes there may be at each point of the call, which is
  where the order of the two gathers comes in: without it, models could be merged while
  some workspace is still read, or a cancelled call end while one is;
- `ResultInv`: when there is a list, each workspace is done or refused and only missing
  models were probed (`Complete`, which `PhaseInv` has from the probes on), and what
  is cached or answered is what the call's fetches and probes came to, which they still
  show, since no call starts while a list is cached.

`FetchStep` and `ProbeStep` say once what the steps of a fetch and of a probe have in
common.  Theorems `ListingInvHolds`, `NothingIsLeftOut`, `RowsAreReachable`,
`PermitsComeBack`.  For `ListingIsAtOnce`, the refinement of `ModelList`, one more
invariant is needed, `RefusedInv`: a refusal has its reason (the workspace is
forbidden or the token has expired), and keeps it.  `FinishDelivers` names the workspaces
and models that the abstract step delivers; every other step is a failure, a change of the
token or the cache, or a stutter.  With `RefusedInv` also
`ListsAreCompleteWhileTheTokenLasts`: finding 1 has no other cause than the token.

**DaxCallsProofs.**  `QueryInv` keeps the fact that a query was checked over the two
awaits until it runs, `PromptInv` what the deployment was asked with.  Theorems
`QueriesAreChecked` and `RepairIsGrounded`.  `AnswerInv` says how far each await has come
and what was collected there; from it `AnswersBelongTogether`.  The tables of a batch are put
in order by `TablesOf`, a recursive function over the results; `TablesDefined` and
`TablesInOrder` are proved by induction over their number, which the lemma `CountingUp` makes
an induction over a *set* of numbers, since the library's rules take a predicate.

**ReleaseProofs.**  `ReleaseInv` carries the soundness of a checked folder's rows from the
folder into the image, the revision and the running server; more recipes in the image do
not hurt a row, so `RowsAreServed` holds with `-EngineImage` too.  They do hurt the start:
`CheckedFoldersStart` assumes `Example = {}`, and finding 3 is the run without that
assumption.  `RolloutInv` says that the server is at any time what a start from its
revision gives; with it `DeploysStand`: what was reported was up, and a restart brings it
back.  `StateIsKept` needs only that the table has one record per client.  `TypesHold` is
the type invariant by itself.

**DeploymentProofs.** `DeployInv` adds to the properties what a run knows at its step.
`KnownClient`: from the registration on, that it is there, and that the secret in hand is
one of its own. `KnownApp`: an app that was found is there, one that was not found is
there only if this run misread; from the build on, an image that exists; at the switch of
the pull identity, its role. `OneRegistration`: there is one, unless one was misread.
`Stop` forgets the step, so nothing has to survive it. Theorems `AppCanAlwaysPull`,
`UsersCanSignIn`, `KeyIsKept`, for every number of runs; each names the failed lookup that
breaks the plain claim, and holds it to that. `CompleteInv` is what a run has behind it at
each step (`MadeInv`: nothing that was made is unmade, and each step makes its own, finds
it, or warns) and what it has handed to the app (`HeldInv`); at the last step they add up
to `DeployedRunsAreComplete`. `TypesHold` is the type invariant by itself.
`IdentifierIsSetUnlessInterrupted` assumes of the runs that none ends between lines 175
and 178 (`IdentifierStepRuns`): then finding 2 does not occur, whatever else is
interrupted or misread.

**Only model-checked:** liveness (`EveryCallAnswered`, `ListingEnds`, `CallEnds`), as the
prover reaches neither fairness nor ENABLED.  Every other property of a passing run is
stated by a theorem.  `CheckedFolderStarts` is the one property that a theorem states and
only a violating run checks, as the two differ in `Example`.

## 5. Not modelled, and the plan

Left out for good: the exchange of tokens itself (FastMCP's Azure provider), the text of
prompts, instructions and tool descriptions, log lines (`observability.py`: one per
call, and no state), the numbers among the settings (they are the models' constants),
`-WriteLocalEnv`, and the operator scripts (manual probes of a running server).
`get_report_metadata` is a way through `ToolCalls` but decodes its reply as
`get_schema` does, and has no definition of its own.  One process is assumed
throughout, as the lock of `memory.py` assumes it; a second replica would act like
the late writes of `memories_hostile`.

Observed on the way and not stated by a run, in the memories and the access check:

- `docs/administration.md:49` and `gateway.py:339` bound the effect of a revocation by
  `schema_cache_seconds`; an answer in flight at the revocation is cached for a full
  lifetime after it, and a writer then queues.  `Window` and `QueueDelay` are the
  bounds that hold;
- the lock "keeps two tool calls in this process from losing each other's change"
  (`memory.py:66-67`), but a cancelled or timed-out call leaves it with its put possibly
  still on its way;
- a memory that an administrator deletes in Storage Explorer (`memory.py:12`) between a
  call's read and its put comes back, as the put is unconditional;
- 50 notes of 500 characters of four bytes are 100,000 bytes, more than the 64 KB that
  `memory.py:13` and `config.py:45` say the caps keep a record under;
- users whose tokens carry none of three claims share the key "anonymous", and with it
  what is cached under it (`observability.py:38`).

In the requests upstream:

- a JSON reply that is no object passes `_call_structured` (`hosted_mcp.py:123-126`);
  `generate_dax` then raises an `AttributeError` at `gateway.py:324`, after its `try`, and
  the query it made is lost; a batch of several fails the same way, and `execute_dax` hands
  a single such reply to the user as it is;
- the repair's prompt lacks the chat history the first one had (`dax_generator.py:199`),
  and the repair is attempted after any exception, a timeout or a throttled request
  included (`gateway.py:307`);
- `validate_dax` says "exactly one EVALUATE statement (a measure or string containing the word
  does not count)" (`dax_generator.py:110`), but it matches the whole word anywhere: a
  query with `[Evaluate Index]`, a string `"evaluate"` or a comment with the word is
  rejected.  `DaxCalls` leaves open where the line is drawn;
- a refusal is recognised by words of the error's text (`gateway.py:90`);
- paging has no bound of its own against a server that repeats a continuation token
  (`fabric.py:82`);
- "Every tool call is one line" (`docs/troubleshooting.md:30`), but a cancelled one leaves
  none (`observability.py:60`), and the line of a failing one may quote upstream text.

In skills and deployment:

- of catalog entries with one id, up to case, the last one counts and the check says
  nothing of the others; `skill://catalog` is read from disk at each request, while the
  rows were loaded at the start;
- `docs/skills-authoring.md:81-83` has the deploy script run the check "before
  touching Azure"; with `-EngineImage` or without a `.venv` it does not
  (`deploy_to_azure.ps1:111-117`);
- `docs/administration.md:39-40` says of access that is revoked: "existing gateway sessions
  expire with their refresh tokens (hours), immediately after a redeploy".  The state table
  and the signing key outlive the revision, so a redeploy ends nothing, as lines 26 and
  91-92 of the same document say, and as `StateSurvives` does;
- a revision without a role "never answers" `/healthz` and fails the run there
  (`deploy_to_azure.ps1:403-404`), but `build_client_storage` opens no connection and
  `/healthz` looks at no store, so such a run succeeds, with `Grant-Role`'s warning only;
- a lookup that fails reads as absence (`deploy_to_azure.ps1:139-144`), and where the
  resource is there after all, the run goes on as if it were new.  At line 245 that means a
  fresh signing key for the app there is (354-363), which signs everybody out.  At line 173
  it means a second registration of the same name: a run that has an app then points it at
  that one, with a secret of the first, and reports success though nobody can sign in, until
  a run with `-RotateSecret`.  At line 285 it means `acr create` over the
  registry, which may close the admin user an earlier version's app still pulls with (what
  the command does to an existing registry is taken from Azure, not from this code).

What is left, in this order:

1. `DaxText`: `validate_dax`, `parse_generation` and `compact_schema` over token
   sequences, against reference definitions;
2. `Memories` under the queue of `ToolCalls`: one specification of which both are
   projections.
