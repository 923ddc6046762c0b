----------------------------- MODULE ToolCalls -----------------------------
(***************************************************************************)
(* The tools of server.py, run together: for each call the user's token is *)
(* exchanged for one of Power BI (EntraOBOToken), the schema is looked up  *)
(* or fetched where the tool needs it, and the call goes on to the notes,  *)
(* to the write lock of the memories, or upstream.                         *)
(*                                                                         *)
(* remember and forget pass the access check before they queue for the     *)
(* lock, so what they were allowed on gets older while they wait for the   *)
(* calls ahead of them.  Calls interleave at every await, each of which    *)
(* may fail, time out or be cancelled; requests upstream have no bound.    *)
(*                                                                         *)
(* get_business_context and get_recipe answer without an await and change  *)
(* nothing, so they are no steps here.  The notes themselves are in        *)
(* Memories, the queries in DaxCalls, the listing in Listing.              *)
(***************************************************************************)
EXTENDS TtlCacheOps, Sequences, SequencesExt

CONSTANTS
    User,
    Model,
    Call,   \* tool calls that may be in progress together
    Tool,   \* tools they may be calls of
    Delay,  \* bound on the time a call spends at one await, the lock excepted
    MaxTime \* bound on the clock, for TLC

Writers == {"remember", "forget"}
Readers == {"recall", "get_semantic_model_schema", "generate_dax"}
Others == {"list_semantic_models", "execute_dax", "get_report_metadata"}

ASSUME ToolAssumption == Tool \subseteq Writers \cup Readers \cup Others
ASSUME CallAssumption == IsFiniteSet(Call)
ASSUME TimeAssumption == Delay \in Nat /\ MaxTime \in Nat

VARIABLES
    now, permitted, lastSeen, cache, \* as in ModelAccess
    call,                            \* call -> the await it is at and what it knows
    queue                            \* Memories._write_lock: who holds it, then who waits

external == <<permitted, lastSeen>>
vars == <<now, permitted, lastSeen, cache, call, queue>>

Access == User \X Model

Idle == [at |-> "idle"]
Upstream == [at |-> "upstream"]
Begun(tool, who, t) ==
    [at |-> "token", tool |-> tool, who |-> who, since |-> t, from |-> 0, asOf |-> 0]

Inside == {"notes", "lock", "read", "put"}  \* past the access check, before the store is done
Stages == {"token", "asking", "answered", "refused"} \cup Inside

\* since: when the await began; from: when the access check passed; asOf: the schema's age.
Calls == {Idle, Upstream}
         \cup [at : Stages, tool : Tool, who : Access, since : Nat, from : Nat, asOf : Nat]

TypeOK ==
    /\ now \in Nat
    /\ permitted \subseteq Access
    /\ lastSeen \in [Access -> Nat]
    /\ cache \subseteq Entry(Access, Nat)
    /\ call \in [Call -> Calls]
    /\ queue \in Seq(Call)

Init ==
    /\ now = 0
    /\ permitted \in SUBSET Access
    /\ lastSeen = [a \in Access |-> IF a \in permitted THEN 1 ELSE 0]
    /\ cache = {}
    /\ call = [c \in Call |-> Idle]
    /\ queue = <<>>

-----------------------------------------------------------------------------
\* Power BI: a workspace admin grants or revokes the user's permission.
Grant(a) ==
    /\ a \notin permitted
    /\ permitted' = permitted \cup {a}
    /\ lastSeen' = [lastSeen EXCEPT ![a] = now + 1]
    /\ UNCHANGED <<now, cache, call, queue>>

Revoke(a) ==
    /\ a \in permitted
    /\ permitted' = permitted \ {a}
    /\ UNCHANGED <<now, lastSeen, cache, call, queue>>

\* A free lock is handed on at once; every other await but those upstream has its bound.
Tick ==
    /\ now < MaxTime
    /\ \A c \in Call : call[c].at \notin {"idle", "lock", "upstream"} => now < call[c].since + Delay
    /\ queue # <<>> => call[Head(queue)].at # "lock"
    /\ now' = now + 1
    /\ lastSeen' = [a \in Access |-> IF a \in permitted THEN now + 2 ELSE lastSeen[a]]
    /\ UNCHANGED <<permitted, cache, call, queue>>

-----------------------------------------------------------------------------
\* The call goes on to this await.
GoOn(c, stage) == call' = [call EXCEPT ![c] = [@ EXCEPT !.at = stage, !.since = now]]

\* It asks Power BI, Fabric or Foundry, and will touch nothing of the gateway's any more.
AskUpstream(c) == call' = [call EXCEPT ![c] = Upstream] /\ UNCHANGED queue

\* Mutant of Admit: reading the notes takes the lock as well.
AdmitInTurn(c, asOf) ==
    LET stage == IF queue = <<>> THEN "read" ELSE "lock"
    IN  /\ queue' = Append(queue, c)
        /\ call' = [call EXCEPT ![c] =
                      [@ EXCEPT !.at = stage, !.since = now, !.from = now, !.asOf = asOf]]

\* fetch_schema returned: on to the lock, which is taken at once if it is free, or the notes.
Admit(c, asOf) ==
    LET writes == call[c].tool \in Writers
        stage == IF ~ writes THEN "notes" ELSE IF queue = <<>> THEN "read" ELSE "lock"
    IN  /\ queue' = IF writes THEN Append(queue, c) ELSE queue
        /\ call' = [call EXCEPT ![c] =
                      [@ EXCEPT !.at = stage, !.since = now, !.from = now, !.asOf = asOf]]

\* The call returns or raises; if it was at the lock or inside, it is not any more.
Leave(c) ==
    /\ call' = [call EXCEPT ![c] = Idle]
    /\ \/ (\A k \in DOMAIN queue : queue[k] # c) /\ UNCHANGED queue
       \/ \E k \in DOMAIN queue : queue[k] = c /\ queue' = RemoveAt(queue, k)

-----------------------------------------------------------------------------
\* FastMCP calls the tool: first the on-behalf-of exchange.
Begin(c, tool, a) ==
    /\ call[c] = Idle
    /\ call' = [call EXCEPT ![c] = Begun(tool, a, now)]
    /\ UNCHANGED <<now, external, cache, queue>>

\* The Power BI token is there.  A tool that needs no schema goes upstream with it.
GoUpstream(c) ==
    /\ call[c].at = "token"
    /\ call[c].tool \in Others
    /\ AskUpstream(c)
    /\ UNCHANGED <<now, external, cache>>

\* Mutant of CacheHit: the memories are reached without looking for a schema.
CacheHitUnchecked(c) ==
    /\ call[c].at = "token"
    /\ call[c].tool \notin Others
    /\ Admit(c, now)
    /\ UNCHANGED <<now, external, cache>>

\* The others look in the schema cache, and are let through by what they find,
CacheHit(c) ==
    /\ call[c].at = "token"
    /\ call[c].tool \notin Others
    /\ \E e \in Hits(cache, call[c].who, now) : Admit(c, e.value)
    /\ UNCHANGED <<now, external, cache>>

\* or ask Power BI with the user's token.
CacheMiss(c) ==
    /\ call[c].at = "token"
    /\ call[c].tool \notin Others
    /\ Hits(cache, call[c].who, now) = {}
    /\ cache' = AfterGet(cache, call[c].who, now)
    /\ GoOn(c, "asking")
    /\ UNCHANGED <<now, external, queue>>

\* Power BI decides, on the permissions of that moment; the answer is part of the same await.
PowerBIAnswers(c) ==
    /\ call[c].at = "asking"
    /\ call' = [call EXCEPT ![c] =
                  IF @.who \in permitted
                  THEN [@ EXCEPT !.at = "answered", !.asOf = now]
                  ELSE [@ EXCEPT !.at = "refused"]]
    /\ UNCHANGED <<now, external, cache, queue>>

\* Mutant of SchemaArrives: the key leaves out the user.
SchemaArrivesForModel(c) ==
    /\ call[c].at = "answered"
    /\ cache' = Stored(cache, call[c].who[2], call[c].asOf, now)
    /\ Admit(c, call[c].asOf)
    /\ UNCHANGED <<now, external>>

SchemaArrives(c) ==
    /\ call[c].at = "answered"
    /\ cache' = Stored(cache, call[c].who, call[c].asOf, now)
    /\ Admit(c, call[c].asOf)
    /\ UNCHANGED <<now, external>>

\* The notes are read: recall and the schema answer with them, generate_dax goes on.
NotesArrive(c) ==
    /\ call[c].at = "notes"
    /\ IF call[c].tool = "generate_dax" THEN AskUpstream(c) ELSE Leave(c)
    /\ UNCHANGED <<now, external, cache>>

\* Mutant of Acquire: the lock goes to the call that came last.
AcquireLast(c) ==
    /\ call[c].at = "lock"
    /\ call[Head(queue)].at = "lock"
    /\ Last(queue) = c
    /\ queue' = <<c>> \o Front(queue)
    /\ GoOn(c, "read")
    /\ UNCHANGED <<now, external, cache>>

\* The call that waited longest holds the lock, and asks for the record.
Acquire(c) ==
    /\ call[c].at = "lock"
    /\ Head(queue) = c
    /\ GoOn(c, "read")
    /\ UNCHANGED <<now, external, cache, queue>>

\* The record arrived, and the new one is on its way.
RecordArrives(c) ==
    /\ call[c].at = "read"
    /\ GoOn(c, "put")
    /\ UNCHANGED <<now, external, cache, queue>>

\* The last await of the tool is over.
Finish(c) ==
    /\ call[c].at \in {"refused", "put", "upstream"}
    /\ Leave(c)
    /\ UNCHANGED <<now, external, cache>>

\* Bad input, an error, a time-out or a cancellation, at any await.
Fail(c) ==
    /\ call[c] # Idle
    /\ Leave(c)
    /\ UNCHANGED <<now, external, cache>>

\* The process restarts: an empty cache, a free lock, and no calls.
Restart ==
    /\ cache' = {}
    /\ call' = [c \in Call |-> Idle]
    /\ queue' = <<>>
    /\ UNCHANGED <<now, external>>

-----------------------------------------------------------------------------
Progress(c) ==
    \/ GoUpstream(c) \/ CacheHit(c) \/ CacheMiss(c) \/ PowerBIAnswers(c) \/ SchemaArrives(c)
    \/ NotesArrive(c) \/ Acquire(c) \/ RecordArrives(c) \/ Finish(c)

Next ==
    \/ \E a \in Access : Grant(a) \/ Revoke(a)
    \/ \E c \in Call, tool \in Tool, a \in Access : Begin(c, tool, a)
    \/ \E c \in Call : Progress(c) \/ Fail(c)
    \/ Restart
    \/ Tick

Spec == Init /\ [][Next]_vars

-----------------------------------------------------------------------------
\* A writer has its turn after at most every other one, each reading and putting a record.
Turn == 2 * Delay
QueueDelay == Turn * Cardinality(Call)

(***************************************************************************)
(* What all this is to ModelAccess: calls ask, are answered, and hold what *)
(* they were granted until the store is done with them.                    *)
(***************************************************************************)
AccessCall(k) ==
    CASE k.at \in {"token", "idle", "upstream"} -> Idle
      [] k.at \in {"asking", "refused"} -> [at |-> k.at, who |-> k.who, since |-> k.since]
      [] k.at = "answered" ->
             [at |-> "answered", who |-> k.who, since |-> k.since, asOf |-> k.asOf]
      [] k.at \in Inside -> [at |-> "granted", who |-> k.who, since |-> k.from, asOf |-> k.asOf]

A == INSTANCE ModelAccess
        WITH call <- [c \in Call |-> AccessCall(call[c])], StoreDelay <- QueueDelay

(***************************************************************************)
(* The tools implement the access check of ModelAccess: none touches the   *)
(* notes but on a schema Power BI gave its user (gateway.py:349-367), and  *)
(* the wait for the lock between the check and the put (gateway.py:355-    *)
(* 357) is bounded by the calls there may be, whatever fails meanwhile.    *)
(***************************************************************************)
ImplementsAccess == A!Spec

(***************************************************************************)
(* Reading notes waits for no writer: recall, the schema and generate_dax  *)
(* see them on a permission that is at most two awaits and a lifetime old  *)
(* (gateway.py:247-249, 350-351), however long the queue is.               *)
(***************************************************************************)
ReadersAreTimely ==
    \A c \in Call : call[c].at \in Inside /\ call[c].tool \in Readers =>
        /\ lastSeen[call[c].who] > 0
        /\ now + 1 <= lastSeen[call[c].who] + Delay + Ttl + Delay

\* By when the call at the head of the queue is done.
HeadDone ==
    LET k == call[Head(queue)]
    IN  CASE k.at = "lock" -> now + Turn
          [] k.at = "read" -> k.since + Turn
          [] k.at = "put" -> k.since + Delay

(***************************************************************************)
(* First come, first served: at every moment the calls in the queue will   *)
(* have had their turns within QueueDelay of the check each of them        *)
(* passed, wherever in the queue calls were cancelled (memory.py:69).      *)
(***************************************************************************)
QueueInTime ==
    \A k \in DOMAIN queue :
        HeadDone + Turn * (k - 1) <= call[queue[k]].from + QueueDelay

=============================================================================
