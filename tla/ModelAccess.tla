---------------------------- MODULE ModelAccess ----------------------------
(***************************************************************************)
(* Who may reach the memories of a model (powerbi_mcp/gateway.py:          *)
(* fetch_schema, require_access, recall, remember, forget, schema).        *)
(*                                                                         *)
(* The gateway keeps no access list: a call may touch a model's memories   *)
(* once fetch_schema succeeded for its user, from the per-user schema      *)
(* cache or by asking Power BI.  Permissions belong to Power BI and change *)
(* at any time, also while an answer is on its way and while a call that   *)
(* was let through waits for the store.  Calls interleave at each await,   *)
(* and there is no single flight: two calls may fetch the same schema.     *)
(***************************************************************************)
EXTENDS TtlCacheOps

CONSTANTS
    User,
    Model,
    Call,     \* tool calls that may be in progress together
    Delay,      \* bound on the time Power BI takes to answer a request
    StoreDelay, \* bound on the time from there until the store has answered
    MaxTime     \* bound on the clock, for TLC

ASSUME TimeAssumption == Delay \in Nat /\ StoreDelay \in Nat /\ MaxTime \in Nat

VARIABLES
    now,       \* time.monotonic()
    permitted, \* Power BI: which user may read which model
    lastSeen,  \* history: when the user was last permitted, as now + 1; 0 = never
    cache,     \* Gateway._schema_cache; a value is when Power BI gave the schema
    call       \* call -> where it is and what it knows

external == <<permitted, lastSeen>>
vars == <<now, permitted, lastSeen, cache, call>>

Access == User \X Model

(***************************************************************************)
(* A call is idle; asking Power BI for the schema; holding its answer on   *)
(* the way back (a schema as of some time, or a refusal); or granted, on   *)
(* the strength of a schema as of some time, and about to touch the        *)
(* memories.                                                               *)
(***************************************************************************)
Idle == [at |-> "idle"]
Asking(who, t) == [at |-> "asking", who |-> who, since |-> t]
Answered(who, t, asOf) == [at |-> "answered", who |-> who, since |-> t, asOf |-> asOf]
Refused(who, t) == [at |-> "refused", who |-> who, since |-> t]
Granted(who, t, asOf) == [at |-> "granted", who |-> who, since |-> t, asOf |-> asOf]

Calls ==
    {Idle}
    \cup [at : {"asking", "refused"}, who : Access, since : Nat]
    \cup [at : {"answered", "granted"}, who : Access, since : Nat, asOf : Nat]

TypeOK ==
    /\ now \in Nat
    /\ permitted \subseteq Access
    /\ lastSeen \in [Access -> Nat]
    /\ cache \subseteq Entry(Access, Nat)
    /\ call \in [Call -> Calls]

Init ==
    /\ now = 0
    /\ permitted \in SUBSET Access
    /\ lastSeen = [a \in Access |-> IF a \in permitted THEN 1 ELSE 0]
    /\ cache = {}
    /\ call = [c \in Call |-> Idle]

-----------------------------------------------------------------------------
\* Power BI: a workspace admin grants or revokes the user's permission.
Grant(a) ==
    /\ a \notin permitted
    /\ permitted' = permitted \cup {a}
    /\ lastSeen' = [lastSeen EXCEPT ![a] = now + 1]
    /\ UNCHANGED <<now, cache, call>>

Revoke(a) ==
    /\ a \in permitted
    /\ permitted' = permitted \ {a}
    /\ UNCHANGED <<now, lastSeen, cache, call>>

(***************************************************************************)
(* Time passes while no call is at the end of its patience: requests to    *)
(* Power BI and to the store time out.                                     *)
(***************************************************************************)
Patience(c) == IF call[c].at = "granted" THEN StoreDelay ELSE Delay

Tick ==
    /\ now < MaxTime
    /\ \A c \in Call : call[c] # Idle => now < call[c].since + Patience(c)
    /\ now' = now + 1
    /\ lastSeen' = [a \in Access |-> IF a \in permitted THEN now + 2 ELSE lastSeen[a]]
    /\ UNCHANGED <<permitted, cache, call>>

-----------------------------------------------------------------------------
\* Mutant of CacheHit: a hit renews the entry's lifetime.
CacheHitRenews(c, a) ==
    /\ call[c] = Idle
    /\ \E e \in Hits(cache, a, now) :
          /\ call' = [call EXCEPT ![c] = Granted(a, now, e.value)]
          /\ cache' = Stored(cache, a, e.value, now)
    /\ UNCHANGED <<now, permitted, lastSeen>>

\* Mutant of CacheHit: the cache is keyed by the model alone.
CacheHitOfAnybody(c, a) ==
    /\ call[c] = Idle
    /\ \E b \in Access : \E e \in Hits(cache, b, now) :
          /\ b[2] = a[2]
          /\ call' = [call EXCEPT ![c] = Granted(a, now, e.value)]
    /\ UNCHANGED <<now, permitted, lastSeen, cache>>

\* fetch_schema finds the schema cached for this user: no request is made.
CacheHit(c, a) ==
    /\ call[c] = Idle
    /\ \E e \in Hits(cache, a, now) :
          call' = [call EXCEPT ![c] = Granted(a, now, e.value)]
    /\ UNCHANGED <<now, permitted, lastSeen, cache>>

\* It does not, and asks Power BI with the user's own token.
CacheMiss(c, a) ==
    /\ call[c] = Idle
    /\ Hits(cache, a, now) = {}
    /\ cache' = AfterGet(cache, a, now)
    /\ call' = [call EXCEPT ![c] = Asking(a, now)]
    /\ UNCHANGED <<now, permitted, lastSeen>>

\* Mutant of PowerBIAnswers: a refusal in the answer is taken for a schema.
PowerBIAnswersAnybody(c) ==
    /\ call[c].at = "asking"
    /\ call' = [call EXCEPT ![c] = Answered(call[c].who, call[c].since, now)]
    /\ UNCHANGED <<now, permitted, lastSeen, cache>>

\* Power BI decides, on the permissions of that moment.
PowerBIAnswers(c) ==
    /\ call[c].at = "asking"
    /\ LET a == call[c].who
       IN  call' = [call EXCEPT ![c] =
                       IF a \in permitted
                       THEN Answered(a, call[c].since, now)
                       ELSE Refused(a, call[c].since)]
    /\ UNCHANGED <<now, permitted, lastSeen, cache>>

\* Mutant of SchemaArrives: the key leaves out the user.
SchemaArrivesForModel(c) ==
    /\ call[c].at = "answered"
    /\ LET a == call[c].who
       IN  /\ cache' = Stored(cache, a[2], call[c].asOf, now)
           /\ call' = [call EXCEPT ![c] = Granted(a, now, call[c].asOf)]
    /\ UNCHANGED <<now, permitted, lastSeen>>

\* The schema arrives: it is cached from now on, and the call goes on.
SchemaArrives(c) ==
    /\ call[c].at = "answered"
    /\ LET a == call[c].who
       IN  /\ cache' = Stored(cache, a, call[c].asOf, now)
           /\ call' = [call EXCEPT ![c] = Granted(a, now, call[c].asOf)]
    /\ UNCHANGED <<now, permitted, lastSeen>>

\* A refusal or a failed request is raised; nothing is cached, nothing evicted.
RequestFails(c) ==
    /\ call[c].at \in {"asking", "answered", "refused"}
    /\ call' = [call EXCEPT ![c] = Idle]
    /\ UNCHANGED <<now, permitted, lastSeen, cache>>

\* The store answers: the memories are listed or changed, and the call returns.
TouchMemories(c) ==
    /\ call[c].at = "granted"
    /\ call' = [call EXCEPT ![c] = Idle]
    /\ UNCHANGED <<now, permitted, lastSeen, cache>>

\* The process restarts with an empty cache, and its calls are lost.
Restart ==
    /\ cache' = {}
    /\ call' = [c \in Call |-> Idle]
    /\ UNCHANGED <<now, permitted, lastSeen>>

-----------------------------------------------------------------------------
Progress(c) ==
    PowerBIAnswers(c) \/ SchemaArrives(c) \/ RequestFails(c) \/ TouchMemories(c)

Next ==
    \/ \E a \in Access : Grant(a) \/ Revoke(a)
    \/ \E c \in Call : Progress(c) \/ \E a \in Access : CacheHit(c, a) \/ CacheMiss(c, a)
    \/ Restart
    \/ Tick

Spec == Init /\ [][Next]_vars

(***************************************************************************)
(* How old the permission may be on which a call acts: the answer travels  *)
(* for up to Delay before it is cached, lives there for Ttl, and the call  *)
(* it lets through takes up to StoreDelay until the store has answered.    *)
(***************************************************************************)
Window == Delay + Ttl + StoreDelay

(***************************************************************************)
(* Access revoked in Power BI is access revoked to the memories, Window    *)
(* later at most (require_access, gateway.py:335-346): a call is let       *)
(* through only for a user who was permitted to read that very model       *)
(* within the window, never for one who never was.                         *)
(***************************************************************************)
RevocationReaches ==
    \A c \in Call : call[c].at = "granted" =>
        /\ lastSeen[call[c].who] > 0
        /\ now + 1 <= lastSeen[call[c].who] + Window

(***************************************************************************)
(* The schema a call works with is never older than the window, although   *)
(* concurrent fetches of one user may overwrite a newer answer with an     *)
(* older one and give it a full lifetime (fetch_schema, gateway.py:237).   *)
(***************************************************************************)
SchemaIsRecent ==
    \A c \in Call : call[c].at = "granted" => now <= call[c].asOf + Window

(***************************************************************************)
(* Every cached schema was given by Power BI to the very user it is kept   *)
(* for, at a moment this user was permitted, and arrived within Delay.     *)
(***************************************************************************)
CacheIsJustified ==
    \A e \in cache :
        /\ e.value + 1 <= lastSeen[e.key]
        /\ e.expires <= e.value + Delay + Ttl

=============================================================================
