-------------------------- MODULE ToolCallsProofs --------------------------
(***************************************************************************)
(* Proofs about ToolCalls, for every set of tools, users and models, every *)
(* finite number of calls and every lifetime and bound on the delays.      *)
(***************************************************************************)
EXTENDS ToolCalls, FiniteSetTheorems, TLAPS

(***************************************************************************)
(* What a get and a set do to the dict of the cache (TtlCacheOps): both    *)
(* keep it finite and of its type, a get adds nothing, and a set adds one  *)
(* entry with a full lifetime in place of those of its key.                *)
(***************************************************************************)
LEMMA CompactEntries ==
    ASSUME NEW K, NEW V, NEW S, S \subseteq Entry(K, V), IsFiniteSet(S)
    PROVE  /\ Compact(S) \subseteq Entry(K, V)
           /\ IsFiniteSet(Compact(S))
           /\ \A e \in Compact(S) : \E f \in S :
                 e.key = f.key /\ e.value = f.value /\ e.expires = f.expires
  <1> DEFINE upTo(e) == {f \in S : f.place <= e.place}
             renumber == [e \in S |-> [e EXCEPT !.place = Cardinality(upTo(e))]]
  <1>1. Compact(S) = {renumber[e] : e \in S}
    BY DEF Compact
  <1>2. ASSUME NEW e \in S
        PROVE  Cardinality(upTo(e)) \in Nat \ {0}
    <2>1. upTo(e) \subseteq S /\ e \in upTo(e)
      BY DEF Entry
    <2>2. IsFiniteSet(upTo(e)) /\ Cardinality(upTo(e)) \in Nat
      BY <2>1, FS_Subset, FS_CardinalityType
    <2> QED
      BY <2>1, <2>2, FS_EmptySet
  <1>3. \A e \in S : /\ renumber[e] \in Entry(K, V)
                     /\ renumber[e].key = e.key
                     /\ renumber[e].value = e.value
                     /\ renumber[e].expires = e.expires
    BY <1>2 DEF Entry
  <1>4. renumber \in Surjection(S, Compact(S))
    BY <1>1 DEF Surjection
  <1>5. IsFiniteSet(Compact(S))
    BY <1>4, FS_Surjection
  <1> HIDE DEF renumber
  <1> QED
    BY <1>1, <1>3, <1>5

\* After a set: the new entry, and of the others what other keys held before.
LEMMA StoredEntries ==
    ASSUME NEW K, NEW V, NEW S, S \subseteq Entry(K, V), IsFiniteSet(S),
           NEW k \in K, NEW v \in V, NEW t \in Nat
    PROVE  /\ Stored(S, k, v, t) \subseteq Entry(K, V)
           /\ IsFiniteSet(Stored(S, k, v, t))
           /\ \A e \in Stored(S, k, v, t) :
                 \/ e.key = k /\ e.value = v /\ e.expires = t + Ttl
                 \/ \E f \in S : /\ f.key # k
                                 /\ e.key = f.key /\ e.value = f.value /\ e.expires = f.expires
  <1> DEFINE room == MakeRoom(Without(S, k), t)
             kept == Compact(room)
             new == [key |-> k, value |-> v, expires |-> t + Ttl,
                     place |-> Cardinality(kept) + 1]
  <1>1. room \subseteq S /\ \A f \in room : f.key # k
    BY DEF Without, MakeRoom, DropOldest
  <1>2. IsFiniteSet(room)
    BY <1>1, FS_Subset
  <1>3. /\ kept \subseteq Entry(K, V)
        /\ IsFiniteSet(kept)
        /\ \A e \in kept : \E f \in room :
              e.key = f.key /\ e.value = f.value /\ e.expires = f.expires
    <2>1. room \subseteq Entry(K, V)
      BY <1>1
    <2> HIDE DEF room
    <2> QED
      BY <1>2, <2>1, CompactEntries
  <1>4. Cardinality(kept) \in Nat
    BY <1>3, FS_CardinalityType
  <1>5. new \in Entry(K, V)
    <2> HIDE DEF kept
    <2> QED
      BY <1>4, CacheAssumption DEF Entry
  <1>6. Stored(S, k, v, t) = kept \cup {new}
    BY DEF Stored
  <1>7. IsFiniteSet(kept \cup {new})
    BY <1>3, FS_AddElement
  <1>8. new.key = k /\ new.value = v /\ new.expires = t + Ttl
    OBVIOUS
  <1> HIDE DEF kept, new, room
  <1> QED
    BY <1>1, <1>3, <1>5, <1>6, <1>7, <1>8

\* After a get: nothing the dict did not hold before.
LEMMA AfterGetEntries ==
    ASSUME NEW K, NEW V, NEW S, S \subseteq Entry(K, V), IsFiniteSet(S), NEW k, NEW t
    PROVE  /\ AfterGet(S, k, t) \subseteq Entry(K, V)
           /\ IsFiniteSet(AfterGet(S, k, t))
           /\ \A e \in AfterGet(S, k, t) : \E f \in S :
                 e.key = f.key /\ e.value = f.value /\ e.expires = f.expires
  <1> DEFINE left == {e \in S : ~ (e.key = k /\ Expired(e, t))}
  <1>1. left \subseteq Entry(K, V) /\ IsFiniteSet(left) /\ left \subseteq S
    BY FS_Subset
  <1>2. AfterGet(S, k, t) = Compact(left)
    BY DEF AfterGet
  <1> HIDE DEF left
  <1> QED
    BY <1>1, <1>2, CompactEntries

InLock == {"lock", "read", "put"}

\* The queue holds each call that has asked for the lock once, and only its head runs.
QueueInv ==
    /\ \A k, l \in DOMAIN queue : queue[k] = queue[l] => k = l
    /\ \A k \in DOMAIN queue : call[queue[k]].at \in InLock
    /\ \A k \in DOMAIN queue : k # 1 => call[queue[k]].at = "lock"
    /\ \A c \in Call : call[c].at \in InLock => \E k \in DOMAIN queue : queue[k] = c

\* No await is older than it may be, and none began in the future.
WaitInv ==
    \A c \in Call :
        /\ call[c].at \in Stages \ {"lock"} => call[c].since <= now /\ now <= call[c].since + Delay
        /\ call[c].at \in Inside => call[c].from <= now
        /\ call[c].at = "notes" => call[c].from = call[c].since

(***************************************************************************)
(* The inductive invariant.  The bound on a call's wait speaks of the call *)
(* alone; it follows from QueueInTime, which gives every call in the queue *)
(* its turn after those ahead of it.                                       *)
(***************************************************************************)
ToolsInv == TypeOK /\ IsFiniteSet(cache) /\ QueueInv /\ WaitInv /\ QueueInTime

-----------------------------------------------------------------------------
\* Turns add up: the arithmetic of the queue's bound, once and for all.
LEMMA Turns ==
    /\ Turn \in Nat /\ Delay <= Turn
    /\ \A n \in Nat : Turn * n \in Nat /\ Turn * (n + 1) = Turn * n + Turn
    /\ \A m, n \in Nat : m <= n => Turn * m <= Turn * n
    /\ QueueDelay \in Nat
  <1>1. Turn \in Nat /\ Delay <= Turn
    BY TimeAssumption DEF Turn
  <1>2. \A t, n \in Nat : t * n \in Nat /\ t * (n + 1) = t * n + t
    OBVIOUS
  <1>3. \A t, m, n \in Nat : m <= n => t * m <= t * n
    <2> SUFFICES ASSUME NEW t \in Nat, NEW m \in Nat, NEW n \in Nat, m <= n
                 PROVE  t * m <= t * n
      OBVIOUS
    <2>1. PICK d \in Nat : n = m + d
      <3> WITNESS n - m \in Nat
      <3> QED
        OBVIOUS
    <2>2. t * n = t * m + t * d /\ t * d \in Nat /\ t * m \in Nat
      BY <2>1
    <2> QED
      BY <2>2
  <1>4. QueueDelay \in Nat
    <2>1. Cardinality(Call) \in Nat
      BY CallAssumption, FS_CardinalityType
    <2> QED
      BY <1>1, <1>2, <2>1 DEF QueueDelay
  <1> HIDE DEF Turn
  <1> QED
    BY <1>1, <1>2, <1>3, <1>4

\* A queue in which no call stands twice is no longer than there are calls.
LEMMA QueueIsShort ==
    ASSUME NEW q \in Seq(Call), \A k, l \in DOMAIN q : q[k] = q[l] => k = l
    PROVE  Len(q) <= Cardinality(Call)
  <1>1. Len(q) \in Nat /\ DOMAIN q = 1 .. Len(q)
    OBVIOUS
  <1>2. q \in Injection(1 .. Len(q), Call)
    BY <1>1 DEF Injection, IsInjective
  <1>3. Cardinality(1 .. Len(q)) <= Cardinality(Call)
    BY <1>2, CallAssumption, FS_Injection
  <1>4. Cardinality(1 .. Len(q)) = Len(q)
    BY <1>1, FS_Interval
  <1> QED
    BY <1>3, <1>4

\* Past the end of b, b \o a goes on with a.
LEMMA Beyond ==
    ASSUME NEW S, NEW b \in Seq(S), NEW a \in Seq(S), NEW k \in 1 .. Len(b) + Len(a), k > Len(b)
    PROVE  (b \o a)[k] = a[k - Len(b)]
  OBVIOUS

\* What leaving a queue does to the places in it.
LEMMA Removed ==
    ASSUME NEW S, NEW q \in Seq(S), NEW j \in DOMAIN q
    PROVE  /\ RemoveAt(q, j) \in Seq(S)
           /\ Len(RemoveAt(q, j)) = Len(q) - 1
           /\ \A k \in DOMAIN RemoveAt(q, j) :
                 /\ k \in 1 .. Len(q) - 1
                 /\ RemoveAt(q, j)[k] = IF k < j THEN q[k] ELSE q[k + 1]
  <1> DEFINE before == SubSeq(q, 1, j - 1)
             after == SubSeq(q, j + 1, Len(q))
  <1>1. j \in 1 .. Len(q) /\ Len(q) \in Nat
    OBVIOUS
  <1>2. /\ before \in Seq(S) /\ Len(before) = j - 1
        /\ \A k \in 1 .. j - 1 : before[k] = q[k]
    BY <1>1
  <1>3. /\ after \in Seq(S) /\ Len(after) = Len(q) - j
        /\ \A k \in 1 .. Len(q) - j : after[k] = q[k + j]
    BY <1>1
  <1> HIDE DEF before, after
  <1>4. before \o after \in Seq(S) /\ Len(before \o after) = Len(q) - 1
    BY <1>1, <1>2, <1>3
  <1>6. ASSUME NEW k \in 1 .. Len(q) - 1
        PROVE  (before \o after)[k] = IF k < j THEN q[k] ELSE q[k + 1]
    <2>1. CASE k < j
      <3>1. (before \o after)[k] = before[k]
        BY <1>1, <1>2, <1>3, <2>1
      <3> QED
        BY <1>1, <1>2, <2>1, <3>1
    <2>2. CASE ~ (k < j)
      <3>1. k \in Int /\ Len(before) < k /\ k <= Len(before) + Len(after)
        BY <1>1, <1>2, <1>3, <2>2
      <3>2. (before \o after)[k] = after[k - Len(before)]
        <4>1. before \in Seq(S) /\ after \in Seq(S)
          BY <1>2, <1>3
        <4>2. k \in 1 .. Len(before) + Len(after) /\ k > Len(before)
          BY <1>1, <1>2, <1>3, <3>1
        <4> QED
          BY <4>1, <4>2, Beyond
      <3>3. k - Len(before) \in 1 .. Len(q) - j /\ k - Len(before) + j = k + 1
        <4>1. Len(before) = j - 1 /\ j \in Nat /\ Len(q) \in Nat /\ k \in 1 .. Len(q) - 1
          BY <1>1, <1>2
        <4>2. j - 1 < k
          BY <3>1, <4>1
        <4> QED
          BY <4>1, <4>2
      <3>4. after[k - Len(before)] = q[k - Len(before) + j]
        BY <1>3, <3>3
      <3> QED
        BY <2>2, <3>2, <3>3, <3>4
    <2> QED
      BY <2>1, <2>2
  <1>5. RemoveAt(q, j) = before \o after
    BY DEF RemoveAt, before, after
  <1>7. DOMAIN (before \o after) = 1 .. Len(q) - 1
    BY <1>4
  <1> QED
    BY <1>4, <1>5, <1>6, <1>7

-----------------------------------------------------------------------------
\* What the type of a call says of it.
LEMMA CallType ==
    ASSUME TypeOK, NEW c \in Call
    PROVE  /\ call[c].at \in {"idle", "upstream"} \cup Stages
           /\ call[c].at = "idle" <=> call[c] = Idle
           /\ call[c].at \in Stages =>
                 call[c] \in [at : Stages, tool : Tool, who : Access,
                              since : Nat, from : Nat, asOf : Nat]
  <1>1. call[c] \in Calls
    BY DEF TypeOK
  <1>2. CASE call[c] \in {Idle, Upstream}
    BY <1>2 DEF Idle, Upstream, Stages, Inside
  <1>3. CASE call[c] \in [at : Stages, tool : Tool, who : Access, since : Nat, from : Nat, asOf : Nat]
    BY <1>3 DEF Idle, Stages, Inside
  <1> QED
    BY <1>1, <1>2, <1>3 DEF Calls

\* The head of the queue is done within a turn from now, and not yet.
LEMMA HeadSoon ==
    ASSUME TypeOK, QueueInv, WaitInv, queue # <<>>
    PROVE  /\ Head(queue) \in Call /\ 1 \in DOMAIN queue /\ Head(queue) = queue[1]
           /\ HeadDone \in Nat /\ now <= HeadDone /\ HeadDone <= now + Turn
  <1>1. Head(queue) \in Call /\ 1 \in DOMAIN queue /\ Head(queue) = queue[1]
    BY DEF TypeOK
  <1> DEFINE k == call[Head(queue)]
  <1>2. k.at \in InLock
    BY <1>1 DEF QueueInv
  <1>3. k.since \in Nat /\ now \in Nat /\ (k.at # "lock" => k.since <= now /\ now <= k.since + Delay)
    BY <1>1, <1>2, CallType DEF InLock, Stages, Inside, WaitInv, TypeOK
  <1> HIDE DEF k
  <1>4. HeadDone = CASE k.at = "lock" -> now + Turn
                     [] k.at = "read" -> k.since + Turn
                     [] k.at = "put" -> k.since + Delay
    BY DEF HeadDone, k
  <1>5. Turn \in Nat /\ Delay \in Nat /\ Delay <= Turn
    BY Turns, TimeAssumption
  <1> HIDE DEF Turn
  <1>6. HeadDone \in Nat /\ now <= HeadDone /\ HeadDone <= now + Turn
    BY <1>2, <1>3, <1>4, <1>5 DEF InLock
  <1> QED
    BY <1>1, <1>6

\* The invariant holds at the start of the server.
LEMMA ToolsInvInit == Init => ToolsInv
  <1> SUFFICES ASSUME Init
               PROVE  ToolsInv
    OBVIOUS
  <1>1. TypeOK
    BY DEF Init, TypeOK, Calls
  <1>2. IsFiniteSet(cache)
    BY FS_EmptySet DEF Init
  <1>3. QueueInv /\ WaitInv /\ QueueInTime
    BY DEF Init, QueueInv, WaitInv, QueueInTime, Idle, InLock, Stages, Inside
  <1> QED
    BY <1>1, <1>2, <1>3 DEF ToolsInv

-----------------------------------------------------------------------------
\* A call that goes from one await before the lock to another leaves the queue as it is.
LEMMA Elsewhere ==
    ASSUME ToolsInv, NEW c \in Call, NEW k, call' = [call EXCEPT ![c] = k],
           call[c].at \notin InLock, k.at \notin InLock,
           queue' = queue, now' = now
    PROVE  QueueInv' /\ QueueInTime'
  <1>1. \A l \in DOMAIN queue : queue[l] \in Call /\ queue[l] # c
    BY DEF ToolsInv, TypeOK, QueueInv
  <1>2. \A l \in DOMAIN queue : call'[queue[l]] = call[queue[l]]
    BY <1>1 DEF ToolsInv, TypeOK
  <1>3. QueueInv'
    <2>1. \A d \in Call : call'[d].at \in InLock => call[d].at \in InLock
      BY DEF ToolsInv, TypeOK
    <2> QED
      BY <1>2, <2>1 DEF ToolsInv, QueueInv
  <1>4. CASE queue = <<>>
    BY <1>3, <1>4 DEF QueueInTime
  <1>5. CASE queue # <<>>
    <2>1. HeadDone' = HeadDone
      BY <1>2, <1>5, HeadSoon DEF HeadDone, ToolsInv
    <2> QED
      BY <1>2, <1>3, <2>1 DEF ToolsInv, QueueInTime, QueueDelay, Turn
  <1> QED
    BY <1>4, <1>5

\* A writer that passed the check joins the queue at its end, with its turn in time.
LEMMA Admitted ==
    ASSUME ToolsInv, NEW c \in Call, NEW asOf \in Nat, Admit(c, asOf),
           call[c].at \in {"token", "answered"}, now' = now
    PROVE  /\ queue' \in Seq(Call) /\ call' \in [Call -> Calls]
           /\ QueueInv' /\ WaitInv' /\ QueueInTime'
  <1> DEFINE writes == call[c].tool \in Writers
             stage == IF ~ writes THEN "notes" ELSE IF queue = <<>> THEN "read" ELSE "lock"
             k == [call[c] EXCEPT !.at = stage, !.since = now, !.from = now, !.asOf = asOf]
  <1>1. /\ call[c] \in [at : Stages, tool : Tool, who : Access, since : Nat, from : Nat, asOf : Nat]
        /\ call \in [Call -> Calls] /\ now \in Nat /\ queue \in Seq(Call)
    BY CallType DEF ToolsInv, TypeOK, Stages
  <1>2. /\ k \in [at : Stages, tool : Tool, who : Access, since : Nat, from : Nat, asOf : Nat]
        /\ k.at = stage /\ k.since = now /\ k.from = now
    BY <1>1 DEF Stages, Inside
  <1>3. call' = [call EXCEPT ![c] = k] /\ queue' = IF writes THEN Append(queue, c) ELSE queue
    BY DEF Admit
  <1> HIDE DEF k
  <1>4. queue' \in Seq(Call) /\ call' \in [Call -> Calls]
    BY <1>1, <1>2, <1>3 DEF Calls
  <1>5. call'[c] = k /\ \A d \in Call : d # c => call'[d] = call[d]
    BY <1>1, <1>3
  <1>6. WaitInv'
    <2> SUFFICES ASSUME NEW d \in Call
                 PROVE  /\ call'[d].at \in Stages \ {"lock"} =>
                              call'[d].since <= now /\ now <= call'[d].since + Delay
                        /\ call'[d].at \in Inside => call'[d].from <= now
                        /\ call'[d].at = "notes" => call'[d].from = call'[d].since
      BY DEF WaitInv
    <2>1. CASE d = c
      BY <1>1, <1>2, <1>5, <2>1, TimeAssumption
    <2>2. CASE d # c
      BY <1>5, <2>2 DEF ToolsInv, WaitInv
    <2> QED
      BY <2>1, <2>2
  <1>7. CASE ~ writes
    <2>1. k.at \notin InLock /\ queue' = queue
      BY <1>2, <1>3, <1>7 DEF InLock
    <2>2. QueueInv' /\ QueueInTime'
      BY <1>3, <2>1, Elsewhere DEF InLock
    <2> QED
      BY <1>4, <1>6, <2>2
  <1>8. CASE writes
    <2> DEFINE n == Len(queue) + 1
    <2>1. /\ Len(queue) \in Nat /\ DOMAIN queue' = 1 .. n /\ DOMAIN queue = 1 .. n - 1
          /\ queue'[n] = c /\ \A l \in 1 .. n - 1 : queue'[l] = queue[l]
      BY <1>1, <1>3, <1>8
    <2>2. \A l \in 1 .. n - 1 : queue[l] \in Call /\ queue[l] # c
      BY <1>1, <2>1 DEF ToolsInv, QueueInv, InLock
    <2>3. QueueInv'
      <3>1. k.at \in InLock /\ (n # 1 => k.at = "lock")
        BY <1>1, <1>2, <1>8, <2>1 DEF InLock
      <3>2. \A i, j \in DOMAIN queue' : queue'[i] = queue'[j] => i = j
        BY <2>1, <2>2 DEF ToolsInv, QueueInv
      <3>3. \A i \in DOMAIN queue' :
               /\ call'[queue'[i]].at \in InLock
               /\ i # 1 => call'[queue'[i]].at = "lock"
        BY <1>5, <2>1, <2>2, <3>1 DEF ToolsInv, QueueInv
      <3>4. ASSUME NEW d \in Call, call'[d].at \in InLock
            PROVE  \E i \in DOMAIN queue' : queue'[i] = d
        <4>1. CASE d = c
          BY <2>1, <4>1
        <4>2. CASE d # c
          <5>1. PICK i \in DOMAIN queue : queue[i] = d
            BY <1>5, <3>4, <4>2 DEF ToolsInv, QueueInv
          <5> QED
            BY <2>1, <5>1
        <4> QED
          BY <4>1, <4>2
      <3> QED
        BY <3>2, <3>3, <3>4 DEF QueueInv
    <2>4. n <= Cardinality(Call) /\ Cardinality(Call) \in Nat
      <3>1. Len(queue') = n
        BY <1>1, <1>3, <1>8
      <3>2. Len(queue') <= Cardinality(Call)
        BY <1>4, <2>3, QueueIsShort DEF QueueInv
      <3> QED
        BY <3>1, <3>2, CallAssumption, FS_CardinalityType
    <2>5. Head(queue') = queue'[1]
      BY <1>4, <2>1
    <2>6. HeadDone' \in Nat /\ HeadDone' <= now + Turn /\ (n # 1 => HeadDone' = HeadDone)
      <3>1. CASE n = 1
        <4>1. queue = <<>> /\ Head(queue') = c
          BY <1>1, <2>1, <2>5, <3>1
        <4>2. HeadDone' = now + Turn
          BY <1>2, <1>5, <1>8, <4>1 DEF HeadDone, Turn
        <4>3. Turn \in Nat
          BY Turns
        <4> QED
          BY <1>1, <3>1, <4>2, <4>3
      <3>2. CASE n # 1
        <4>1. queue # <<>> /\ 1 \in 1 .. n - 1
          BY <1>1, <2>1, <3>2
        <4>2. Head(queue') = Head(queue) /\ Head(queue) # c /\ Head(queue) \in Call
          BY <1>1, <2>1, <2>2, <2>5, <4>1
        <4>3. HeadDone' = HeadDone
          BY <1>5, <4>2 DEF HeadDone, Turn
        <4> QED
          BY <4>1, <4>3, HeadSoon DEF ToolsInv
      <3> QED
        BY <3>1, <3>2
    <2>7. QueueInTime'
      <3> SUFFICES ASSUME NEW i \in 1 .. n
                   PROVE  HeadDone' + Turn * (i - 1) <= call'[queue'[i]].from + QueueDelay
        BY <2>1 DEF QueueInTime, Turn, QueueDelay
      <3>1. CASE i = n
        <4>1. call'[queue'[i]].from = now
          BY <1>2, <1>5, <2>1, <3>1
        <4>2. Turn * n = Turn * (n - 1) + Turn /\ Turn * (n - 1) \in Nat /\ Turn \in Nat
          BY <2>1, Turns
        <4>3. Turn * n <= QueueDelay /\ QueueDelay \in Nat
          BY <2>1, <2>4, Turns DEF QueueDelay
        <4> HIDE DEF Turn, QueueDelay
        <4> QED
          BY <1>1, <2>6, <3>1, <4>1, <4>2, <4>3
      <3>2. CASE i # n
        <4>1. i \in DOMAIN queue /\ n # 1
          BY <2>1, <3>2
        <4>2. call'[queue'[i]].from = call[queue[i]].from
          BY <1>5, <2>1, <2>2, <4>1
        <4>3. HeadDone + Turn * (i - 1) <= call[queue[i]].from + QueueDelay
          BY <4>1 DEF ToolsInv, QueueInTime
        <4> QED
          BY <2>6, <4>1, <4>2, <4>3
      <3> QED
        BY <3>1, <3>2
    <2> QED
      BY <1>4, <1>6, <2>3, <2>7
  <1> QED
    BY <1>7, <1>8

\* A call leaves the queue from anywhere in it, and the others are as timely as before.
LEMMA Left ==
    ASSUME ToolsInv, NEW c \in Call, Leave(c), now' = now
    PROVE  /\ queue' \in Seq(Call) /\ call' \in [Call -> Calls]
           /\ QueueInv' /\ WaitInv' /\ QueueInTime'
  <1>1. call \in [Call -> Calls] /\ now \in Nat /\ queue \in Seq(Call)
    BY DEF ToolsInv, TypeOK
  <1>2. /\ call' = [call EXCEPT ![c] = Idle] /\ call' \in [Call -> Calls]
        /\ call'[c].at = "idle" /\ \A d \in Call : d # c => call'[d] = call[d]
    BY <1>1 DEF Leave, Calls, Idle
  <1>3. WaitInv'
    BY <1>2 DEF ToolsInv, WaitInv, Stages, Inside
  <1>4. CASE (\A k \in DOMAIN queue : queue[k] # c) /\ UNCHANGED queue
    <2>1. call[c].at \notin InLock
      BY <1>4 DEF ToolsInv, QueueInv
    <2>2. QueueInv' /\ QueueInTime'
      BY <1>2, <1>4, <2>1, Elsewhere DEF Idle, InLock
    <2> QED
      BY <1>1, <1>2, <1>3, <1>4, <2>2
  <1>5. CASE \E k \in DOMAIN queue : queue[k] = c /\ queue' = RemoveAt(queue, k)
    <2>1. PICK j \in DOMAIN queue : queue[j] = c /\ queue' = RemoveAt(queue, j)
      BY <1>5
    <2> DEFINE was == [i \in 1 .. Len(queue) - 1 |-> IF i < j THEN i ELSE i + 1]
    <2>2. /\ queue' \in Seq(Call) /\ Len(queue') = Len(queue) - 1 /\ Len(queue) \in Nat
          /\ DOMAIN queue' = 1 .. Len(queue) - 1 /\ DOMAIN queue = 1 .. Len(queue)
          /\ \A i \in DOMAIN queue' : queue'[i] = queue[was[i]]
      <3>1. /\ queue' \in Seq(Call) /\ Len(queue') = Len(queue) - 1
            /\ \A i \in DOMAIN queue' :
                  /\ i \in 1 .. Len(queue) - 1
                  /\ queue'[i] = IF i < j THEN queue[i] ELSE queue[i + 1]
        BY <1>1, <2>1, Removed
      <3>2. DOMAIN queue' = 1 .. Len(queue) - 1
        BY <3>1
      <3> QED
        BY <1>1, <3>1, <3>2
    <2>3. /\ \A i \in DOMAIN queue' : was[i] \in DOMAIN queue /\ was[i] # j /\ (i # 1 => was[i] # 1)
          /\ \A i, l \in DOMAIN queue' : was[i] = was[l] => i = l
          /\ \A i \in DOMAIN queue : i # j => \E l \in DOMAIN queue' : was[l] = i
      <3>1. j \in 1 .. Len(queue)
        BY <2>1, <2>2
      <3>2. \A i \in DOMAIN queue : i # j => \E l \in DOMAIN queue' : was[l] = i
        <4> SUFFICES ASSUME NEW i \in 1 .. Len(queue), i # j
                     PROVE  \E l \in 1 .. Len(queue) - 1 : was[l] = i
          BY <2>2
        <4>1. CASE i < j
          <5>1. i \in 1 .. Len(queue) - 1 /\ was[i] = i
            BY <2>2, <3>1, <4>1
          <5> QED
            BY <5>1
        <4>2. CASE i > j
          <5>1. i - 1 \in 1 .. Len(queue) - 1 /\ was[i - 1] = i
            BY <2>2, <3>1, <4>2
          <5> QED
            BY <5>1
        <4> QED
          BY <3>1, <4>1, <4>2
      <3> QED
        BY <2>2, <3>1, <3>2
    <2> HIDE DEF was
    <2>4. \A i \in DOMAIN queue' : /\ queue[was[i]] \in Call /\ queue[was[i]] # c
                                  /\ call'[queue'[i]] = call[queue[was[i]]]
      BY <1>1, <1>2, <2>1, <2>2, <2>3 DEF ToolsInv, QueueInv
    <2>5. QueueInv'
      <3>1. \A i, l \in DOMAIN queue' : queue'[i] = queue'[l] => i = l
        BY <2>2, <2>3 DEF ToolsInv, QueueInv
      <3>2. \A i \in DOMAIN queue' :
               /\ call'[queue'[i]].at \in InLock
               /\ i # 1 => call'[queue'[i]].at = "lock"
        BY <2>2, <2>3, <2>4 DEF ToolsInv, QueueInv
      <3>3. ASSUME NEW d \in Call, call'[d].at \in InLock
            PROVE  \E i \in DOMAIN queue' : queue'[i] = d
        <4>1. d # c /\ call[d].at \in InLock
          BY <1>2, <3>3 DEF InLock
        <4>2. PICK i \in DOMAIN queue : queue[i] = d
          BY <4>1 DEF ToolsInv, QueueInv
        <4>3. PICK l \in DOMAIN queue' : was[l] = i
          BY <2>1, <2>3, <4>1, <4>2
        <4> QED
          BY <2>2, <4>2, <4>3
      <3> QED
        BY <3>1, <3>2, <3>3 DEF QueueInv
    <2>6. QueueInTime'
      <3> SUFFICES ASSUME NEW i \in DOMAIN queue'
                   PROVE  HeadDone' + Turn * (i - 1) <= call'[queue'[i]].from + QueueDelay
        BY DEF QueueInTime, Turn, QueueDelay
      <3> DEFINE k == was[i]
                 from == call[queue[k]].from
      <3>1. /\ k \in DOMAIN queue /\ i \in Nat \ {0} /\ k = (IF i < j THEN i ELSE i + 1)
            /\ j \in Nat \ {0} /\ k \in Nat \ {0}
        BY <1>1, <2>1, <2>2, <2>3 DEF was
      <3>2. call'[queue'[i]].from = from
        BY <2>4
      <3>3. HeadDone + Turn * (k - 1) <= from + QueueDelay
        BY <3>1 DEF ToolsInv, QueueInTime
      <3>4. queue # <<>> /\ HeadDone \in Nat /\ now <= HeadDone /\ Head(queue) = queue[1]
        BY <1>1, <2>1, HeadSoon DEF ToolsInv
      <3>5. Head(queue') = queue'[1] /\ 1 \in DOMAIN queue' /\ Head(queue') \in Call
        BY <2>2, <3>1
      <3>6. from \in Nat /\ QueueDelay \in Nat /\ Turn \in Nat
        <4>1. queue[k] \in Call /\ call[queue[k]].at \in Stages
          BY <1>1, <3>1 DEF ToolsInv, QueueInv, InLock, Stages, Inside
        <4>2. from \in Nat
          BY <4>1, CallType DEF ToolsInv
        <4> QED
          BY <4>2, Turns
      <3>7. CASE j = 1
        <4>1. was[1] # 1 /\ k = i + 1
          BY <2>2, <3>1, <3>5, <3>7, <2>3
        <4>2. call'[Head(queue')].at = "lock"
          BY <2>1, <2>3, <2>4, <3>5, <4>1 DEF ToolsInv, QueueInv
        <4>3. HeadDone' = now + Turn
          BY <4>2 DEF HeadDone, Turn
        <4>4. Turn * (k - 1) = Turn * (i - 1) + Turn /\ Turn * (i - 1) \in Nat
          <5>1. i - 1 \in Nat /\ k - 1 = (i - 1) + 1
            BY <3>1, <4>1
          <5> QED
            BY <5>1, Turns
        <4> HIDE DEF Turn, QueueDelay, from, k
        <4> QED
          BY <1>1, <3>2, <3>3, <3>4, <3>6, <4>3, <4>4
      <3>8. CASE j # 1
        <4>1. was[1] = 1
          BY <2>2, <3>1, <3>5, <3>8 DEF was
        <4>2. Head(queue') = Head(queue) /\ call'[Head(queue')] = call[Head(queue)]
          BY <2>2, <2>4, <3>4, <3>5, <4>1
        <4>3. HeadDone' = HeadDone
          BY <4>2 DEF HeadDone, Turn
        <4>4. Turn * (i - 1) <= Turn * (k - 1) /\ Turn * (i - 1) \in Nat /\ Turn * (k - 1) \in Nat
          <5>1. i - 1 \in Nat /\ k - 1 \in Nat /\ i - 1 <= k - 1
            BY <3>1
          <5> QED
            BY <5>1, Turns
        <4> HIDE DEF Turn, QueueDelay, from, k
        <4> QED
          BY <3>2, <3>3, <3>4, <3>6, <4>3, <4>4
      <3> QED
        BY <3>7, <3>8
    <2> QED
      BY <1>2, <1>3, <2>2, <2>5, <2>6
  <1> QED
    BY <1>4, <1>5 DEF Leave

-----------------------------------------------------------------------------
\* Every step of the tools, of Power BI and of the clock keeps the invariant.
LEMMA ToolsInvNext == ToolsInv /\ [Next]_vars => ToolsInv'
  <1> SUFFICES ASSUME ToolsInv, [Next]_vars
               PROVE  ToolsInv'
    OBVIOUS
  <1>0. /\ now \in Nat /\ permitted \subseteq Access /\ lastSeen \in [Access -> Nat]
        /\ cache \subseteq Entry(Access, Nat) /\ IsFiniteSet(cache)
        /\ call \in [Call -> Calls] /\ queue \in Seq(Call)
    BY DEF ToolsInv, TypeOK
  <1>t. ASSUME NEW c \in Call, call[c].at \in Stages
        PROVE  call[c] \in [at : Stages, tool : Tool, who : Access, since : Nat, from : Nat, asOf : Nat]
    BY <1>t, CallType DEF ToolsInv
  <1>1. ASSUME NEW a \in Access, Grant(a) \/ Revoke(a)
        PROVE  ToolsInv'
    <2>1. TypeOK' /\ IsFiniteSet(cache')
      BY <1>0, <1>1 DEF Grant, Revoke, TypeOK
    <2>2. QueueInv' /\ WaitInv' /\ QueueInTime'
      <3>1. UNCHANGED <<now, call, queue>>
        BY <1>1 DEF Grant, Revoke
      <3> QED
        BY <3>1 DEF ToolsInv, QueueInv, WaitInv, QueueInTime, HeadDone, QueueDelay, Turn
    <2> QED
      BY <2>1, <2>2 DEF ToolsInv
  <1>2. ASSUME NEW c \in Call, NEW tool \in Tool, NEW a \in Access, Begin(c, tool, a)
        PROVE  ToolsInv'
    <2> DEFINE k == Begun(tool, a, now)
    <2>1. /\ call' = [call EXCEPT ![c] = k] /\ k \in Calls /\ k.at = "token" /\ k.since = now
          /\ call[c].at = "idle" /\ UNCHANGED <<now, permitted, lastSeen, cache, queue>>
      BY <1>0, <1>2 DEF Begin, Begun, Calls, Stages, external, Idle
    <2> HIDE DEF k
    <2>2. TypeOK' /\ IsFiniteSet(cache')
      BY <1>0, <2>1 DEF TypeOK
    <2>3. QueueInv' /\ QueueInTime'
      BY <2>1, Elsewhere DEF InLock
    <2>4. WaitInv'
      BY <1>0, <2>1, TimeAssumption DEF ToolsInv, WaitInv, Inside
    <2> QED
      BY <2>2, <2>3, <2>4 DEF ToolsInv
  <1>3. ASSUME NEW c \in Call, call[c].at \in {"token", "notes"}, AskUpstream(c),
               UNCHANGED <<now, permitted, lastSeen, cache>>
        PROVE  ToolsInv'
    <2>1. /\ call' = [call EXCEPT ![c] = Upstream] /\ Upstream \in Calls /\ Upstream.at = "upstream"
          /\ queue' = queue
      BY <1>3 DEF AskUpstream, Upstream, Calls
    <2>2. TypeOK' /\ IsFiniteSet(cache')
      BY <1>0, <1>3, <2>1 DEF TypeOK
    <2>3. QueueInv' /\ QueueInTime'
      BY <1>3, <2>1, Elsewhere DEF InLock
    <2>4. WaitInv'
      BY <1>0, <1>3, <2>1 DEF ToolsInv, WaitInv, Inside, Stages
    <2> QED
      BY <2>2, <2>3, <2>4 DEF ToolsInv
  <1>4. ASSUME NEW c \in Call, CacheHit(c)
        PROVE  ToolsInv'
    <2>1. PICK e \in cache : Admit(c, e.value)
      BY <1>4 DEF CacheHit, Hits
    <2>2. e.value \in Nat
      BY <1>0 DEF Entry
    <2>3. call[c].at = "token" /\ UNCHANGED <<now, permitted, lastSeen, cache>>
      BY <1>4 DEF CacheHit, external
    <2>4. /\ queue' \in Seq(Call) /\ call' \in [Call -> Calls]
          /\ QueueInv' /\ WaitInv' /\ QueueInTime'
      BY <2>1, <2>2, <2>3, Admitted
    <2> QED
      BY <1>0, <2>3, <2>4 DEF ToolsInv, TypeOK
  <1>5. ASSUME NEW c \in Call, CacheMiss(c)
        PROVE  ToolsInv'
    <2> DEFINE k == [call[c] EXCEPT !.at = "asking", !.since = now]
    <2>1. /\ call' = [call EXCEPT ![c] = k] /\ call[c].at = "token"
          /\ cache' = AfterGet(cache, call[c].who, now)
          /\ UNCHANGED <<now, permitted, lastSeen, queue>>
      BY <1>5 DEF CacheMiss, GoOn, external
    <2>2. k \in Calls /\ k.at = "asking" /\ k.since = now
      BY <1>0, <1>t, <2>1 DEF Calls, Stages
    <2> HIDE DEF k
    <2>3. cache' \subseteq Entry(Access, Nat) /\ IsFiniteSet(cache')
      BY <1>0, <2>1, AfterGetEntries
    <2>4. QueueInv' /\ QueueInTime'
      BY <2>1, <2>2, Elsewhere DEF InLock
    <2>5. WaitInv'
      BY <1>0, <2>1, <2>2, TimeAssumption DEF ToolsInv, WaitInv, Inside
    <2> QED
      BY <1>0, <2>1, <2>2, <2>3, <2>4, <2>5 DEF ToolsInv, TypeOK
  <1>6. ASSUME NEW c \in Call, PowerBIAnswers(c)
        PROVE  ToolsInv'
    <2> DEFINE k == IF call[c].who \in permitted
                    THEN [call[c] EXCEPT !.at = "answered", !.asOf = now]
                    ELSE [call[c] EXCEPT !.at = "refused"]
    <2>1. /\ call' = [call EXCEPT ![c] = k] /\ call[c].at = "asking"
          /\ UNCHANGED <<now, permitted, lastSeen, cache, queue>>
      BY <1>6 DEF PowerBIAnswers, external
    <2>2. k \in Calls /\ k.at \in {"answered", "refused"} /\ k.since = call[c].since
      BY <1>0, <1>t, <2>1 DEF Calls, Stages
    <2> HIDE DEF k
    <2>3. QueueInv' /\ QueueInTime'
      BY <2>1, <2>2, Elsewhere DEF InLock
    <2>4. WaitInv'
      BY <1>0, <2>1, <2>2 DEF ToolsInv, WaitInv, Inside, Stages
    <2> QED
      BY <1>0, <2>1, <2>2, <2>3, <2>4 DEF ToolsInv, TypeOK
  <1>7. ASSUME NEW c \in Call, SchemaArrives(c)
        PROVE  ToolsInv'
    <2>1. /\ call[c].at = "answered" /\ Admit(c, call[c].asOf)
          /\ cache' = Stored(cache, call[c].who, call[c].asOf, now)
          /\ UNCHANGED <<now, permitted, lastSeen>>
      BY <1>7 DEF SchemaArrives, external
    <2>2. call[c].who \in Access /\ call[c].asOf \in Nat
      BY <1>t, <2>1 DEF Stages
    <2>3. cache' \subseteq Entry(Access, Nat) /\ IsFiniteSet(cache')
      <3> DEFINE a == call[c].who
                 asOf == call[c].asOf
      <3>1. a \in Access /\ asOf \in Nat /\ cache' = Stored(cache, a, asOf, now)
        BY <2>1, <2>2
      <3> HIDE DEF a, asOf
      <3>2. Stored(cache, a, asOf, now) \subseteq Entry(Access, Nat)
        BY <1>0, <3>1, StoredEntries
      <3>3. IsFiniteSet(Stored(cache, a, asOf, now))
        BY <1>0, <3>1, StoredEntries
      <3> QED
        BY <3>1, <3>2, <3>3
    <2>4. /\ queue' \in Seq(Call) /\ call' \in [Call -> Calls]
          /\ QueueInv' /\ WaitInv' /\ QueueInTime'
      BY <2>1, <2>2, Admitted
    <2> QED
      BY <1>0, <2>1, <2>3, <2>4 DEF ToolsInv, TypeOK
  <1>8. ASSUME NEW c \in Call, Leave(c), UNCHANGED <<now, permitted, lastSeen, cache>>
        PROVE  ToolsInv'
    BY <1>0, <1>8, Left DEF ToolsInv, TypeOK
  <1>9. ASSUME NEW c \in Call, Acquire(c) \/ RecordArrives(c)
        PROVE  ToolsInv'
    <2> DEFINE stage == IF call[c].at = "lock" THEN "read" ELSE "put"
               k == [call[c] EXCEPT !.at = stage, !.since = now]
    <2>1. /\ call' = [call EXCEPT ![c] = k] /\ call[c].at \in {"lock", "read"}
          /\ UNCHANGED <<now, permitted, lastSeen, cache, queue>>
          /\ call[c].at = "lock" => Head(queue) = c
      BY <1>9 DEF Acquire, RecordArrives, GoOn, external
    <2>2. /\ k \in Calls /\ k.at = stage /\ k.since = now /\ k.from = call[c].from
      BY <1>0, <1>t, <2>1 DEF Calls, Stages, Inside
    <2> HIDE DEF k
    <2>3. /\ 1 \in DOMAIN queue /\ queue # <<>> /\ queue[1] = c /\ Head(queue) = c
      <3>1. PICK l \in DOMAIN queue : queue[l] = c
        BY <2>1 DEF ToolsInv, QueueInv, InLock
      <3>2. queue # <<>>
        BY <1>0, <3>1
      <3>3. 1 \in DOMAIN queue /\ Head(queue) = queue[1]
        BY <1>0, <3>2, HeadSoon DEF ToolsInv
      <3>4. call[c].at # "lock" => l = 1
        BY <3>1 DEF ToolsInv, QueueInv
      <3> QED
        BY <2>1, <3>1, <3>2, <3>3, <3>4
    <2>4. /\ call'[c] = k /\ \A d \in Call : d # c => call'[d] = call[d]
          /\ \A l \in DOMAIN queue : queue[l] \in Call
          /\ \A l \in DOMAIN queue : l # 1 => queue[l] # c
      BY <1>0, <2>1, <2>3 DEF ToolsInv, QueueInv
    <2>5. TypeOK' /\ IsFiniteSet(cache')
      BY <1>0, <2>1, <2>2 DEF TypeOK
    <2>6. QueueInv'
      BY <2>1, <2>2, <2>3, <2>4 DEF ToolsInv, QueueInv, InLock
    <2>7. WaitInv'
      BY <1>0, <2>1, <2>2, <2>4, TimeAssumption DEF ToolsInv, WaitInv, Inside, Stages
    <2>8. HeadDone' <= HeadDone /\ HeadDone' \in Nat /\ HeadDone \in Nat
      <3>1. Turn \in Nat /\ Turn = Delay + Delay
        BY TimeAssumption DEF Turn
      <3> HIDE DEF Turn
      <3>2. CASE call[c].at = "lock"
        BY <1>0, <2>1, <2>2, <2>3, <2>4, <3>1, <3>2 DEF HeadDone
      <3>3. CASE call[c].at = "read"
        <4>1. call[c].since \in Nat /\ now <= call[c].since + Delay
          BY <1>t, <3>3 DEF ToolsInv, WaitInv, Stages, Inside
        <4>2. HeadDone = call[c].since + Turn /\ HeadDone' = now + Delay
          BY <2>1, <2>2, <2>3, <2>4, <3>3 DEF HeadDone
        <4> QED
          BY <1>0, <3>1, <4>1, <4>2, TimeAssumption
      <3> QED
        BY <2>1, <3>2, <3>3
    <2>9. QueueInTime'
      <3> SUFFICES ASSUME NEW l \in DOMAIN queue
                   PROVE  HeadDone' + Turn * (l - 1) <= call'[queue[l]].from + QueueDelay
        BY <2>1 DEF QueueInTime, Turn, QueueDelay
      <3>1. call'[queue[l]].from = call[queue[l]].from
        BY <2>2, <2>3, <2>4
      <3>2. HeadDone + Turn * (l - 1) <= call[queue[l]].from + QueueDelay
        BY DEF ToolsInv, QueueInTime
      <3>3. Turn * (l - 1) \in Nat /\ QueueDelay \in Nat
        <4>1. l - 1 \in Nat
          BY <1>0
        <4> QED
          BY <4>1, Turns
      <3>4. call[queue[l]].from \in Nat
        BY <1>0, <1>t, <2>4 DEF ToolsInv, QueueInv, InLock, Stages, Inside
      <3> HIDE DEF Turn, QueueDelay
      <3> QED
        BY <2>8, <3>1, <3>2, <3>3, <3>4
    <2> QED
      BY <2>5, <2>6, <2>7, <2>9 DEF ToolsInv
  <1>10. ASSUME Restart
         PROVE  ToolsInv'
    <2>1. TypeOK' /\ IsFiniteSet(cache')
      BY <1>0, <1>10, FS_EmptySet DEF Restart, external, TypeOK, Calls
    <2>2. QueueInv' /\ WaitInv' /\ QueueInTime'
      BY <1>10 DEF Restart, QueueInv, WaitInv, QueueInTime, InLock, Idle, Stages, Inside
    <2> QED
      BY <2>1, <2>2 DEF ToolsInv
  <1>11. ASSUME Tick
         PROVE  ToolsInv'
    <2>1. TypeOK' /\ IsFiniteSet(cache')
      BY <1>0, <1>11 DEF Tick, TypeOK
    <2>2. QueueInv'
      BY <1>11 DEF Tick, ToolsInv, QueueInv
    <2>3. WaitInv'
      <3> SUFFICES ASSUME NEW c \in Call, call[c].at \in Stages
                   PROVE  /\ call[c].at # "lock" =>
                                call[c].since <= now + 1 /\ now + 1 <= call[c].since + Delay
                          /\ call[c].at \in Inside => call[c].from <= now + 1
                          /\ call[c].at = "notes" => call[c].from = call[c].since
        BY <1>11 DEF Tick, WaitInv, Stages, Inside
      <3>1. call[c].since \in Nat /\ call[c].from \in Nat
        BY <1>t
      <3>2. call[c].at # "lock" => now < call[c].since + Delay
        BY <1>11 DEF Tick, Stages, Inside
      <3>3. /\ call[c].at # "lock" => call[c].since <= now
            /\ call[c].at \in Inside => call[c].from <= now
            /\ call[c].at = "notes" => call[c].from = call[c].since
        BY DEF ToolsInv, WaitInv
      <3> QED
        BY <1>0, <3>1, <3>2, <3>3, TimeAssumption
    <2>4. QueueInTime'
      <3>1. CASE queue = <<>>
        BY <1>11, <3>1 DEF Tick, QueueInTime
      <3>2. CASE queue # <<>>
        <4>0. Head(queue) \in Call /\ call[Head(queue)].at \in {"read", "put"}
          BY <1>0, <1>11, <3>2, HeadSoon DEF Tick, ToolsInv, QueueInv, InLock
        <4>1. HeadDone' = HeadDone
          BY <1>11, <4>0 DEF Tick, HeadDone, Turn
        <4> QED
          BY <1>11, <4>1 DEF Tick, ToolsInv, QueueInTime, QueueDelay, Turn
      <3> QED
        BY <3>1, <3>2
    <2> QED
      BY <2>1, <2>2, <2>3, <2>4 DEF ToolsInv
  <1>12. CASE UNCHANGED vars
    <2>1. UNCHANGED <<now, permitted, lastSeen, cache, call, queue>>
      BY <1>12 DEF vars
    <2>2. QueueInv' /\ WaitInv' /\ QueueInTime'
      BY <2>1 DEF ToolsInv, QueueInv, WaitInv, QueueInTime, HeadDone, QueueDelay, Turn
    <2> QED
      BY <1>0, <2>1, <2>2 DEF ToolsInv, TypeOK
  <1>13. ASSUME NEW c \in Call, Progress(c) \/ Fail(c)
         PROVE  ToolsInv'
    <2>1. CASE GoUpstream(c)
      BY <1>3, <2>1 DEF GoUpstream, external
    <2>2. CASE NotesArrive(c)
      BY <1>3, <1>8, <2>2 DEF NotesArrive, external
    <2>3. CASE Finish(c) \/ Fail(c)
      BY <1>8, <2>3 DEF Finish, Fail, external
    <2> QED
      BY <1>4, <1>5, <1>6, <1>7, <1>9, <1>13, <2>1, <2>2, <2>3 DEF Progress
  <1> QED
    BY <1>1, <1>2, <1>10, <1>11, <1>12, <1>13 DEF Next

(***************************************************************************)
(* First come, first served: whatever fails or is cancelled meanwhile, each*)
(* call in the queue has its turn within QueueDelay of the check it passed.*)
(***************************************************************************)
THEOREM QueueIsInTime == Spec => [](TypeOK /\ QueueInTime)
  <1>1. ToolsInv => TypeOK /\ QueueInTime
    BY DEF ToolsInv
  <1> QED
    BY <1>1, ToolsInvInit, ToolsInvNext, PTL DEF Spec

-----------------------------------------------------------------------------
\* The instance's copies of the cache's operations are the operations.
LEMMA SameCache ==
    /\ \A S, k, t : A!Hits(S, k, t) = Hits(S, k, t) /\ A!AfterGet(S, k, t) = AfterGet(S, k, t)
    /\ \A S, k, v, t : A!Stored(S, k, v, t) = Stored(S, k, v, t)
  <1>1. \A S : A!Cardinality(S) = Cardinality(S)
    BY DEF A!Cardinality, Cardinality
  <1>2. \A e, t : A!Expired(e, t) = Expired(e, t)
    BY DEF A!Expired, Expired
  <1>3. \A S : A!Compact(S) = Compact(S)
    BY <1>1 DEF A!Compact, Compact
  <1>4. \A S, k, t : A!Hits(S, k, t) = Hits(S, k, t)
    BY <1>2 DEF A!Hits, Hits
  <1>5. \A S, k, t : A!AfterGet(S, k, t) = AfterGet(S, k, t)
    BY <1>2, <1>3 DEF A!AfterGet, AfterGet
  <1>6. \A S : A!DropOldest(S) = DropOldest(S)
    BY <1>1 DEF A!DropOldest, DropOldest, A!Oldest, Oldest
  <1>7. \A S, t : A!MakeRoom(S, t) = MakeRoom(S, t)
    BY <1>1, <1>2, <1>6 DEF A!MakeRoom, MakeRoom
  <1>8. \A S, k : A!Without(S, k) = Without(S, k)
    BY DEF A!Without, Without
  <1>9. \A S, k, v, t : A!Stored(S, k, v, t) = Stored(S, k, v, t)
    BY <1>1, <1>3, <1>7, <1>8 DEF A!Stored, Stored
  <1> QED
    BY <1>4, <1>5, <1>9

\* What one call is to the access check, and the others while it changes.
LEMMA OneCall ==
    ASSUME TypeOK, NEW c \in Call, NEW k, call' = [call EXCEPT ![c] = k]
    PROVE  [d \in Call |-> AccessCall(call'[d])]
             = [[d \in Call |-> AccessCall(call[d])] EXCEPT ![c] = AccessCall(k)]
  <1>1. call'[c] = k /\ \A d \in Call : d # c => call'[d] = call[d]
    BY DEF TypeOK
  <1>2. ASSUME NEW d \in Call
        PROVE  AccessCall(call'[d]) = IF d = c THEN AccessCall(k) ELSE AccessCall(call[d])
    <2>1. CASE d = c
      <3>1. call'[d] = k
        BY <1>1, <2>1
      <3> QED
        BY <2>1, <3>1
    <2>2. CASE d # c
      <3>1. call'[d] = call[d]
        BY <1>1, <2>2
      <3> QED
        BY <2>2, <3>1
    <2> QED
      BY <2>1, <2>2
  <1>3. [d \in Call |-> AccessCall(call'[d])]
          = [d \in Call |-> IF d = c THEN AccessCall(k) ELSE AccessCall(call[d])]
    BY <1>2
  <1> QED
    BY <1>3

\* What each await of a tool is to the access check.
LEMMA Awaits ==
    /\ AccessCall(Idle) = Idle /\ AccessCall(Upstream) = Idle
    /\ \A k \in [at : Stages, tool : Tool, who : Access, since : Nat, from : Nat, asOf : Nat] :
          /\ k.at = "token" => AccessCall(k) = Idle
          /\ k.at = "asking" => AccessCall(k) = A!Asking(k.who, k.since)
          /\ k.at = "answered" => AccessCall(k) = A!Answered(k.who, k.since, k.asOf)
          /\ k.at = "refused" => AccessCall(k) = A!Refused(k.who, k.since)
          /\ k.at \in Inside => AccessCall(k) = A!Granted(k.who, k.from, k.asOf)
  <1>1. AccessCall(Idle) = Idle /\ AccessCall(Upstream) = Idle
    BY DEF AccessCall, Idle, Upstream, Inside
  <1>2. ASSUME NEW k \in [at : Stages, tool : Tool, who : Access, since : Nat, from : Nat, asOf : Nat]
        PROVE  /\ k.at = "token" => AccessCall(k) = Idle
               /\ k.at = "asking" => AccessCall(k) = A!Asking(k.who, k.since)
               /\ k.at = "answered" => AccessCall(k) = A!Answered(k.who, k.since, k.asOf)
               /\ k.at = "refused" => AccessCall(k) = A!Refused(k.who, k.since)
               /\ k.at \in Inside => AccessCall(k) = A!Granted(k.who, k.from, k.asOf)
    BY DEF AccessCall, Inside, A!Asking, A!Answered, A!Refused, A!Granted
  <1> QED
    BY <1>1, <1>2

\* Every step of the tools is a step of the access check, or none at all.
LEMMA ToolsStep == ToolsInv /\ [Next]_vars => [A!Next]_(A!vars)
  <1> SUFFICES ASSUME ToolsInv, [Next]_vars
               PROVE  [A!Next]_(A!vars)
    OBVIOUS
  <1> DEFINE seen == [d \in Call |-> AccessCall(call[d])]
             Asked == [at : Stages, tool : Tool, who : Access, since : Nat, from : Nat, asOf : Nat]
  <1>0. /\ now \in Nat /\ permitted \subseteq Access /\ lastSeen \in [Access -> Nat]
        /\ call \in [Call -> Calls] /\ queue \in Seq(Call)
        /\ A!Access = Access /\ A!Idle = Idle
    BY DEF ToolsInv, TypeOK, A!Access, Access, A!Idle, Idle
  <1>t. ASSUME NEW c \in Call
        PROVE  /\ seen[c] = AccessCall(call[c])
               /\ call[c].at \in Stages => call[c] \in Asked
    BY CallType DEF ToolsInv
  <1>s. ASSUME NEW c \in Call, NEW k, call' = [call EXCEPT ![c] = k]
        PROVE  seen' = [seen EXCEPT ![c] = AccessCall(k)]
    BY <1>s, OneCall DEF ToolsInv
  <1>u. ASSUME NEW c \in Call, NEW k, call' = [call EXCEPT ![c] = k],
               AccessCall(k) = AccessCall(call[c])
        PROVE  seen' = seen
    <2> HIDE DEF seen
    <2>1. seen' = [seen EXCEPT ![c] = seen[c]]
      BY <1>t, <1>s, <1>u
    <2>2. seen \in [Call -> {AccessCall(call[d]) : d \in Call}]
      BY DEF seen
    <2> QED
      BY <2>1, <2>2
  <1>q. ASSUME UNCHANGED <<now, permitted, lastSeen, cache>>, seen' = seen
        PROVE  UNCHANGED A!vars
    BY <1>q DEF A!vars
  <1>1. ASSUME NEW a \in Access, Grant(a) \/ Revoke(a)
        PROVE  A!Next
    <2>1. A!Grant(a) \/ A!Revoke(a)
      BY <1>1 DEF Grant, Revoke, A!Grant, A!Revoke
    <2> QED
      BY <1>0, <2>1 DEF A!Next
  <1>2. ASSUME NEW c \in Call, NEW tool \in Tool, NEW a \in Access, Begin(c, tool, a)
        PROVE  UNCHANGED A!vars
    <2> DEFINE k == Begun(tool, a, now)
    <2>1. /\ call' = [call EXCEPT ![c] = k] /\ k \in Asked /\ k.at = "token"
          /\ call[c] = Idle /\ UNCHANGED <<now, permitted, lastSeen, cache>>
      BY <1>0, <1>2 DEF Begin, Begun, Stages, external
    <2> HIDE DEF k
    <2>2. AccessCall(k) = AccessCall(call[c])
      BY <2>1, Awaits
    <2> QED
      BY <1>u, <1>q, <2>1, <2>2
  <1>3. ASSUME NEW c \in Call, GoUpstream(c)
        PROVE  UNCHANGED A!vars
    <2>1. /\ call' = [call EXCEPT ![c] = Upstream] /\ call[c].at = "token"
          /\ UNCHANGED <<now, permitted, lastSeen, cache>>
      BY <1>3 DEF GoUpstream, AskUpstream, external
    <2>2. AccessCall(Upstream) = AccessCall(call[c])
      BY <1>t, <2>1, Awaits DEF Stages
    <2> QED
      BY <1>u, <1>q, <2>1, <2>2
  <1>4. ASSUME NEW c \in Call, NEW asOf \in Nat, Admit(c, asOf), call[c] \in Asked
        PROVE  seen' = [seen EXCEPT ![c] = A!Granted(call[c].who, now, asOf)]
    <2> DEFINE stage == IF ~ (call[c].tool \in Writers) THEN "notes"
                        ELSE IF queue = <<>> THEN "read" ELSE "lock"
               k == [call[c] EXCEPT !.at = stage, !.since = now, !.from = now, !.asOf = asOf]
    <2>1. /\ call' = [call EXCEPT ![c] = k] /\ k \in Asked
          /\ k.at \in Inside /\ k.who = call[c].who /\ k.from = now /\ k.asOf = asOf
      BY <1>0, <1>4 DEF Admit, Inside, Stages
    <2> HIDE DEF k
    <2>2. AccessCall(k) = A!Granted(call[c].who, now, asOf)
      BY <2>1, Awaits
    <2> HIDE DEF seen
    <2> QED
      BY <1>s, <2>1, <2>2
  <1>5. ASSUME NEW c \in Call, CacheHit(c)
        PROVE  A!Next
    <2>1. PICK e \in Hits(cache, call[c].who, now) : Admit(c, e.value)
      BY <1>5 DEF CacheHit
    <2>2. /\ call[c].at = "token" /\ call[c] \in Asked /\ call[c].who \in Access
          /\ UNCHANGED <<now, permitted, lastSeen, cache>>
      BY <1>5, <1>t DEF CacheHit, external, Stages
    <2>3. e.value \in Nat
      BY <2>1 DEF Hits, ToolsInv, TypeOK, Entry
    <2>4. seen' = [seen EXCEPT ![c] = A!Granted(call[c].who, now, e.value)]
      BY <1>4, <2>1, <2>2, <2>3
    <2>5. seen[c] = Idle /\ e \in A!Hits(cache, call[c].who, now)
      BY <1>t, <2>1, <2>2, Awaits, SameCache
    <2>6. A!CacheHit(c, call[c].who)
      BY <1>0, <2>2, <2>4, <2>5 DEF A!CacheHit
    <2> QED
      BY <1>0, <2>2, <2>6 DEF A!Next
  <1>6. ASSUME NEW c \in Call, CacheMiss(c)
        PROVE  A!Next
    <2> DEFINE k == [call[c] EXCEPT !.at = "asking", !.since = now]
    <2>1. /\ call[c].at = "token" /\ call[c] \in Asked /\ call[c].who \in Access
          /\ Hits(cache, call[c].who, now) = {} /\ cache' = AfterGet(cache, call[c].who, now)
          /\ call' = [call EXCEPT ![c] = k] /\ UNCHANGED <<now, permitted, lastSeen>>
      BY <1>6, <1>t DEF CacheMiss, GoOn, external, Stages
    <2>2. k \in Asked /\ k.at = "asking" /\ k.who = call[c].who /\ k.since = now
      BY <1>0, <2>1 DEF Stages
    <2> HIDE DEF k
    <2>3. AccessCall(k) = A!Asking(call[c].who, now)
      BY <2>2, Awaits
    <2>4. seen' = [seen EXCEPT ![c] = A!Asking(call[c].who, now)]
      <3> HIDE DEF seen
      <3> QED
        BY <1>s, <2>1, <2>3
    <2>5. /\ seen[c] = Idle /\ A!Hits(cache, call[c].who, now) = {}
          /\ cache' = A!AfterGet(cache, call[c].who, now)
      BY <1>t, <2>1, Awaits, SameCache
    <2>6. A!CacheMiss(c, call[c].who)
      BY <1>0, <2>1, <2>4, <2>5 DEF A!CacheMiss
    <2> QED
      BY <1>0, <2>1, <2>6 DEF A!Next
  <1>7. ASSUME NEW c \in Call, PowerBIAnswers(c)
        PROVE  A!Next
    <2> DEFINE k == IF call[c].who \in permitted
                    THEN [call[c] EXCEPT !.at = "answered", !.asOf = now]
                    ELSE [call[c] EXCEPT !.at = "refused"]
               answer == IF call[c].who \in permitted
                         THEN A!Answered(call[c].who, call[c].since, now)
                         ELSE A!Refused(call[c].who, call[c].since)
    <2>1. /\ call[c].at = "asking" /\ call[c] \in Asked
          /\ call' = [call EXCEPT ![c] = k] /\ UNCHANGED <<now, permitted, lastSeen, cache>>
      BY <1>7, <1>t DEF PowerBIAnswers, external, Stages
    <2>2. AccessCall(k) = answer
      <3>1. CASE call[c].who \in permitted
        <4>1. k \in Asked /\ k.at = "answered" /\ k.who = call[c].who
              /\ k.since = call[c].since /\ k.asOf = now
          BY <1>0, <2>1, <3>1 DEF Stages
        <4> QED
          BY <3>1, <4>1, Awaits
      <3>2. CASE call[c].who \notin permitted
        <4>1. k \in Asked /\ k.at = "refused" /\ k.who = call[c].who /\ k.since = call[c].since
          BY <1>0, <2>1, <3>2 DEF Stages
        <4> QED
          BY <3>2, <4>1, Awaits
      <3> QED
        BY <3>1, <3>2
    <2>3. seen' = [seen EXCEPT ![c] = answer]
      <3> HIDE DEF seen, k, answer
      <3> QED
        BY <1>s, <2>1, <2>2
    <2>4. /\ seen[c].at = "asking" /\ seen[c].who = call[c].who /\ seen[c].since = call[c].since
      BY <1>t, <2>1, Awaits DEF A!Asking
    <2>5. A!PowerBIAnswers(c)
      BY <2>1, <2>3, <2>4 DEF A!PowerBIAnswers
    <2> QED
      BY <2>5 DEF A!Next, A!Progress
  <1>8. ASSUME NEW c \in Call, SchemaArrives(c)
        PROVE  A!Next
    <2>1. /\ call[c].at = "answered" /\ call[c] \in Asked /\ call[c].asOf \in Nat
          /\ Admit(c, call[c].asOf) /\ cache' = Stored(cache, call[c].who, call[c].asOf, now)
          /\ UNCHANGED <<now, permitted, lastSeen>>
      BY <1>8, <1>t DEF SchemaArrives, external, Stages
    <2>2. seen' = [seen EXCEPT ![c] = A!Granted(call[c].who, now, call[c].asOf)]
      BY <1>4, <2>1
    <2>3. /\ seen[c].at = "answered" /\ seen[c].who = call[c].who /\ seen[c].asOf = call[c].asOf
      BY <1>t, <2>1, Awaits DEF A!Answered
    <2>4. cache' = A!Stored(cache, call[c].who, call[c].asOf, now)
      BY <2>1, SameCache
    <2>5. A!SchemaArrives(c)
      BY <2>1, <2>2, <2>3, <2>4 DEF A!SchemaArrives
    <2> QED
      BY <2>5 DEF A!Next, A!Progress
  <1>9. ASSUME NEW c \in Call, NEW k \in {Idle, Upstream}, call' = [call EXCEPT ![c] = k],
               UNCHANGED <<now, permitted, lastSeen, cache>>
        PROVE  A!Next \/ UNCHANGED A!vars
    <2>1. AccessCall(k) = Idle
      BY Awaits
    <2>2. seen' = [seen EXCEPT ![c] = Idle]
      <3> HIDE DEF seen
      <3> QED
        BY <1>s, <1>9, <2>1
    <2>3. CASE AccessCall(call[c]) = Idle
      BY <1>u, <1>q, <1>9, <2>1, <2>3
    <2>4. CASE call[c].at \in {"asking", "answered", "refused"}
      <3>1. seen[c].at \in {"asking", "answered", "refused"}
        BY <1>t, <2>4, Awaits DEF Stages, A!Asking, A!Answered, A!Refused
      <3>2. A!RequestFails(c)
        BY <1>0, <1>9, <2>2, <3>1 DEF A!RequestFails
      <3> QED
        BY <3>2 DEF A!Next, A!Progress
    <2>5. CASE call[c].at \in Inside
      <3>1. seen[c].at = "granted"
        BY <1>t, <2>5, Awaits DEF Stages, A!Granted
      <3>2. A!TouchMemories(c)
        BY <1>0, <1>9, <2>2, <3>1 DEF A!TouchMemories
      <3> QED
        BY <3>2 DEF A!Next, A!Progress
    <2>6. CASE call[c].at \in {"idle", "upstream", "token"}
      <3>1. AccessCall(call[c]) = Idle
        BY <2>6 DEF AccessCall, Inside
      <3> QED
        BY <2>3, <3>1
    <2> QED
      BY <2>4, <2>5, <2>6, CallType DEF ToolsInv, Stages
  <1>10. ASSUME NEW c \in Call, Acquire(c) \/ RecordArrives(c)
         PROVE  UNCHANGED A!vars
    <2> DEFINE stage == IF call[c].at = "lock" THEN "read" ELSE "put"
               k == [call[c] EXCEPT !.at = stage, !.since = now]
    <2>1. /\ call' = [call EXCEPT ![c] = k] /\ call[c].at \in Inside /\ call[c] \in Asked
          /\ UNCHANGED <<now, permitted, lastSeen, cache>>
      BY <1>10, <1>t DEF Acquire, RecordArrives, GoOn, external, Stages, Inside
    <2>2. /\ k \in Asked /\ k.at \in Inside /\ k.who = call[c].who
          /\ k.from = call[c].from /\ k.asOf = call[c].asOf
      BY <1>0, <2>1 DEF Stages, Inside
    <2> HIDE DEF k
    <2>3. AccessCall(k) = AccessCall(call[c])
      BY <2>1, <2>2, Awaits
    <2> QED
      BY <1>u, <1>q, <2>1, <2>3
  <1>11. ASSUME Restart
         PROVE  A!Next
    <2>1. seen' = [d \in Call |-> Idle]
      BY <1>11, Awaits DEF Restart
    <2>2. A!Restart
      BY <1>0, <1>11, <2>1 DEF Restart, external, A!Restart
    <2> QED
      BY <2>2 DEF A!Next
  <1>12. ASSUME Tick
         PROVE  A!Next
    <2>1. ASSUME NEW c \in Call, seen[c] # Idle
          PROVE  now < seen[c].since + A!Patience(c)
      <3>1. QueueDelay \in Nat /\ Delay \in Nat /\ Delay <= QueueDelay /\ Turn \in Nat
        <4>1. Cardinality(Call) \in Nat \ {0}
          BY CallAssumption, FS_CardinalityType, FS_EmptySet
        <4>2. Turn * 1 <= Turn * Cardinality(Call) /\ Turn * 1 = Turn
          BY <4>1, Turns
        <4> QED
          BY <4>2, Turns, TimeAssumption DEF QueueDelay
      <3>2. call[c].at \in Stages \ {"token"} /\ call[c] \in Asked
        BY <1>t, <2>1, CallType, Awaits DEF ToolsInv, Stages, AccessCall
      <3>3. CASE call[c].at \in {"asking", "answered", "refused"}
        <4>1. seen[c].since = call[c].since /\ seen[c].at # "granted"
          BY <1>t, <3>2, <3>3, Awaits DEF A!Asking, A!Answered, A!Refused
        <4> QED
          BY <1>12, <3>3, <4>1 DEF Tick, A!Patience
      <3>4. CASE call[c].at \in Inside
        <4>1. seen[c].since = call[c].from /\ seen[c].at = "granted"
          BY <1>t, <3>2, <3>4, Awaits DEF A!Granted
        <4>2. A!Patience(c) = QueueDelay
          BY <4>1 DEF A!Patience
        <4>3. call[c].from \in Nat /\ call[c].since \in Nat
          BY <3>2
        <4>4. now < call[c].from + QueueDelay
          <5>1. CASE call[c].at = "notes"
            <6>1. call[c].from = call[c].since /\ now < call[c].since + Delay
              BY <1>12, <5>1 DEF ToolsInv, WaitInv, Tick
            <6> QED
              BY <1>0, <3>1, <4>3, <6>1
          <5>2. CASE call[c].at \in InLock
            <6>1. PICK l \in DOMAIN queue : queue[l] = c
              BY <5>2 DEF ToolsInv, QueueInv
            <6>2. HeadDone + Turn * (l - 1) <= call[c].from + QueueDelay
              BY <6>1 DEF ToolsInv, QueueInTime
            <6>3. queue # <<>> /\ Head(queue) \in Call /\ Head(queue) = queue[1] /\ HeadDone \in Nat
              BY <1>0, <6>1, HeadSoon DEF ToolsInv
            <6>4. now < HeadDone
              <7> DEFINE h == call[Head(queue)]
              <7>1. h.at \in {"read", "put"} /\ now < h.since + Delay /\ h.since \in Nat
                <8>1. h.at \in {"read", "put"}
                  BY <1>0, <1>12, <6>3, HeadSoon DEF Tick, ToolsInv, QueueInv, InLock
                <8>2. now < h.since + Delay
                  BY <1>12, <6>3, <8>1 DEF Tick
                <8>3. h.since \in Nat
                  BY <1>t, <6>3, <8>1 DEF Stages, Inside
                <8> QED
                  BY <8>1, <8>2, <8>3
              <7>2. HeadDone = IF h.at = "read" THEN h.since + Turn ELSE h.since + Delay
                BY <7>1 DEF HeadDone, Turn
              <7>3. Delay <= Turn
                BY Turns
              <7> HIDE DEF h, Turn
              <7> QED
                BY <1>0, <3>1, <7>1, <7>2, <7>3
            <6>5. Turn * (l - 1) \in Nat
              <7>1. l - 1 \in Nat
                BY <1>0
              <7> QED
                BY <7>1, Turns
            <6> HIDE DEF Turn, QueueDelay
            <6> QED
              BY <1>0, <3>1, <4>3, <6>2, <6>3, <6>4, <6>5
          <5> QED
            BY <3>4, <5>1, <5>2 DEF Inside, InLock
        <4> QED
          BY <4>1, <4>2, <4>4
      <3> QED
        BY <3>2, <3>3, <3>4 DEF Stages
    <2>2. seen' = seen
      BY <1>12 DEF Tick
    <2>3. A!Tick
      BY <1>0, <1>12, <2>1, <2>2 DEF Tick, A!Tick
    <2> QED
      BY <2>3 DEF A!Next
  <1>13. CASE UNCHANGED vars
    BY <1>13 DEF vars, A!vars
  <1>14. ASSUME NEW c \in Call, Progress(c) \/ Fail(c)
         PROVE  A!Next \/ UNCHANGED A!vars
    <2>1. CASE NotesArrive(c)
      <3>1. /\ \E k \in {Idle, Upstream} : call' = [call EXCEPT ![c] = k]
            /\ UNCHANGED <<now, permitted, lastSeen, cache>>
        BY <2>1 DEF NotesArrive, AskUpstream, Leave, external
      <3> QED
        BY <1>9, <3>1
    <2>2. CASE Finish(c) \/ Fail(c)
      <3>1. call' = [call EXCEPT ![c] = Idle] /\ UNCHANGED <<now, permitted, lastSeen, cache>>
        BY <2>2 DEF Finish, Fail, Leave, external
      <3> QED
        BY <1>9, <3>1
    <2> QED
      BY <1>3, <1>5, <1>6, <1>7, <1>8, <1>10, <1>14, <2>1, <2>2 DEF Progress
  <1> QED
    BY <1>1, <1>2, <1>11, <1>12, <1>13, <1>14 DEF Next

(***************************************************************************)
(* The tools implement the access check: what ModelAccess promises of its  *)
(* calls holds of every tool that reads or changes the notes of a model.   *)
(***************************************************************************)
THEOREM ToolsImplementAccess == Spec => ImplementsAccess
  <1>1. Init => A!Init
    <2> SUFFICES ASSUME Init
                 PROVE  A!Init
      OBVIOUS
    <2>1. [c \in Call |-> AccessCall(call[c])] = [c \in Call |-> Idle]
      BY Awaits DEF Init
    <2> QED
      BY <2>1 DEF Init, A!Init, A!Access, Access, A!Idle, Idle
  <1> QED
    BY <1>1, ToolsInvInit, ToolsInvNext, ToolsStep, PTL DEF Spec, ImplementsAccess, A!Spec

-----------------------------------------------------------------------------
\* What a call holds it was given when its user was permitted; only writers queue.
Justified(k) ==
    /\ k.at = "answered" => k.since <= k.asOf /\ k.asOf + 1 <= lastSeen[k.who]
    /\ k.at \in Inside => k.from <= k.asOf + Delay + Ttl /\ k.asOf + 1 <= lastSeen[k.who]
    /\ k.at \in InLock => k.tool \in Writers

ClockInv ==
    \A a \in Access :
        /\ lastSeen[a] <= now + 1
        /\ a \in permitted => lastSeen[a] = now + 1

EntryInv ==
    \A e \in cache : e.value + 1 <= lastSeen[e.key] /\ e.expires <= e.value + Delay + Ttl

(***************************************************************************)
(* The invariant behind the bound of the readers: it follows a permission  *)
(* from Power BI's answer over the cache to the call that holds it.        *)
(***************************************************************************)
GrantInv == ClockInv /\ EntryInv /\ \A c \in Call : Justified(call[c])

LEMMA GrantInvInit == Init => GrantInv
  BY DEF Init, GrantInv, ClockInv, EntryInv, Justified, Idle, Inside, InLock

\* Permissions change and time passes: nobody was permitted later than the history says.
LEMMA HistoryGrows ==
    ASSUME ToolsInv, GrantInv, UNCHANGED <<call, cache>>,
           lastSeen' \in [Access -> Nat], \A a \in Access : lastSeen[a] <= lastSeen'[a], ClockInv'
    PROVE  GrantInv'
  <1>1. EntryInv'
    BY DEF ToolsInv, TypeOK, GrantInv, EntryInv, Entry
  <1>2. ASSUME NEW c \in Call
        PROVE  Justified(call[c])'
    <2>1. CASE call[c].at \in Stages
      <3>1. call[c].who \in Access /\ call[c].asOf \in Nat
        BY <2>1, CallType DEF ToolsInv
      <3>2. Justified(call[c]) /\ lastSeen[call[c].who] <= lastSeen'[call[c].who]
            /\ lastSeen[call[c].who] \in Nat /\ lastSeen'[call[c].who] \in Nat
        BY <3>1 DEF GrantInv, ToolsInv, TypeOK
      <3> QED
        BY <3>1, <3>2 DEF Justified
    <2>2. CASE call[c].at \notin Stages
      BY <2>2 DEF Justified, Stages, Inside, InLock
    <2> QED
      BY <2>1, <2>2
  <1> QED
    BY <1>1, <1>2 DEF GrantInv

\* One call goes on with what it was given.
LEMMA OneJustified ==
    ASSUME ToolsInv, GrantInv, NEW c \in Call, NEW k, call' = [call EXCEPT ![c] = k],
           Justified(k), UNCHANGED <<now, permitted, lastSeen>>, EntryInv'
    PROVE  GrantInv'
  <1>1. Justified(k)'
    BY DEF Justified
  <1>2. \A d \in Call : call'[d] = IF d = c THEN k ELSE call[d]
    BY DEF ToolsInv, TypeOK
  <1>3. ASSUME NEW d \in Call
        PROVE  Justified(call[d])'
    <2>1. CASE d = c
      BY <1>2, <2>1 DEF Justified
    <2>2. CASE d # c
      BY <1>2, <2>2 DEF GrantInv, Justified
    <2> QED
      BY <2>1, <2>2
  <1>4. ClockInv'
    BY DEF GrantInv, ClockInv
  <1> QED
    BY <1>3, <1>4 DEF GrantInv

\* A call that is let through on a schema of its user's, not too old.
LEMMA AdmittedJustified ==
    ASSUME ToolsInv, GrantInv, NEW c \in Call, NEW asOf \in Nat, Admit(c, asOf),
           call[c].at \in {"token", "answered"},
           now <= asOf + Delay + Ttl, asOf + 1 <= lastSeen[call[c].who],
           UNCHANGED <<now, permitted, lastSeen>>, EntryInv'
    PROVE  GrantInv'
  <1> DEFINE stage == IF ~ (call[c].tool \in Writers) THEN "notes"
                      ELSE IF queue = <<>> THEN "read" ELSE "lock"
             k == [call[c] EXCEPT !.at = stage, !.since = now, !.from = now, !.asOf = asOf]
  <1>1. call[c] \in [at : Stages, tool : Tool, who : Access, since : Nat, from : Nat, asOf : Nat]
    BY CallType DEF ToolsInv, Stages
  <1>2. /\ k.at = stage /\ k.from = now /\ k.asOf = asOf
        /\ k.who = call[c].who /\ k.tool = call[c].tool
    BY <1>1
  <1>3. call' = [call EXCEPT ![c] = k]
    BY DEF Admit
  <1>4. Justified(k)
    <2> HIDE DEF k
    <2> QED
      BY <1>2 DEF Justified, Inside, InLock
  <1> HIDE DEF k
  <1> QED
    BY <1>3, <1>4, OneJustified

LEMMA GrantInvNext == ToolsInv /\ GrantInv /\ [Next]_vars => GrantInv'
  <1> SUFFICES ASSUME ToolsInv, GrantInv, [Next]_vars
               PROVE  GrantInv'
    OBVIOUS
  <1>0. /\ now \in Nat /\ permitted \subseteq Access /\ lastSeen \in [Access -> Nat]
        /\ cache \subseteq Entry(Access, Nat) /\ IsFiniteSet(cache)
        /\ call \in [Call -> Calls] /\ Delay \in Nat /\ Ttl \in Nat
    BY TimeAssumption, CacheAssumption DEF ToolsInv, TypeOK
  <1>t. ASSUME NEW c \in Call, call[c].at \in Stages
        PROVE  call[c] \in [at : Stages, tool : Tool, who : Access, since : Nat, from : Nat, asOf : Nat]
    BY <1>t, CallType DEF ToolsInv
  <1>1. CASE (\E a \in Access : Grant(a) \/ Revoke(a)) \/ Tick
    <2>1. /\ UNCHANGED <<call, cache>> /\ lastSeen' \in [Access -> Nat]
          /\ \A a \in Access : lastSeen[a] <= lastSeen'[a]
      BY <1>0, <1>1 DEF Grant, Revoke, Tick, GrantInv, ClockInv
    <2>2. ClockInv'
      BY <1>0, <1>1 DEF Grant, Revoke, Tick, GrantInv, ClockInv
    <2> QED
      BY <2>1, <2>2, HistoryGrows
  <1>2. ASSUME NEW c \in Call, NEW k \in Calls,
               k.at \in {"idle", "upstream", "token", "asking", "refused"},
               call' = [call EXCEPT ![c] = k], UNCHANGED <<now, permitted, lastSeen, cache>>
        PROVE  GrantInv'
    <2>1. Justified(k)
      BY <1>2 DEF Justified, Inside, InLock
    <2>2. EntryInv'
      BY <1>2 DEF GrantInv, EntryInv
    <2> QED
      BY <1>2, <2>1, <2>2, OneJustified
  <1>3. ASSUME NEW c \in Call, CacheHit(c)
        PROVE  GrantInv'
    <2>1. PICK e \in cache : e.key = call[c].who /\ ~ (e.expires < now) /\ Admit(c, e.value)
      BY <1>3 DEF CacheHit, Hits, Expired
    <2>2. /\ e.value \in Nat /\ e.expires \in Nat
          /\ e.value + 1 <= lastSeen[e.key] /\ e.expires <= e.value + Delay + Ttl
      BY <1>0 DEF Entry, GrantInv, EntryInv
    <2>3. now <= e.value + Delay + Ttl
      BY <1>0, <2>1, <2>2
    <2>4. call[c].at = "token" /\ UNCHANGED <<now, permitted, lastSeen, cache>> /\ EntryInv'
      BY <1>3 DEF CacheHit, external, GrantInv, EntryInv
    <2> QED
      BY <2>1, <2>2, <2>3, <2>4, AdmittedJustified
  <1>4. ASSUME NEW c \in Call, CacheMiss(c)
        PROVE  GrantInv'
    <2> DEFINE k == [call[c] EXCEPT !.at = "asking", !.since = now]
    <2>1. /\ call[c].at = "token" /\ call' = [call EXCEPT ![c] = k]
          /\ cache' = AfterGet(cache, call[c].who, now) /\ UNCHANGED <<now, permitted, lastSeen>>
      BY <1>4 DEF CacheMiss, GoOn, external
    <2>2. k.at = "asking"
      BY <1>t, <2>1 DEF Stages
    <2>3. Justified(k)
      <3> HIDE DEF k
      <3> QED
        BY <2>2 DEF Justified, Inside, InLock
    <2>4. \A e \in cache' : \E f \in cache :
             e.key = f.key /\ e.value = f.value /\ e.expires = f.expires
      BY <1>0, <2>1, AfterGetEntries
    <2>5. EntryInv'
      BY <2>1, <2>4 DEF GrantInv, EntryInv
    <2> HIDE DEF k
    <2> QED
      BY <2>1, <2>3, <2>5, OneJustified
  <1>5. ASSUME NEW c \in Call, PowerBIAnswers(c)
        PROVE  GrantInv'
    <2>1. /\ call[c].at = "asking" /\ UNCHANGED <<now, permitted, lastSeen, cache>>
      BY <1>5 DEF PowerBIAnswers, external
    <2>2. /\ call[c] \in [at : Stages, tool : Tool, who : Access, since : Nat, from : Nat, asOf : Nat]
          /\ call[c].since <= now
      BY <1>t, <2>1 DEF ToolsInv, WaitInv, Stages
    <2>3. CASE call[c].who \in permitted
      <3> DEFINE k == [call[c] EXCEPT !.at = "answered", !.asOf = now]
      <3>1. call' = [call EXCEPT ![c] = k]
        BY <1>5, <2>3 DEF PowerBIAnswers
      <3>2. k.at = "answered" /\ k.asOf = now /\ k.since = call[c].since /\ k.who = call[c].who
        BY <2>2
      <3> HIDE DEF k
      <3>3. lastSeen[call[c].who] = now + 1
        BY <2>2, <2>3 DEF GrantInv, ClockInv
      <3>4. Justified(k)
        BY <1>0, <2>2, <3>2, <3>3 DEF Justified, Inside, InLock
      <3>5. EntryInv'
        BY <2>1 DEF GrantInv, EntryInv
      <3> QED
        BY <2>1, <3>1, <3>4, <3>5, OneJustified
    <2>4. CASE call[c].who \notin permitted
      <3> DEFINE k == [call[c] EXCEPT !.at = "refused"]
      <3>1. call' = [call EXCEPT ![c] = k] /\ k \in Calls /\ k.at = "refused"
        BY <1>5, <2>2, <2>4 DEF PowerBIAnswers, Calls, Stages
      <3> HIDE DEF k
      <3> QED
        BY <1>2, <2>1, <3>1
    <2> QED
      BY <2>3, <2>4
  <1>6. ASSUME NEW c \in Call, SchemaArrives(c)
        PROVE  GrantInv'
    <2> DEFINE a == call[c].who
               asOf == call[c].asOf
    <2>1. /\ call[c].at = "answered" /\ Admit(c, asOf)
          /\ cache' = Stored(cache, a, asOf, now) /\ UNCHANGED <<now, permitted, lastSeen>>
      BY <1>6 DEF SchemaArrives, external
    <2>2. /\ a \in Access /\ asOf \in Nat /\ call[c].since \in Nat
          /\ call[c].since <= asOf /\ asOf + 1 <= lastSeen[a] /\ now <= call[c].since + Delay
      BY <1>t, <2>1 DEF Stages, GrantInv, Justified, ToolsInv, WaitInv
    <2>3. now <= asOf + Delay + Ttl /\ now + Ttl <= asOf + Delay + Ttl
      BY <1>0, <2>2
    <2>4. EntryInv'
      <3> HIDE DEF a, asOf
      <3>1. cache \subseteq Entry(Access, Nat) /\ IsFiniteSet(cache)
        BY <1>0
      <3>2. a \in Access /\ asOf \in Nat /\ now \in Nat
        BY <1>0, <2>2
      <3> DEFINE stored == Stored(cache, a, asOf, now)
      <3>3. \A e \in stored :
               \/ e.key = a /\ e.value = asOf /\ e.expires = now + Ttl
               \/ \E f \in cache : /\ f.key # a
                                   /\ e.key = f.key /\ e.value = f.value /\ e.expires = f.expires
        BY <3>1, <3>2, StoredEntries
      <3> QED
        BY <2>1, <2>2, <2>3, <3>3 DEF GrantInv, EntryInv
    <2> QED
      BY <2>1, <2>2, <2>3, <2>4, AdmittedJustified
  <1>7. ASSUME NEW c \in Call, Acquire(c) \/ RecordArrives(c)
        PROVE  GrantInv'
    <2> DEFINE stage == IF call[c].at = "lock" THEN "read" ELSE "put"
               k == [call[c] EXCEPT !.at = stage, !.since = now]
    <2>1. /\ call' = [call EXCEPT ![c] = k] /\ call[c].at \in {"lock", "read"}
          /\ UNCHANGED <<now, permitted, lastSeen, cache>>
      BY <1>7 DEF Acquire, RecordArrives, GoOn, external
    <2>2. /\ k.at \in {"read", "put"} /\ k.who = call[c].who /\ k.tool = call[c].tool
          /\ k.from = call[c].from /\ k.asOf = call[c].asOf
      BY <1>t, <2>1 DEF Stages, Inside
    <2> HIDE DEF k
    <2>3. Justified(k)
      BY <2>1, <2>2 DEF GrantInv, Justified, Inside, InLock
    <2>4. EntryInv'
      BY <2>1 DEF GrantInv, EntryInv
    <2> QED
      BY <2>1, <2>3, <2>4, OneJustified
  <1>8. CASE Restart
    BY <1>8 DEF Restart, external, GrantInv, ClockInv, EntryInv, Justified, Idle, Inside, InLock
  <1>9. CASE UNCHANGED vars
    BY <1>9 DEF vars, GrantInv, ClockInv, EntryInv, Justified
  <1>10. ASSUME NEW c \in Call, NEW tool \in Tool, NEW a \in Access, Begin(c, tool, a)
         PROVE  GrantInv'
    <2> DEFINE k == Begun(tool, a, now)
    <2>1. /\ call' = [call EXCEPT ![c] = k] /\ k \in Calls /\ k.at = "token"
          /\ UNCHANGED <<now, permitted, lastSeen, cache>>
      BY <1>0, <1>10 DEF Begin, Begun, Calls, Stages, external
    <2> HIDE DEF k
    <2> QED
      BY <1>2, <2>1
  <1>11. ASSUME NEW c \in Call, GoUpstream(c) \/ NotesArrive(c) \/ Finish(c) \/ Fail(c)
         PROVE  GrantInv'
    <2>1. /\ \E k \in {Idle, Upstream} : call' = [call EXCEPT ![c] = k]
          /\ UNCHANGED <<now, permitted, lastSeen, cache>>
      BY <1>11 DEF GoUpstream, NotesArrive, Finish, Fail, AskUpstream, Leave, external
    <2>2. \A k \in {Idle, Upstream} : k \in Calls /\ k.at \in {"idle", "upstream"}
      BY DEF Idle, Upstream, Calls
    <2> QED
      BY <1>2, <2>1, <2>2
  <1> QED
    BY <1>1, <1>3, <1>4, <1>5, <1>6, <1>7, <1>8, <1>9, <1>10, <1>11 DEF Next, Progress

(***************************************************************************)
(* Whoever reads notes was permitted within two awaits and a lifetime,     *)
(* however many writers queue: readers are only ever at the notes.         *)
(***************************************************************************)
THEOREM ReadersSeeRecentPermission == Spec => []ReadersAreTimely
  <1>1. ToolsInv /\ GrantInv => ReadersAreTimely
    <2> SUFFICES ASSUME ToolsInv, GrantInv, NEW c \in Call,
                        call[c].at \in Inside, call[c].tool \in Readers
                 PROVE  /\ lastSeen[call[c].who] > 0
                        /\ now + 1 <= lastSeen[call[c].who] + Delay + Ttl + Delay
      BY DEF ReadersAreTimely
    <2>1. Justified(call[c])
      BY DEF GrantInv
    <2>2. call[c].at = "notes"
      BY <2>1 DEF Justified, Inside, InLock, Readers, Writers
    <2>3. /\ call[c].from \in Nat /\ call[c].asOf \in Nat /\ call[c].who \in Access
          /\ lastSeen[call[c].who] \in Nat /\ now \in Nat
      BY <2>2, CallType DEF ToolsInv, TypeOK, Stages
    <2>4. /\ now <= call[c].from + Delay /\ call[c].from <= call[c].asOf + Delay + Ttl
          /\ call[c].asOf + 1 <= lastSeen[call[c].who]
      BY <2>1, <2>2 DEF Justified, ToolsInv, WaitInv, Stages
    <2> QED
      BY <2>3, <2>4, TimeAssumption, CacheAssumption
  <1> QED
    BY <1>1, ToolsInvInit, ToolsInvNext, GrantInvInit, GrantInvNext, PTL DEF Spec
=============================================================================
