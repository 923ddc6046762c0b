---------------------------- MODULE MemoryStore ----------------------------
(***************************************************************************)
(* What the memories of powerbi_mcp/memory.py promise to their callers: a  *)
(* remember or forget call takes effect at once, as a whole, or not at     *)
(* all.  The store is the record of each model; a call asks, and is        *)
(* answered in the very step that changes the record.  There is no lock,   *)
(* no read before the write and no write in flight here: module Memories   *)
(* has those, and is shown to implement this one.                          *)
(*                                                                         *)
(* A memory is its id and its author; its text and date are never read by  *)
(* the code that adds and removes.  A record is a set of memories (the     *)
(* order they are listed in is abstracted), and {} is the absent record.   *)
(***************************************************************************)
EXTENDS Naturals, FiniteSets

CONSTANTS
    Call,   \* tool calls that may be in progress together
    Model,  \* normalised semantic model ids
    User,   \* user keys
    Id,     \* memory ids (secrets.token_hex)
    Cap     \* max_per_model

ASSUME CapAssumption == Cap \in Nat \ {0}

VARIABLES
    store,  \* model -> its record
    ask,    \* call -> what it was asked to do
    reply   \* call -> how the caller was answered

storeVars == <<store, ask, reply>>

Memory == [id : Id, author : User]

(***************************************************************************)
(* The requests that reach the store.  An add has no id yet and a remove   *)
(* names the memory to forget.                                             *)
(***************************************************************************)
AddRequest == [op : {"add"}, model : Model, user : User]
RemoveRequest == [op : {"remove"}, model : Model, user : User, id : Id]
Nothing == [op |-> "nothing"]
Request == AddRequest \cup RemoveRequest

Reply == {"none", "ok", "refused", "failed"}

IdsOf(memories) == {m.id : m \in memories}
Without(memories, i) == {m \in memories : m.id # i}
Owns(memories, i, u) == \E m \in memories : m.id = i /\ m.author = u

(***************************************************************************)
(* The records request r may leave behind when it is carried out on        *)
(* memories: none at all when the store refuses it.                        *)
(***************************************************************************)
Outcomes(r, memories) ==
    CASE r.op = "add" /\ Cardinality(memories) < Cap ->
            {memories \cup {[id |-> i, author |-> r.user]} : i \in Id \ IdsOf(memories)}
      [] r.op = "remove" /\ Owns(memories, r.id, r.user) ->
            {Without(memories, r.id)}
      [] OTHER -> {}

Refused(r, memories) ==
    IF r.op = "add"
    THEN Cardinality(memories) >= Cap
    ELSE ~ Owns(memories, r.id, r.user)

StoreTypeOK ==
    /\ store \in [Model -> SUBSET Memory]
    /\ ask \in [Call -> Request \cup {Nothing}]
    /\ reply \in [Call -> Reply]

StoreInit ==
    /\ store = [m \in Model |-> {}]
    /\ ask = [c \in Call |-> Nothing]
    /\ reply = [c \in Call |-> "none"]

Ask(c) ==
    /\ ask[c] = Nothing
    /\ \E r \in Request : ask' = [ask EXCEPT ![c] = r]
    /\ reply' = [reply EXCEPT ![c] = "none"]
    /\ UNCHANGED store

\* Malformed input (an id that is no GUID, empty or oversized text) is turned away.
Reject(c) ==
    /\ ask[c] = Nothing
    /\ reply' = [reply EXCEPT ![c] = "refused"]
    /\ UNCHANGED <<store, ask>>

\* The request is carried out and the caller is told so.
Perform(c) ==
    /\ ask[c] # Nothing
    /\ \E record \in Outcomes(ask[c], store[ask[c].model]) :
          store' = [store EXCEPT ![ask[c].model] = record]
    /\ ask' = [ask EXCEPT ![c] = Nothing]
    /\ reply' = [reply EXCEPT ![c] = "ok"]

\* The store refuses the request and nothing changes.
Refuse(c) ==
    /\ ask[c] # Nothing
    /\ Refused(ask[c], store[ask[c].model])
    /\ ask' = [ask EXCEPT ![c] = Nothing]
    /\ reply' = [reply EXCEPT ![c] = "refused"]
    /\ UNCHANGED store

(***************************************************************************)
(* Calls fail: an error, a cancelled request, a crash of the process.      *)
(* Nobody knows whether a failed call took effect, and at most one of      *)
(* those that fail together does.                                          *)
(***************************************************************************)
Fail(failed) ==
    /\ \A c \in failed : ask[c] # Nothing
    /\ \/ UNCHANGED store
       \/ \E c \in failed :
             \E record \in Outcomes(ask[c], store[ask[c].model]) :
                store' = [store EXCEPT ![ask[c].model] = record]
    /\ ask' = [c \in Call |-> IF c \in failed THEN Nothing ELSE ask[c]]
    /\ reply' = [c \in Call |-> IF c \in failed THEN "failed" ELSE reply[c]]

StoreNext ==
    \/ \E c \in Call : Ask(c) \/ Reject(c) \/ Perform(c) \/ Refuse(c)
    \/ \E failed \in SUBSET Call : Fail(failed)

StoreSpec == StoreInit /\ [][StoreNext]_storeVars
=============================================================================
