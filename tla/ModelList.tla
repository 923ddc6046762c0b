----------------------------- MODULE ModelList -----------------------------
(***************************************************************************)
(* What list_semantic_models promises its user: the list is made at once,  *)
(* and what it says of a workspace is all or nothing.  There are no pages, *)
(* no permits, no retries and no half-read workspaces here: module Listing *)
(* has those, and is shown to implement this one.                          *)
(***************************************************************************)
CONSTANTS
    Workspaces, \* what the user's list of workspaces has
    Serves,     \* workspace -> the models in it
    Forbidden,  \* workspaces whose items the user may not list
    Curated,    \* the models of skills/catalog.yaml
    Queryable   \* the models the user may query

VARIABLES
    listing,    \* a list is being made
    want,       \* include_uncurated
    expired,    \* the user's token expired meanwhile
    cache,      \* the list kept for this user, or Absent
    answer      \* what the last call was answered

listVars == <<listing, want, expired, cache, answer>>

Absent == [listed |-> FALSE]
List(rows) == [listed |-> TRUE, rows |-> rows]
Raised == [listed |-> FALSE, error |-> TRUE]

Shown(rows, all) == {r \in rows : all \/ r.curated}

ListInit ==
    /\ listing = FALSE
    /\ want = TRUE
    /\ expired = FALSE
    /\ cache = Absent
    /\ answer = Absent

\* There is a list already.
Repeat ==
    /\ ~ listing
    /\ cache.listed
    /\ \E all \in BOOLEAN : want' = all /\ answer' = List(Shown(cache.rows, all))
    /\ UNCHANGED <<listing, expired, cache>>

Ask ==
    /\ ~ listing
    /\ ~ cache.listed
    /\ listing' = TRUE
    /\ want' \in BOOLEAN
    /\ expired' = FALSE
    /\ answer' = Absent
    /\ UNCHANGED cache

\* The models of the workspaces that gave theirs.
Given(open) == UNION {Serves[w] : w \in open}

\* The rows of those, and of the curated models that were found beside them.
RowsOf(open, found) ==
    {[id |-> m, curated |-> m \in Curated, shared_directly |-> FALSE] : m \in Given(open)}
    \cup {[id |-> m, curated |-> TRUE, shared_directly |-> TRUE] : m \in found}

(***************************************************************************)
(* A workspace that is open to the user gives all its models, one that is  *)
(* left out gives none and refused the user, for good or for the token;    *)
(* what was found beside them is in none of them.                          *)
(***************************************************************************)
Deliver(open, found) ==
    /\ listing
    /\ open \cap Forbidden = {}
    /\ expired \/ Workspaces \ open \subseteq Forbidden
    /\ found \subseteq (Curated \cap Queryable) \ Given(open)
    /\ listing' = FALSE
    /\ cache' = List(RowsOf(open, found))
    /\ answer' = List(Shown(RowsOf(open, found), want))
    /\ UNCHANGED <<want, expired>>

\* The call ends without a list, and nothing is kept of it.
Fail ==
    /\ listing
    /\ listing' = FALSE
    /\ answer' = Raised
    /\ UNCHANGED <<want, expired, cache>>

Expire ==
    /\ listing
    /\ expired' = TRUE
    /\ UNCHANGED <<listing, want, cache, answer>>

Forget ==
    /\ ~ listing
    /\ cache.listed
    /\ cache' = Absent
    /\ UNCHANGED <<listing, want, expired, answer>>

ListNext ==
    \/ Repeat \/ Ask \/ Fail \/ Expire \/ Forget
    \/ \E open \in SUBSET Workspaces : \E found \in SUBSET Curated : Deliver(open, found)

ListSpec == ListInit /\ [][ListNext]_listVars
=============================================================================
