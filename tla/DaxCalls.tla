------------------------------ MODULE DaxCalls ------------------------------
(***************************************************************************)
(* generate_dax and execute_dax: Gateway.generate, Gateway.execute         *)
(* (powerbi_mcp/gateway.py), DaxGenerator (dax_generator.py) and           *)
(* HostedPowerBIMcp.execute_query (hosted_mcp.py).                         *)
(*                                                                         *)
(* generate reads the schema and the notes of the model, has the Foundry   *)
(* deployment write a query, runs it, and when that fails has it repaired  *)
(* and run once more.  execute runs the caller's queries one by one.       *)
(* Around a call the world moves: the model's schema and the notes users   *)
(* remember change, each request may fail, and the call may be cancelled.  *)
(*                                                                         *)
(* One call at a time: calls share the schema cache, which ModelAccess     *)
(* models, and a generator that keeps nothing between two questions.       *)
(***************************************************************************)
EXTENDS Upstream, Sequences

CONSTANTS
    Query,       \* DAX texts
    Checked,     \* those validate_dax accepts
    NoQuery,
    RowsWanted,  \* values of max_rows a caller passes
    NoRows,      \* max_rows left out
    DefaultRows, \* default_max_rows
    RowsLimit,   \* max_rows_limit
    Batch,       \* lists of queries a caller passes to execute_dax
    MaxQueries,  \* 4
    MaxVersion   \* bound on the changes of the schema and of the notes

ASSUME QueryAssumption == Checked \subseteq Query /\ NoQuery \notin Query
ASSUME RowsAssumption ==
    /\ RowsWanted \subseteq Nat /\ NoRows \notin Nat
    /\ DefaultRows \in Nat /\ RowsLimit \in Nat
ASSUME BatchAssumption == Batch \subseteq Seq(Query) /\ MaxQueries \in Nat
ASSUME VersionAssumption == MaxVersion \in Nat

VARIABLES
    at,         \* the await the call is suspended at
    cap,        \* the row cap of its queries
    run,        \* execute=true
    history,    \* chat_history was passed
    schema,     \* the version of the schema it works with
    notes,      \* the version of the notes it works with
    prompts,    \* what the Foundry deployment was asked
    first,      \* `generated.dax`
    error,      \* `first_error`
    second,     \* `repaired.dax`
    batch,      \* execute_dax: the queries
    results,    \* execute_dax: what the hosted server returned for them so far
    answer,     \* what the last call was answered
    configured, \* PBIMCP_FOUNDRY_ENDPOINT is set
    published,  \* Power BI: the version of the schema
    remembered  \* the version of the model's notes

world == <<configured, published, remembered>>
request == <<cap, run, history>>
grounding == <<schema, notes>>
generation == <<prompts, first, error, second>>
execution == <<batch, results>>
vars == <<at, cap, run, history, schema, notes, prompts, first, error, second, batch, results,
          answer, configured, published, remembered>>

Version == 0..MaxVersion
NoError == [kind |-> "none"]
Failure == [kind : Told, of : Query \cup {NoQuery}]
Prompt == [schema : Version, notes : Version, history : BOOLEAN]
Rows == RowsWanted \cup {DefaultRows, RowsLimit}
Result == [of : Query, cap : Rows, body : Body]

Silence == [kind |-> "silence"]
Raised == [kind |-> "raised"]
Answer ==
    {Silence, Raised}
    \cup [kind : {"dax"}, dax : Query]
    \cup [kind : {"rows"}, dax : Query, result : Result, repaired_after : Failure \cup {NoError}]
    \cup [kind : {"errors"}, dax : Query, execution_error : Failure, repair_error : Failure]
    \cup [kind : {"tables"}, results : Seq(Result)]

TypeOK ==
    /\ at \in {"idle", "schema", "notes", "generating", "running", "repairing", "rerunning",
               "executing"}
    /\ cap \in Rows /\ run \in BOOLEAN /\ history \in BOOLEAN
    /\ schema \in Version /\ notes \in Version
    /\ prompts \in Seq(Prompt)
    /\ first \in Query \cup {NoQuery} /\ second \in Query \cup {NoQuery}
    /\ error \in Failure \cup {NoError}
    /\ batch \in Seq(Query) /\ results \in Seq(Result)
    /\ answer \in Answer
    /\ configured \in BOOLEAN /\ published \in Version /\ remembered \in Version

Init ==
    /\ at = "idle"
    /\ cap = DefaultRows /\ run = FALSE /\ history = FALSE
    /\ schema = 0 /\ notes = 0
    /\ prompts = <<>> /\ first = NoQuery /\ error = NoError /\ second = NoQuery
    /\ batch = <<>> /\ results = <<>>
    /\ answer = Silence
    /\ configured \in BOOLEAN
    /\ published = 0 /\ remembered = 0

-----------------------------------------------------------------------------
\* Mutant of RowCap: the deployment's limit holds for the default only.
RowCapOfCaller(rows) ==
    IF rows # NoRows THEN rows ELSE IF DefaultRows <= RowsLimit THEN DefaultRows ELSE RowsLimit

\* `_row_cap`: the caller's value, else the default, never above the limit.
RowCap(rows) ==
    LET wanted == IF rows = NoRows THEN DefaultRows ELSE rows
    IN  IF wanted <= RowsLimit THEN wanted ELSE RowsLimit

RowsAccepted(rows) == rows # NoRows => rows >= 1

\* Every call starts from nothing.
Fresh ==
    /\ prompts' = <<>> /\ first' = NoQuery /\ error' = NoError /\ second' = NoQuery
    /\ results' = <<>>
    /\ answer' = Silence

Generate(rows, execute, chat) ==
    /\ at = "idle"
    /\ RowsAccepted(rows)
    /\ at' = "schema"
    /\ cap' = RowCap(rows) /\ run' = execute /\ history' = chat
    /\ Fresh
    /\ UNCHANGED <<grounding, batch, world>>

BatchAccepted(queries) == queries # <<>> /\ Len(queries) <= MaxQueries

Execute(rows, queries) ==
    /\ at = "idle"
    /\ BatchAccepted(queries) /\ RowsAccepted(rows)
    /\ at' = "executing"
    /\ cap' = RowCap(rows) /\ batch' = queries
    /\ Fresh
    /\ UNCHANGED <<run, history, grounding, world>>

\* "Pass between 1 and 4 DAX queries.", "max_rows must be a positive number."
RejectInput ==
    /\ at = "idle"
    /\ \/ \E rows \in RowsWanted : ~ RowsAccepted(rows)
       \/ \E queries \in Batch : ~ BatchAccepted(queries)
    /\ answer' = Raised
    /\ UNCHANGED <<at, request, grounding, generation, execution, world>>

End(result) == at' = "idle" /\ answer' = result

\* Power BI or the note store fails before a query exists: the call raises.
GroundingFails ==
    /\ at \in {"schema", "notes"}
    /\ End(Raised)
    /\ UNCHANGED <<request, grounding, generation, execution, world>>

\* fetch_schema returns: what Power BI publishes now, or an older version it has cached.
SchemaKnown ==
    /\ at = "schema"
    /\ schema' \in 0..published
    /\ at' = "notes"
    /\ UNCHANGED <<request, notes, generation, execution, answer, world>>

(***************************************************************************)
(* notes_for returns and the Foundry deployment is asked, if there is one. *)
(***************************************************************************)
NotesKnown ==
    /\ at = "notes"
    /\ configured
    /\ notes' = remembered
    /\ prompts' = Append(prompts, [schema |-> schema, notes |-> notes', history |-> history])
    /\ at' = "generating"
    /\ UNCHANGED <<request, schema, first, error, second, execution, answer, world>>

NotConfigured ==
    /\ at = "notes"
    /\ ~ configured
    /\ End(Raised)
    /\ UNCHANGED <<request, grounding, generation, execution, world>>

-----------------------------------------------------------------------------
\* Mutant of Acceptable: a generated query is sent as it is.
AcceptableAll(q) == q \in Query

\* validate_dax.
Acceptable(q) == q \in Checked

\* The deployment wrote a query; without execute=true that is the answer.
Generated(q) ==
    /\ at = "generating"
    /\ Acceptable(q)
    /\ first' = q
    /\ IF run
       THEN at' = "running" /\ UNCHANGED answer
       ELSE End([kind |-> "dax", dax |-> q])
    /\ UNCHANGED <<request, grounding, prompts, error, second, execution, world>>

\* It failed, its answer was cut off, or the query breaks a constraint.
GenerationFails ==
    /\ at = "generating"
    /\ End(Raised)
    /\ UNCHANGED <<request, grounding, generation, execution, world>>

ResultOf(q, reply) == [of |-> q, cap |-> cap, body |-> reply.body]

\* `run.get` of a payload that is no object raises, outside of any try.
HasGet(reply) == reply.body # "array"

RowsArrive(reply) ==
    /\ at = "running"
    /\ Succeeds(reply) /\ HasGet(reply)
    /\ End([kind |-> "rows", dax |-> first, result |-> ResultOf(first, reply), repaired_after |-> NoError])
    /\ UNCHANGED <<request, grounding, generation, execution, world>>

\* In either run: the call raises, the query and the first error are lost.
NoObjectArrives(reply) ==
    /\ at \in {"running", "rerunning"}
    /\ Succeeds(reply) /\ ~ HasGet(reply)
    /\ End(Raised)
    /\ UNCHANGED <<request, grounding, generation, execution, world>>

\* Mutant of QueryFails: the notes are read again for the repair.
QueryFailsRereads(reply) ==
    /\ at = "running"
    /\ ~ Succeeds(reply)
    /\ error' = [kind |-> ToolErrorOf(reply), of |-> first]
    /\ prompts' = Append(prompts, [schema |-> schema, notes |-> remembered, history |-> FALSE])
    /\ at' = "repairing"
    /\ UNCHANGED <<request, grounding, first, second, execution, answer, world>>

(***************************************************************************)
(* Whatever the first run raised, the deployment is asked to repair the    *)
(* query: the prompt is built again from the schema and notes of this      *)
(* call, without the chat history, and ends with the error.                *)
(***************************************************************************)
QueryFails(reply) ==
    /\ at = "running"
    /\ ~ Succeeds(reply)
    /\ error' = [kind |-> ToolErrorOf(reply), of |-> first]
    /\ prompts' = Append(prompts, [schema |-> schema, notes |-> notes, history |-> FALSE])
    /\ at' = "repairing"
    /\ UNCHANGED <<request, grounding, first, second, execution, answer, world>>

Repaired(q) ==
    /\ at = "repairing"
    /\ Acceptable(q)
    /\ second' = q
    /\ at' = "rerunning"
    /\ UNCHANGED <<request, grounding, prompts, first, error, execution, answer, world>>

\* Mutant of BothErrors: the repair's own error is lost.
FirstErrorOnly(last) ==
    [kind |-> "errors", dax |-> first, execution_error |-> error, repair_error |-> NoError]

\* Both errors and the first query go to the caller.
BothErrors(last) ==
    [kind |-> "errors", dax |-> first, execution_error |-> error, repair_error |-> last]

\* No second query, whatever the reason: it is none of the hosted server's errors.
RepairFails ==
    /\ at = "repairing"
    /\ End(BothErrors([kind |-> "other", of |-> NoQuery]))
    /\ UNCHANGED <<request, grounding, generation, execution, world>>

\* Mutant of RowsArriveAgain: `result` keeps the query of the first attempt.
RowsArriveForFirst(reply) ==
    /\ at = "rerunning"
    /\ Succeeds(reply) /\ HasGet(reply)
    /\ End([kind |-> "rows", dax |-> first, result |-> ResultOf(second, reply), repaired_after |-> error])
    /\ UNCHANGED <<request, grounding, generation, execution, world>>

RowsArriveAgain(reply) ==
    /\ at = "rerunning"
    /\ Succeeds(reply) /\ HasGet(reply)
    /\ End([kind |-> "rows", dax |-> second, result |-> ResultOf(second, reply), repaired_after |-> error])
    /\ UNCHANGED <<request, grounding, generation, execution, world>>

\* Mutant of QueryFailsAgain: a failed repair is repaired again.
QueryFailsForEver(reply) ==
    /\ at = "rerunning"
    /\ ~ Succeeds(reply)
    /\ at' = "repairing" /\ second' = NoQuery
    /\ UNCHANGED <<request, grounding, prompts, first, error, execution, answer, world>>

QueryFailsAgain(reply) ==
    /\ at = "rerunning"
    /\ ~ Succeeds(reply)
    /\ End(BothErrors([kind |-> ToolErrorOf(reply), of |-> second]))
    /\ UNCHANGED <<request, grounding, generation, execution, world>>

-----------------------------------------------------------------------------
\* Mutant of Merged: the answers are put in front of one another.
MergedBackwards(all) ==
    IF Len(all) = 1
    THEN all
    ELSE [k \in DOMAIN all |-> all[Len(all) + 1 - k]]

HasTable(result) == result.body = "rows"

\* The tables of the results, in order: a result without one leaves no gap.
TablesOf(all) ==
    LET tables[k \in 0..Len(all)] ==
            IF k = 0 THEN <<>>
            ELSE IF HasTable(all[k]) THEN Append(tables[k - 1], all[k]) ELSE tables[k - 1]
    IN  tables[Len(all)]

\* One result as it is; of several, the tables.
Merged(all) == IF Len(all) = 1 THEN all ELSE TablesOf(all)

\* The results of several queries are merged by their keys; a single one is handed on unseen.
Mergeable(all) == Len(all) = 1 \/ \A k \in DOMAIN all : all[k].body # "array"

\* execute_dax: the next query's result arrives; after the last, all are answered.
TableArrives(reply) ==
    /\ at = "executing"
    /\ Succeeds(reply)
    /\ results' = Append(results, ResultOf(batch[Len(results) + 1], reply))
    /\ IF Len(results') = Len(batch)
       THEN End(IF Mergeable(results') THEN [kind |-> "tables", results |-> Merged(results')] ELSE Raised)
       ELSE UNCHANGED <<at, answer>>
    /\ UNCHANGED <<request, grounding, generation, batch, world>>

\* One query fails: the call raises, and the tables of the others are dropped.
ExecuteFails(reply) ==
    /\ at = "executing"
    /\ ~ Succeeds(reply)
    /\ End(Raised)
    /\ UNCHANGED <<request, grounding, generation, execution, world>>

Cancel ==
    /\ at # "idle"
    /\ End(Silence)
    /\ UNCHANGED <<request, grounding, generation, execution, world>>

\* Somebody publishes the model, remembers or forgets something about it.
Publish ==
    /\ published < MaxVersion
    /\ published' = published + 1
    /\ UNCHANGED <<at, request, grounding, generation, execution, answer, configured, remembered>>

Remember ==
    /\ remembered < MaxVersion
    /\ remembered' = remembered + 1
    /\ UNCHANGED <<at, request, grounding, generation, execution, answer, configured, published>>

-----------------------------------------------------------------------------
Proceed ==
    \/ SchemaKnown \/ NotesKnown \/ NotConfigured \/ GroundingFails
    \/ \E q \in Query : Generated(q) \/ Repaired(q)
    \/ GenerationFails \/ RepairFails
    \/ \E reply \in Reply :
          \/ RowsArrive(reply) \/ NoObjectArrives(reply) \/ QueryFails(reply)
          \/ RowsArriveAgain(reply) \/ QueryFailsAgain(reply)
          \/ TableArrives(reply) \/ ExecuteFails(reply)

Begin ==
    \/ \E rows \in RowsWanted \cup {NoRows} :
          \/ \E execute, chat \in BOOLEAN : Generate(rows, execute, chat)
          \/ \E queries \in Batch : Execute(rows, queries)
    \/ RejectInput

Next == Proceed \/ Begin \/ Cancel \/ Publish \/ Remember

Spec == Init /\ [][Next]_vars
FairSpec == Spec /\ WF_vars(Proceed)

-----------------------------------------------------------------------------
(***************************************************************************)
(* The parts of an answer belong together: rows are those of the query     *)
(* they are returned with, an execution error is about that query and the  *)
(* repair error about another attempt (gateway.py:304-325).  execute_dax   *)
(* answers at most one table per query, in the order of the queries        *)
(* (hosted_mcp.py:131-143).  And what is answered as data is data: a text  *)
(* in which the server describes a failure is an error wherever it arrives *)
(* (hosted_mcp.py:120-126), and the rows of generate_dax come from an      *)
(* object.                                                                 *)
(***************************************************************************)
AnswersAreConsistent ==
    /\ answer.kind = "rows" =>
          /\ answer.result.of = answer.dax
          /\ answer.result.body \in {"rows", "bare"}
          /\ answer.repaired_after # NoError => answer.repaired_after.of = first
          /\ answer.repaired_after = NoError => answer.dax = first
    /\ answer.kind = "errors" =>
          /\ answer.execution_error.of = answer.dax
          /\ answer.repair_error.of = second
    /\ answer.kind = "tables" =>
          /\ Len(answer.results) <= Len(batch)
          /\ \A k \in DOMAIN answer.results : answer.results[k].body \in {"rows", "bare", "array"}
          /\ \A k, l \in DOMAIN answer.results : k <= l =>
                \E i, j \in DOMAIN batch :
                   /\ i <= j /\ (k < l => i < j)
                   /\ answer.results[k].of = batch[i] /\ answer.results[l].of = batch[j]

(***************************************************************************)
(* A query the deployment wrote reaches the engine, or a caller, only when *)
(* validate_dax accepted it, the repaired one included; and no query of    *)
(* either tool asks for more rows than max_rows_limit (gateway.py:170-174).*)
(***************************************************************************)
OnlyCheckedQueriesRun ==
    /\ at = "running" => first \in Checked
    /\ at = "rerunning" => second \in Checked
    /\ answer.kind \in {"dax", "rows", "errors"} => answer.dax \in Checked
    /\ at \in {"running", "rerunning", "executing"} => cap <= RowsLimit

(***************************************************************************)
(* The repair works from the schema and the notes the query was written    *)
(* from, whatever was published or remembered in between, and there is one *)
(* repair at most (gateway.py:307-315).                                    *)
(***************************************************************************)
RepairKeepsGrounding ==
    /\ Len(prompts) <= 2
    /\ Len(prompts) = 2 =>
          /\ prompts[2].schema = prompts[1].schema
          /\ prompts[2].notes = prompts[1].notes

(***************************************************************************)
(* Every call is answered, whatever fails and however often the repair     *)
(* loop is entered (gateway.py:274-325).                                   *)
(***************************************************************************)
CallEnds == at # "idle" ~> at = "idle"

=============================================================================
