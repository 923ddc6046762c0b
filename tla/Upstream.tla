------------------------------ MODULE Upstream ------------------------------
(***************************************************************************)
(* What one request to the hosted Power BI MCP server comes back as:       *)
(* HostedPowerBIMcp._rpc, call_tool and _call_structured (hosted_mcp.py),  *)
(* and the error a user is told of it, as_tool_error (gateway.py).         *)
(*                                                                         *)
(* The server itself is external.  A reply is its HTTP status, what its    *)
(* body turns out to hold, and whether the text in it has one of the       *)
(* REFUSAL_WORDS: the server "sometimes describes a refusal in prose".     *)
(***************************************************************************)
EXTENDS Naturals

\* One status for each way raise_for_http_status goes on.
Status == {200, 401, 403, 429, 503}

Body ==
    {"rows",        \* a JSON object with a table
     "array",       \* a text that is JSON and no object: an array, a number, null
     "bare",        \* a JSON object, or a result, without one
     "text",        \* a plain text
     "tool error",  \* isError is set
     "rpc error",   \* a JSON-RPC error
     "empty",       \* an event stream without data
     "garbled"}     \* no JSON, or no JSON-RPC response

\* A timeout, a connection that breaks: httpx raises.
NoReply == [status |-> 0, body |-> "garbled", words |-> FALSE]

Reply == [status : Status, body : Body, words : BOOLEAN] \cup {NoReply}

RefusedByStatus(reply) == reply.status \in {401, 403}
FailsByStatus(reply) == reply.status >= 400

\* Mutant of Payload: a plain text is handed on as if it were data.
PayloadOrText == {"rows", "bare", "array", "text"}

\* What _call_structured returns: any JSON that is no string, object or not; the rest it raises.
Payload == {"rows", "bare", "array"}

Succeeds(reply) == reply # NoReply /\ ~ FailsByStatus(reply) /\ reply.body \in Payload

\* A HostedMcpError, not an exception of httpx or json.
IsHostedError(reply) == reply # NoReply /\ (FailsByStatus(reply) \/ reply.body # "garbled")

\* The exception's message quotes the reply: the excerpt of an HTTP error, the server's own words.
IsQuoted(reply) ==
    IF FailsByStatus(reply)
    THEN reply.status \notin {401, 429}
    ELSE reply.body \in {"text", "tool error", "rpc error"}

\* The three texts a failed request is told as.
Told == {"refused", "error", "other"}

ToolErrorOf(reply) ==
    IF ~ IsHostedError(reply)
    THEN "other"
    ELSE IF RefusedByStatus(reply) \/ (reply.words /\ IsQuoted(reply)) THEN "refused" ELSE "error"

=============================================================================
