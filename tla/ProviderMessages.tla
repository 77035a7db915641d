-------------------------- MODULE ProviderMessages --------------------------
(***************************************************************************)
(* The conversation a provider worker keeps with its model                 *)
(* (evidence_eval/provider_worker.py): its messages, what each provider's  *)
(* request builder makes of them and which replies its parser accepts.     *)
(* A size counts a message as 1 and its text or an error in it as 1 more.  *)
(***************************************************************************)
EXTENDS Integers, Sequences, FiniteSets

CONSTANTS
  CallIds,      \* ids a provider gives to its tool calls
  Tools,        \* SUPPORTED_TOOL_METHODS
  Stop,         \* "stop_investigation"
  MaxCalls,     \* MAX_PROVIDER_TOOL_CALLS_PER_RESPONSE
  MaxMessages,  \* max_conversation_messages
  MaxChars      \* max_conversation_chars

ASSUME MessageAssumption ==
  /\ Stop \in Tools
  /\ "none" \notin CallIds
  /\ MaxCalls \in Nat \ {0} /\ MaxMessages \in Nat \ {0} /\ MaxChars \in Nat

Native == {"openai-responses", "google-gemini"}
Approved == {"openai-compatible"} \cup Native

\* Slip: the call's tool is not looked up.
BatchOfAnyTool(calls) ==
  /\ Len(calls) <= MaxCalls
  /\ \A i, j \in DOMAIN calls : calls[i].id = calls[j].id => i = j

\* _validate_tool_call_batch.
ValidBatch(calls) ==
  /\ Len(calls) <= MaxCalls
  /\ \A i \in DOMAIN calls : calls[i].name \in Tools
  /\ \A i, j \in DOMAIN calls : calls[i].id = calls[j].id => i = j

\* A response body: "broken" is any shape, status or size a parser refuses,
\* "truncated" one the provider has cut short, which only Responses looks at;
\* "signed" says whether Gemini's call carries its thoughtSignature.
ParsesCompatible(body) == body.shape # "broken" /\ ValidBatch(body.calls)
ParsesResponses(body)  == body.shape = "whole" /\ ValidBatch(body.calls)

\* Slip: Gemini is parsed like the others.
ParsesGeminiMany(body) == ParsesCompatible(body)

ParsesGemini(body) ==
  /\ body.shape # "broken"
  /\ Len(body.calls) <= 1
  /\ \A i \in DOMAIN body.calls : body.calls[i].name \in Tools
  /\ body.calls # <<>> => body.signed = "signed"

Parses(kind, body) ==
  CASE kind = "openai-compatible" -> ParsesCompatible(body)
    [] kind = "openai-responses"  -> ParsesResponses(body)
    [] kind = "google-gemini"     -> ParsesGemini(body)

-----------------------------------------------------------------------------
(* Messages.                                                               *)

NoId == "none"

Message(role, text, calls, id, outcome) ==
  [role |-> role, text |-> text, calls |-> calls, id |-> id, outcome |-> outcome]

Prompt             == Message("user", "text", <<>>, NoId, "none")
Assistant(reply)   == Message("assistant", reply.text, reply.calls, NoId, "none")
ToolResult(id, outcome) == Message("tool", "none", <<>>, id, outcome)

\* Slip: the rest of a batch is dropped after an error.
BlockUntilError(reply, results) ==
  LET bad == {i \in 1..Len(results) : results[i] = "error"}
      n   == IF bad = {} THEN Len(results) ELSE CHOOSE i \in bad : \A j \in bad : i <= j
  IN  <<Assistant(reply)>>
        \o [i \in 1..n |-> ToolResult(reply.calls[i].id, results[i])]

\* The messages one round adds: the calls, then one result for each.
Block(reply, results) ==
  <<Assistant(reply)>>
    \o [i \in 1..Len(reply.calls) |-> ToolResult(reply.calls[i].id, results[i])]

HasText(m) == IF m.role = "assistant" /\ m.text = "text" THEN 1 ELSE 0
HasError(m) == IF m.outcome = "error" THEN 1 ELSE 0

SumOver(f, n) ==
  LET sum[i \in 0..n] == IF i = 0 THEN 0 ELSE sum[i-1] + f[i] IN sum[n]

Size(ms) ==
  SumOver([i \in DOMAIN ms |-> 1 + HasText(ms[i]) + HasError(ms[i])], Len(ms))

\* _validate_provider_bounds.
WithinBounds(ms) == Len(ms) <= MaxMessages /\ Size(ms) <= MaxChars

\* len(_responses_input_items(messages)): text and calls are items apart.
ItemCount(ms) ==
  SumOver([i \in DOMAIN ms |-> IF ms[i].role = "assistant"
                               THEN HasText(ms[i]) + Len(ms[i].calls) ELSE 1],
          Len(ms))

Calls(m, id) == m.role = "assistant" /\ \E i \in DOMAIN m.calls : m.calls[i].id = id
Answers(m, id) == m.role = "tool" /\ m.id = id

\* The results of a conversation's tool messages, in their order.
ToolResults(ms) ==
  LET upTo[n \in 0..Len(ms)] ==
        IF n = 0 THEN <<>>
        ELSE IF ms[n].role = "tool"
             THEN Append(upTo[n-1], [id |-> ms[n].id, outcome |-> ms[n].outcome])
             ELSE upTo[n-1]
  IN  upTo[Len(ms)]

\* pending_call_ids after the first n messages.
Pending(ms, n) ==
  {id \in CallIds : \E i \in 1..n :
     Calls(ms[i], id) /\ \A k \in i+1..n : ~Answers(ms[k], id)}

\* _responses_input_items raises neither for an orphan nor for a missing result.
Paired(ms) ==
  /\ \A j \in 1..Len(ms) : ms[j].role = "tool" => ms[j].id \in Pending(ms, j-1)
  /\ Pending(ms, Len(ms)) = {}

\* The requests a conversation can be sent in; that the encoding of another
\* provider makes it too long is left to chance (Ask).
FitsCompatible(ms) == WithinBounds(ms)
FitsResponses(ms)  == WithinBounds(ms) /\ ItemCount(ms) <= MaxMessages
FitsGemini(contents) == contents # <<>> /\ Len(contents) <= MaxMessages
=============================================================================
