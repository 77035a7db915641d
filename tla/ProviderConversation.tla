------------------------ MODULE ProviderConversation ------------------------
(***************************************************************************)
(* The child process of a registered model (provider_worker.py): a batch   *)
(* authorizes its registration (execution_policy.py), the worker reads its *)
(* task, asks the provider, hands every tool call of the reply to the      *)
(* parent and waits for its result, adds the round to the conversation and *)
(* asks again, until a reply without calls, a successful stop or an error. *)
(* The Gemini transport keeps a history of its own beside the worker's.    *)
(***************************************************************************)
EXTENDS ProviderMessages

CONSTANTS
  MaxRounds,  \* max_rounds
  Script      \* the tools the mock transport calls, in order

ASSUME RoundAssumption == MaxRounds \in Nat \ {0} /\ Script \in Seq(Tools)

VARIABLES
  condition,  \* the trial's condition: transport, network, command
  batch,      \* the operator's side: --allow-network, credential, base URL
  env,        \* what the child's environment holds of it
  pc,         \* where the worker is
  cause,      \* why it failed
  rounds,     \* requests made
  messages,   \* the worker's conversation
  reply,      \* the reply whose calls are being dispatched
  results,    \* their results so far
  served,     \* the parent's log of the calls it has executed
  final,      \* the final message, or NoFinal
  native,     \* _native_contents
  pending     \* _pending_call

launchVars == <<condition, batch, env>>
roundVars  == <<rounds, messages, reply, results>>
nativeVars == <<native, pending>>
vars == <<launchVars, pc, cause, roundVars, served, final, nativeVars>>

NoReply == [text |-> "none", calls |-> <<>>]
NoFinal == [status |-> "none", requests |-> 0]
NoCall  == [id |-> NoId, name |-> "none"]

Conditions ==
  [transport : Approved \cup {"mock"}, network : {"required", "none"},
   command : {"approved", "other"}]

Required(cs) == {c \in cs : c.network = "required"}

\* validate_execution_authorization, validate_trusted_provider_command.
Authorized(cs, b) ==
  /\ \A c \in cs : c.transport \in Native => c.network = "required"
  /\ Required(cs) # {} <=> b.network = "allowed"
  /\ \A c \in Required(cs) : c.command = "approved" /\ c.transport \in Approved
  /\ Required(cs) # {} => b.credential = "set"

\* Slip: the child inherits the whole environment of the batch.
InheritedEnvironment(c, b) == [network |-> b.network, credential |-> b.credential]

\* _child_environment with live_environment_names.
ChildEnvironment(c, b) ==
  IF c.network = "required"
  THEN [network |-> "allowed", credential |-> b.credential]
  ELSE [network |-> "none", credential |-> "none"]

Go(from, to) == pc = from /\ pc' = to

Fail(why) == pc' = "failed" /\ cause' = why

\* _write_json_line of the final message, whose text may make it too long.
WriteFinal(status, n) ==
  \/ /\ final' = [status |-> status, requests |-> n]
     /\ pc' = "done"
     /\ UNCHANGED cause
  \/ Fail("too_long") /\ UNCHANGED final

-----------------------------------------------------------------------------
(* Start.                                                                  *)

\* run_pilot_batch, with any other condition in the registration.
Launch ==
  /\ pc = "launch"
  /\ \E other \in Conditions :
       IF Authorized({condition, other}, batch)
       THEN pc' = "task" /\ env' = ChildEnvironment(condition, batch)
       ELSE pc' = "refused" /\ UNCHANGED env
  /\ UNCHANGED <<condition, batch, cause, roundVars, served, final, nativeVars>>

\* main builds the transport, run_provider_worker reads and checks the task.
ReadTask ==
  /\ pc = "task"
  /\ \/ /\ condition.transport \in {"openai-compatible", "openai-responses"} =>
             batch.url = "set"
        /\ IF WithinBounds(<<Prompt>>)
           THEN pc' = "request" /\ messages' = <<Prompt>> /\ UNCHANGED cause
           ELSE Fail("bounds") /\ UNCHANGED messages
     \/ Fail("input") /\ UNCHANGED messages
  /\ UNCHANGED <<launchVars, rounds, reply, results, served, final, nativeVars>>

-----------------------------------------------------------------------------
(* Requests.                                                               *)

LastCalling(ms) ==
  LET calling == {i \in DOMAIN ms : ms[i].role = "assistant" /\ ms[i].calls # <<>>}
  IN  CHOOSE i \in calling : \A j \in calling : j <= i

\* _build_function_result finds the pending call and its result.
MatchesPending ==
  /\ pending # NoCall
  /\ messages[Len(messages)].role = "tool"
  /\ messages[Len(messages)].id = pending.id
  /\ LET calls == messages[LastCalling(messages)].calls
     IN  Len(calls) = 1 /\ calls[1].id = pending.id /\ calls[1].name = pending.name

Staged ==
  IF native = <<>> THEN messages ELSE Append(native, messages[Len(messages)])

Online == env.network = "allowed" /\ env.credential = "set"

\* Why each transport's request raises before anything is sent, or "sent".
RefusalCompatible ==
  IF ~Online THEN "launch"
  ELSE IF FitsCompatible(messages) THEN "sent" ELSE "transport_bounds"

RefusalResponses ==
  IF ~Online THEN "launch"
  ELSE IF ~Paired(messages) THEN "pairing"
  ELSE IF FitsResponses(messages) THEN "sent" ELSE "transport_bounds"

RefusalGemini ==
  IF ~Online \/ batch.url # "set" THEN "launch"
  ELSE IF native # <<>> /\ ~MatchesPending THEN "pairing"
  ELSE IF FitsGemini(Staged) THEN "sent" ELSE "transport_bounds"

Refusal ==
  CASE condition.transport = "openai-compatible" -> RefusalCompatible
    [] condition.transport = "openai-responses"  -> RefusalResponses
    [] condition.transport = "google-gemini"     -> RefusalGemini

RoundsLeft == rounds < MaxRounds

\* The loop's next round: the request is built and sent, unless its own
\* encoding makes it too long.
Ask ==
  /\ pc = "request"
  /\ condition.transport # "mock"
  /\ IF ~RoundsLeft THEN Fail("rounds") /\ UNCHANGED rounds
     ELSE /\ rounds' = rounds + 1
          /\ \/ IF Refusal = "sent" THEN pc' = "reply" /\ UNCHANGED cause ELSE Fail(Refusal)
             \/ Refusal = "sent" /\ Fail("too_long")
  /\ UNCHANGED <<launchVars, messages, reply, results, served, final, nativeVars>>

\* Slip: a final of the worker is not held back.
StopAnywhere(calls) == TRUE

\* "stop_investigation only as its final call".
StopLast(calls) == \A i \in DOMAIN calls : calls[i].name = Stop => i = Len(calls)

\* What the loop does with the calls of a parsed reply to its n-th request.
Receive(r, n) ==
  /\ reply' = r
  /\ IF r.calls = <<>> THEN WriteFinal("completed", n)
     ELSE /\ UNCHANGED final
          /\ IF StopLast(r.calls) THEN pc' = "call" /\ UNCHANGED cause
             ELSE Fail("provider")

Bodies ==
  LET Call == [id : CallIds, name : Tools \cup {"unknown"}]
  IN  [shape : {"whole", "truncated", "broken"}, text : {"none", "text"},
       signed : {"signed", "unsigned"},
       calls : UNION {[1..n -> Call] : n \in 0..MaxCalls+1}]

\* The provider answers within the timeout; its response is parsed.
ProviderReplies ==
  /\ pc = "reply"
  /\ \E body \in Bodies :
       IF Parses(condition.transport, body)
       THEN LET r == [text |-> body.text, calls |-> body.calls]
            IN  /\ Receive(r, rounds)
                /\ IF condition.transport = "google-gemini"
                   THEN /\ native' = Append(Staged, Assistant(r))
                        /\ pending' = IF r.calls = <<>> THEN NoCall ELSE r.calls[1]
                   ELSE UNCHANGED nativeVars
       ELSE Fail("provider") /\ UNCHANGED <<reply, final, nativeVars>>
  /\ UNCHANGED <<launchVars, rounds, messages, results, served>>

\* A timeout, an HTTP status or a connection error.
ProviderFails ==
  /\ pc = "reply"
  /\ Fail("unreachable")
  /\ UNCHANGED <<launchVars, roundVars, served, final, nativeVars>>

\* ScriptedMockTransport.request.
MockReplies ==
  /\ pc = "request"
  /\ condition.transport = "mock"
  /\ IF ~RoundsLeft THEN Fail("rounds") /\ UNCHANGED <<rounds, reply, final>>
     ELSE /\ rounds' = rounds + 1
          /\ IF rounds >= Len(Script)
             THEN Fail("provider") /\ UNCHANGED <<reply, final>>
             ELSE \E id \in CallIds :
                    Receive([text |-> "none",
                             calls |-> <<[id |-> id, name |-> Script[rounds + 1]]>>],
                            rounds + 1)
  /\ UNCHANGED <<launchVars, messages, results, served, nativeVars>>

-----------------------------------------------------------------------------
(* The calls of a reply, one at a time, and the parent's answers.          *)

\* _write_json_line of the next call, which may be too long.
WriteCall ==
  /\ pc = "call"
  /\ \/ pc' = "result" /\ UNCHANGED cause
     \/ Fail("too_long")
  /\ UNCHANGED <<launchVars, roundVars, served, final, nativeVars>>

\* The parent executes the call that it has read.
ParentServes ==
  /\ Go("result", "answered")
  /\ \E outcome \in {"ok", "error"} :
       served' = Append(served, [id |-> reply.calls[Len(results)+1].id,
                                 name |-> reply.calls[Len(results)+1].name,
                                 outcome |-> outcome])
  /\ UNCHANGED <<launchVars, cause, roundVars, final, nativeVars>>

ReadResult ==
  /\ pc = "answered"
  /\ results' = Append(results, served[Len(served)].outcome)
  /\ pc' = IF Len(results') = Len(reply.calls) THEN "settle" ELSE "call"
  /\ UNCHANGED <<launchVars, cause, rounds, messages, reply, served, final, nativeVars>>

\* The input ends, or its line is too long, no JSON or no result of this call.
ReadFails ==
  /\ pc \in {"result", "answered"}
  /\ Fail("input")
  /\ UNCHANGED <<launchVars, roundVars, served, final, nativeVars>>

StopDone ==
  /\ reply.calls[Len(reply.calls)].name = Stop
  /\ results[Len(results)] = "ok"

\* The round joins the conversation; the bounds come before the stop.
Settle ==
  /\ pc = "settle"
  /\ messages' = messages \o Block(reply, results)
  /\ IF ~WithinBounds(messages') THEN Fail("bounds") /\ UNCHANGED final
     ELSE IF StopDone THEN WriteFinal("stopped", rounds)
     ELSE pc' = "request" /\ UNCHANGED <<cause, final>>
  /\ results' = <<>>
  /\ UNCHANGED <<launchVars, rounds, reply, served, nativeVars>>

-----------------------------------------------------------------------------

Init ==
  /\ condition \in Conditions
  /\ batch \in [network : {"allowed", "none"}, credential : {"set", "none"},
                url : {"set", "none"}]
  /\ env = [network |-> "none", credential |-> "none"]
  /\ pc = "launch"
  /\ cause = "none"
  /\ rounds = 0
  /\ messages = <<>>
  /\ reply = NoReply
  /\ results = <<>>
  /\ served = <<>>
  /\ final = NoFinal
  /\ native = <<>>
  /\ pending = NoCall

Worker ==
  \/ Launch \/ ReadTask \/ Ask \/ MockReplies
  \/ WriteCall \/ ReadResult \/ Settle

Provider == ProviderReplies \/ ProviderFails
Parent   == ParentServes \/ ReadFails

Next == Worker \/ Provider \/ Parent

Spec == Init /\ [][Next]_vars

-----------------------------------------------------------------------------

CallType == [id : CallIds, name : Tools]

MessageType ==
  [role : {"user", "assistant", "tool"}, text : {"none", "text"},
   calls : Seq(CallType), id : CallIds \cup {NoId},
   outcome : {"none", "ok", "error"}]

\* The variables hold values of their types.
TypeOK ==
  /\ condition \in Conditions
  /\ batch \in [network : {"allowed", "none"}, credential : {"set", "none"},
                url : {"set", "none"}]
  /\ env \in [network : {"allowed", "none"}, credential : {"set", "none"}]
  /\ pc \in {"launch", "refused", "task", "request", "reply", "call", "result",
             "answered", "settle", "done", "failed"}
  /\ cause \in {"none", "input", "bounds", "launch", "transport_bounds",
                "pairing", "provider", "unreachable", "rounds", "too_long"}
  /\ rounds \in 0..MaxRounds
  /\ messages \in Seq(MessageType)
  /\ reply \in [text : {"none", "text"}, calls : Seq(CallType)]
  /\ results \in Seq({"ok", "error"})
  /\ served \in Seq([id : CallIds, name : Tools, outcome : {"ok", "error"}])
  /\ final \in [status : {"none", "completed", "stopped"}, requests : 0..MaxRounds]
  /\ native \in Seq(MessageType)
  /\ pending \in CallType \cup {NoCall}

-----------------------------------------------------------------------------
(* Safety.                                                                 *)

\* The results of the open round, and of the conversation with them.
OpenResults ==
  [i \in 1..Len(results) |-> [id |-> reply.calls[i].id, outcome |-> results[i]]]

Shown == ToolResults(messages) \o OpenResults

Logged == [i \in 1..Len(served) |-> [id |-> served[i].id, outcome |-> served[i].outcome]]

(* The model is told of every call the parent has executed, once and in    *)
(* the order of execution, before it is asked again, and no request is     *)
(* ever refused because a result has lost its call or a call its result,   *)
(* though ids may come back in later rounds (run_provider_worker,          *)
(* _responses_input_items, _build_function_result).  A conversation of few *)
(* enough messages for the worker is of too many for a transport only when *)
(* the Responses items of a text or of a batch outnumber its messages.     *)
ConversationFaithful ==
  /\ pc = "answered" => Shown = SubSeq(Logged, 1, Len(Logged) - 1)
  /\ pc \in {"request", "reply", "call", "settle", "done"} => Shown = Logged
  /\ cause # "pairing"
  /\ cause = "transport_bounds" =>
       /\ condition.transport = "openai-responses"
       /\ \E i \in 2..Len(messages) :
            messages[i].text = "text" \/ Len(messages[i].calls) > 1

(* The history Gemini's transport keeps is the worker's conversation, one  *)
(* turn ahead while a round is open and one result behind before the next  *)
(* request, and the call it waits for is the one being executed            *)
(* (_native_contents, _pending_call).                                      *)
NativeMirrors ==
  native # <<>> =>
    /\ pc = "request" => Staged = messages
    /\ pc \in {"call", "result", "answered", "settle"} =>
         /\ native = Append(messages, Assistant(reply))
         /\ reply.calls = <<pending>>

Stops == {i \in DOMAIN served : served[i].name = Stop /\ served[i].outcome = "ok"}

(* After a stop that succeeded nothing is executed and nothing is asked,   *)
(* and "stopped" is reported only if it was the last call: a batch cannot  *)
(* act behind its own stop (stop_indexes, the last check of the loop).     *)
NothingAfterStop ==
  /\ \A i \in Stops : i = Len(served)
  /\ Stops # {} => pc \in {"answered", "settle", "done", "failed"}
  /\ pc = "done" => (final.status = "stopped" <=> Stops # {}) /\ final.requests = rounds
  /\ pc # "done" => final = NoFinal

(* A request leaves the machine only for a condition that was registered   *)
(* as needing the network, runs the approved command, and whose batch was  *)
(* started with --allow-network and a credential: the environment of the   *)
(* child carries the parent's decision to the transport.                   *)
OnlyAuthorizedRequests ==
  pc = "reply" => /\ condition.network = "required" /\ condition.command = "approved"
                  /\ batch.network = "allowed" /\ batch.credential = "set"
=============================================================================
