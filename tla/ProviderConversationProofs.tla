---------------------- MODULE ProviderConversationProofs ----------------------
(***************************************************************************)
(* What holds of a provider worker for any tools, ids, bounds and number   *)
(* of rounds.  A stop is the last call of its batch, so that its result    *)
(* is the last thing served before the round is settled (Round, StopKept); *)
(* the child's environment carries the authorization of its batch          *)
(* (Launched); and Gemini's history stays beside the worker's (Mirror).    *)
(* What the model is shown of the calls follows from how a round joins the *)
(* conversation: its calls have ids of their own and each gets its result  *)
(* (DistinctCalls, Told), so that calls and results stay paired.           *)
(***************************************************************************)
EXTENDS ProviderConversation, SequenceTheorems, NaturalsInduction, WellFoundedInduction,
        TLAPS

-----------------------------------------------------------------------------
(* The inductive invariant.                                                *)

\* A started child has the environment its authorized condition asks for.
Launched ==
  pc \notin {"launch", "refused"} =>
    /\ env = ChildEnvironment(condition, batch)
    /\ condition.network = "required" =>
         condition.command = "approved" /\ batch.network = "allowed" /\ batch.credential = "set"

\* A request is awaited only by a transport that was online.
Asked == pc = "reply" => condition.transport # "mock" /\ env.network = "allowed"

InRound == {"call", "result", "answered"}

\* The position in the open batch, and what the parent has served of it.
Round ==
  /\ pc \in InRound => Len(results) < Len(reply.calls)
  /\ pc \in InRound \cup {"settle"} => StopLast(reply.calls)
  /\ pc = "settle" => Len(results) = Len(reply.calls) /\ reply.calls # <<>>
  /\ pc \in {"launch", "task", "request", "reply"} => results = <<>>
  /\ pc = "answered" =>
       served # <<>> /\ served[Len(served)].name = reply.calls[Len(results)+1].name
  /\ pc = "settle" =>
       /\ served # <<>>
       /\ served[Len(served)].name = reply.calls[Len(reply.calls)].name
       /\ served[Len(served)].outcome = results[Len(results)]

StopAt(i) == served[i].name = Stop /\ served[i].outcome = "ok"

\* A successful stop is the last call served, and not before its answer.
StopKept ==
  /\ \A i \in 1..Len(served) : StopAt(i) => i = Len(served)
  /\ pc \in {"launch", "refused", "task", "request", "reply", "call", "result"} =>
       \A i \in 1..Len(served) : ~StopAt(i)

\* The final message, which only the last step writes.
FinalKept ==
  /\ pc = "done" => final.requests = rounds
  /\ pc = "done" => (final.status = "stopped" <=> \E i \in 1..Len(served) : StopAt(i))
  /\ pc # "done" => final = NoFinal

\* Gemini's history, before a request, while it is answered and in a round.
Mirror ==
  /\ condition.transport # "google-gemini" => native = <<>>
  /\ pc \in {"launch", "refused", "task"} => native = <<>>
  /\ native # <<>> =>
       /\ pc \in {"request", "reply"} => Staged = messages
       /\ pc \in InRound \cup {"settle"} =>
            native = Append(messages, Assistant(reply)) /\ reply.calls = <<pending>>

IInv == TypeOK /\ Launched /\ Asked /\ Round /\ StopKept /\ FinalKept /\ Mirror

USE MessageAssumption, RoundAssumption

-----------------------------------------------------------------------------
(* Types of what the actions put together.                                 *)

Reply == [text : {"none", "text"}, calls : Seq(CallType)]

\* A reply and the results of its calls are messages.
LEMMA MessagesType ==
  ASSUME NEW r \in Reply, NEW rs \in Seq({"ok", "error"}), Len(rs) = Len(r.calls)
  PROVE  /\ Assistant(r) \in MessageType
         /\ \A i \in 1..Len(r.calls) : ToolResult(r.calls[i].id, rs[i]) \in MessageType
<1>1. r.calls \in Seq(CallType) /\ r.text \in {"none", "text"}
  BY DEF Reply
<1>2. Assistant(r) \in MessageType
  BY <1>1 DEF Assistant, Message, MessageType
<1>3. ASSUME NEW i \in 1..Len(r.calls) PROVE ToolResult(r.calls[i].id, rs[i]) \in MessageType
  <2>1. r.calls[i] \in CallType /\ rs[i] \in {"ok", "error"}
    BY <1>1, <1>3
  <2>2. r.calls[i].id \in CallIds
    BY <2>1 DEF CallType
  <2>3. <<>> \in Seq(CallType)
    OBVIOUS
  <2> QED
    BY <2>1, <2>2, <2>3 DEF ToolResult, Message, MessageType
<1> QED
  BY <1>2, <1>3

\* The messages of a round are messages.
LEMMA BlockType ==
  ASSUME NEW r \in Reply, NEW rs \in Seq({"ok", "error"}), Len(rs) = Len(r.calls)
  PROVE  Block(r, rs) \in Seq(MessageType)
<1> DEFINE tail == [i \in 1..Len(r.calls) |-> ToolResult(r.calls[i].id, rs[i])]
<1>1. Len(r.calls) \in Nat
  BY DEF Reply
<1>2. tail \in Seq(MessageType)
  <2> HIDE DEF MessageType
  <2> QED
    BY <1>1, MessagesType
<1>3. <<Assistant(r)>> \in Seq(MessageType)
  BY MessagesType
<1> HIDE DEF tail
<1>4. <<Assistant(r)>> \o tail \in Seq(MessageType)
  BY <1>2, <1>3
<1> QED
  BY <1>4 DEF Block, tail

\* A sequence followed by two elements.
LEMMA TwoMore ==
  ASSUME NEW S, NEW s \in Seq(S), NEW a \in S, NEW b \in S
  PROVE  /\ s \o (<<a>> \o <<b>>) = Append(Append(s, a), b)
         /\ Append(Append(s, a), b)[Len(Append(Append(s, a), b))] = b
<1>1. <<a>> \in Seq(S) /\ <<b>> \in Seq(S) /\ Append(s, a) \in Seq(S)
  OBVIOUS
<1>2. s \o (<<a>> \o <<b>>) = (s \o <<a>>) \o <<b>>
  BY <1>1, ConcatAssociative
<1>3. s \o <<a>> = Append(s, a)
  BY AppendIsConcat
<1>4. Append(s, a) \o <<b>> = Append(Append(s, a), b)
  BY <1>1, AppendIsConcat
<1>5. Append(Append(s, a), b)[Len(Append(Append(s, a), b))] = b
  BY <1>1
<1> QED
  BY <1>2, <1>3, <1>4, <1>5

\* A count of at most one that is not none is one.
LEMMA OneAtMost ==
  ASSUME NEW n \in Nat, n <= 1, n # 0
  PROVE  n = 1
OBVIOUS

\* A batch of one call is that call.
LEMMA SingleCall ==
  ASSUME NEW S, NEW s \in Seq(S), Len(s) = 1
  PROVE  s = <<s[1]>>
<1>1. s[1] \in S /\ <<s[1]>> \in Seq(S)
  OBVIOUS
<1>2. Len(<<s[1]>>) = 1 /\ <<s[1]>>[1] = s[1]
  OBVIOUS
<1> QED
  BY <1>1, <1>2, SeqEqual

\* A parsed body has calls of known tools, one at most from Gemini.
LEMMA ParsedType ==
  ASSUME NEW kind \in Approved, NEW body \in Bodies, Parses(kind, body)
  PROVE  /\ [text |-> body.text, calls |-> body.calls] \in Reply
         /\ kind = "google-gemini" => Len(body.calls) <= 1
<1> DEFINE Call == [id : CallIds, name : Tools \cup {"unknown"}]
<1>1. body.text \in {"none", "text"} /\ \E n \in 0..MaxCalls+1 : body.calls \in [1..n -> Call]
  BY DEF Bodies
<1>2. PICK n \in 0..MaxCalls+1 : body.calls \in [1..n -> Call]
  BY <1>1
<1>3. Len(body.calls) = n /\ n \in Nat
  BY <1>2
<1>4. \A i \in DOMAIN body.calls : body.calls[i].name \in Tools
  BY DEF Parses, ParsesCompatible, ParsesResponses, ParsesGemini, ValidBatch, Approved, Native
<1>5. ASSUME NEW i \in 1..n PROVE body.calls[i] \in CallType
  <2>1. body.calls[i] \in Call
    BY <1>2, <1>5
  <2> QED
    BY <2>1, <1>2, <1>4, <1>5 DEF CallType
<1>6. body.calls \in Seq(CallType)
  <2> HIDE DEF Call
  <2>1. body.calls \in [1..n -> CallType]
    BY <1>2, <1>5
  <2> QED
    BY <2>1, <1>3
<1>7. kind = "google-gemini" => Len(body.calls) <= 1
  BY DEF Parses, ParsesGemini
<1> QED
  BY <1>1, <1>6, <1>7 DEF Reply

-----------------------------------------------------------------------------

\* The invariant holds before the launch.
LEMMA InitIInv == Init => IInv
<1> SUFFICES ASSUME Init PROVE IInv
  OBVIOUS
<1>1. TypeOK
  BY DEF Init, TypeOK, NoReply, NoFinal, NoCall
<1>2. Launched /\ Asked /\ Round /\ StopKept /\ FinalKept /\ Mirror
  BY DEF Init, Launched, Asked, Round, InRound, StopKept, FinalKept, Mirror
<1> QED
  BY <1>1, <1>2 DEF IInv

\* A worker that fails outside its last step keeps everything.
LEMMA FailKeeps ==
  ASSUME IInv, pc' = "failed", pc # "done",
         cause' \in {"input", "bounds", "launch", "transport_bounds",
                     "pairing", "provider", "unreachable", "rounds", "too_long"},
         rounds' \in 0..MaxRounds, messages' \in Seq(MessageType), reply' \in Reply,
         results' \in Seq({"ok", "error"}),
         pc \notin {"launch", "refused"},
         UNCHANGED <<launchVars, served, final, nativeVars>>
  PROVE  IInv'
<1>1. TypeOK'
  BY DEF IInv, TypeOK, launchVars, nativeVars, Reply
<1>2. Launched' /\ Asked' /\ Round' /\ FinalKept' /\ Mirror'
  BY DEF IInv, Launched, Asked, Round, InRound, FinalKept, Mirror, launchVars, nativeVars
<1>3. StopKept'
  BY DEF IInv, StopKept, StopAt
<1> QED
  BY <1>1, <1>2, <1>3 DEF IInv

-----------------------------------------------------------------------------
(* Start.                                                                  *)

\* A child is started for an authorized condition only.
LEMMA LaunchKeeps ==
  ASSUME IInv, Launch
  PROVE  IInv'
<1>1. pc = "launch" /\ UNCHANGED <<condition, batch, cause, roundVars, served, final, nativeVars>>
  BY DEF Launch
<1>2. PICK other \in Conditions :
        IF Authorized({condition, other}, batch)
        THEN pc' = "task" /\ env' = ChildEnvironment(condition, batch)
        ELSE pc' = "refused" /\ UNCHANGED env
  BY DEF Launch
<1>3. batch \in [network : {"allowed", "none"}, credential : {"set", "none"},
                 url : {"set", "none"}]
  BY DEF IInv, TypeOK
<1>4. env' \in [network : {"allowed", "none"}, credential : {"set", "none"}]
  BY <1>2, <1>3 DEF IInv, TypeOK, ChildEnvironment
<1>5. TypeOK'
  BY <1>1, <1>2, <1>4 DEF IInv, TypeOK, roundVars, nativeVars
<1>6. pc' # "refused" => Authorized({condition, other}, batch)
  BY <1>2
<1>7. Launched'
  BY <1>1, <1>2, <1>6 DEF Launched, Authorized, Required, ChildEnvironment
<1>8. Asked' /\ Round' /\ StopKept' /\ FinalKept' /\ Mirror'
  BY <1>1, <1>2 DEF IInv, Asked, Round, InRound, StopKept, StopAt, FinalKept, Mirror,
                    roundVars, nativeVars
<1> QED
  BY <1>5, <1>7, <1>8 DEF IInv

\* The conversation begins with the prompt.
LEMMA ReadTaskKeeps ==
  ASSUME IInv, ReadTask
  PROVE  IInv'
<1>1. pc = "task" /\ UNCHANGED <<launchVars, rounds, reply, results, served, final, nativeVars>>
  BY DEF ReadTask
<1>2. \/ pc' = "request" /\ messages' = <<Prompt>> /\ UNCHANGED cause
      \/ pc' = "failed" /\ cause' \in {"bounds", "input"} /\ UNCHANGED messages
  BY DEF ReadTask, Fail
<1>3. CASE pc' = "failed" /\ cause' \in {"bounds", "input"} /\ UNCHANGED messages
  <2>1. messages' \in Seq(MessageType) /\ rounds' \in 0..MaxRounds /\ reply' \in Reply
        /\ results' \in Seq({"ok", "error"})
    BY <1>1, <1>3 DEF IInv, TypeOK, Reply
  <2> QED
    BY <1>1, <1>3, <2>1, FailKeeps
<1>4. CASE pc' = "request" /\ messages' = <<Prompt>> /\ UNCHANGED cause
  <2>1. Prompt \in MessageType
    BY DEF Prompt, Message, MessageType
  <2>2. messages' \in Seq(MessageType)
    BY <1>4, <2>1
  <2>3. TypeOK'
    BY <1>1, <1>4, <2>2 DEF IInv, TypeOK, launchVars, nativeVars
  <2>4. Launched' /\ Asked' /\ Round' /\ StopKept' /\ FinalKept' /\ Mirror'
    BY <1>1, <1>4 DEF IInv, Launched, Asked, Round, InRound, StopKept, StopAt, FinalKept,
                      Mirror, launchVars, nativeVars
  <2> QED
    BY <2>3, <2>4 DEF IInv
<1> QED
  BY <1>2, <1>3, <1>4

-----------------------------------------------------------------------------
(* Requests and replies.                                                   *)

\* A request that is sent is of an online transport.
LEMMA SentOnline ==
  ASSUME Refusal = "sent", condition.transport \in Approved
  PROVE  env.network = "allowed"
BY DEF Refusal, RefusalCompatible, RefusalResponses, RefusalGemini, Online, Approved, Native

\* A refusal has one of the reasons.
LEMMA RefusalType ==
  ASSUME condition.transport \in Approved
  PROVE  Refusal \in {"sent", "launch", "transport_bounds", "pairing"}
BY DEF Refusal, RefusalCompatible, RefusalResponses, RefusalGemini, Approved, Native

\* Asking leaves the conversation alone.
LEMMA AskKeeps ==
  ASSUME IInv, Ask
  PROVE  IInv'
<1>1. /\ pc = "request" /\ condition.transport # "mock"
      /\ UNCHANGED <<launchVars, messages, reply, results, served, final, nativeVars>>
  BY DEF Ask
<1>2. condition.transport \in Approved
  BY <1>1 DEF IInv, TypeOK, Conditions
<1>3. rounds' \in 0..MaxRounds
  BY DEF Ask, IInv, TypeOK, RoundsLeft
<1>4. \/ pc' = "reply" /\ Refusal = "sent" /\ UNCHANGED cause
      \/ pc' = "failed" /\ cause' \in {"rounds", "too_long", "launch", "transport_bounds", "pairing"}
  BY <1>2, RefusalType DEF Ask, Fail
<1>5. CASE pc' = "failed" /\ cause' \in {"rounds", "too_long", "launch", "transport_bounds", "pairing"}
  <2>1. messages' \in Seq(MessageType) /\ reply' \in Reply
        /\ results' \in Seq({"ok", "error"})
    BY <1>1 DEF IInv, TypeOK, Reply
  <2> QED
    BY <1>1, <1>3, <1>5, <2>1, FailKeeps
<1>6. CASE pc' = "reply" /\ Refusal = "sent" /\ UNCHANGED cause
  <2>1. TypeOK'
    BY <1>1, <1>3, <1>6 DEF IInv, TypeOK, launchVars, nativeVars
  <2>2. Asked'
    BY <1>1, <1>2, <1>6, SentOnline DEF Asked, launchVars
  <2>3. Launched' /\ Round' /\ StopKept' /\ FinalKept'
    BY <1>1, <1>6 DEF IInv, Launched, Round, InRound, StopKept, StopAt, FinalKept, launchVars
  <2>4. Mirror'
    BY <1>1, <1>6 DEF IInv, Mirror, InRound, Staged, launchVars, nativeVars
  <2> QED
    BY <2>1, <2>2, <2>3, <2>4 DEF IInv
<1> QED
  BY <1>4, <1>5, <1>6

\* What Receive does to the reply, the position and the final message.
LEMMA ReceiveKeeps ==
  ASSUME IInv, NEW r \in Reply, NEW n \in 0..MaxRounds,
         pc \in {"request", "reply"}, rounds' = n, Receive(r, n),
         UNCHANGED <<launchVars, messages, results, served>>,
         native' \in Seq(MessageType), pending' \in CallType \cup {NoCall},
         condition.transport # "google-gemini" => native' = <<>>,
         native' # <<>> /\ r.calls # <<>> =>
           native' = Append(messages, Assistant(r)) /\ r.calls = <<pending'>>
  PROVE  IInv'
<1>1. reply' = r /\ results = <<>>
  BY DEF Receive, IInv, Round
<1>2. \/ pc' = "call" /\ r.calls # <<>> /\ StopLast(r.calls) /\ UNCHANGED <<cause, final>>
      \/ /\ pc' = "done" /\ r.calls = <<>> /\ UNCHANGED cause
         /\ final' = [status |-> "completed", requests |-> n]
      \/ pc' = "failed" /\ cause' \in {"provider", "too_long"} /\ UNCHANGED final
  BY DEF Receive, WriteFinal, Fail
<1>3. final' \in [status : {"none", "completed", "stopped"}, requests : 0..MaxRounds]
  BY <1>2 DEF IInv, TypeOK
<1>4. cause' \in {"none", "input", "bounds", "launch", "transport_bounds",
                  "pairing", "provider", "unreachable", "rounds", "too_long"}
  BY <1>2 DEF IInv, TypeOK
<1>5. TypeOK'
  BY <1>1, <1>2, <1>3, <1>4 DEF IInv, TypeOK, launchVars, Reply
<1>6. Launched' /\ Asked'
  BY <1>2 DEF IInv, Launched, Asked, launchVars
<1>7. Round'
  <2>1. r.calls # <<>> => 0 < Len(r.calls)
    BY DEF Reply
  <2>2. Len(results) = 0 /\ Len(results') = 0
    BY <1>1
  <2> QED
    BY <1>1, <1>2, <2>1, <2>2 DEF Round, InRound
<1>8. StopKept' /\ FinalKept'
  BY <1>2 DEF IInv, StopKept, FinalKept, StopAt
<1>9. Mirror'
  BY <1>1, <1>2 DEF IInv, Mirror, InRound, launchVars
<1> QED
  BY <1>5, <1>6, <1>7, <1>8, <1>9 DEF IInv

\* A reply joins Gemini's history when its calls are dispatched.
LEMMA RepliesKeep ==
  ASSUME IInv, ProviderReplies
  PROVE  IInv'
<1>1. pc = "reply" /\ UNCHANGED <<launchVars, rounds, messages, results, served>>
  BY DEF ProviderReplies
<1>2. condition.transport \in Approved
  BY <1>1 DEF IInv, TypeOK, Conditions, Asked
<1>3. PICK body \in Bodies :
        IF Parses(condition.transport, body)
        THEN LET r == [text |-> body.text, calls |-> body.calls]
             IN  /\ Receive(r, rounds)
                 /\ IF condition.transport = "google-gemini"
                    THEN /\ native' = Append(Staged, Assistant(r))
                         /\ pending' = IF r.calls = <<>> THEN NoCall ELSE r.calls[1]
                    ELSE UNCHANGED nativeVars
        ELSE Fail("provider") /\ UNCHANGED <<reply, final, nativeVars>>
  BY DEF ProviderReplies
<1>4. CASE ~Parses(condition.transport, body)
  <2>1. pc' = "failed" /\ cause' = "provider" /\ UNCHANGED <<reply, final, nativeVars>>
    BY <1>3, <1>4 DEF Fail
  <2>2. messages' \in Seq(MessageType) /\ rounds' \in 0..MaxRounds /\ reply' \in Reply
        /\ results' \in Seq({"ok", "error"})
    BY <1>1, <2>1 DEF IInv, TypeOK, Reply
  <2> QED
    BY <1>1, <2>1, <2>2, FailKeeps
<1>5. CASE Parses(condition.transport, body)
  <2> DEFINE r == [text |-> body.text, calls |-> body.calls]
  <2>1. r \in Reply /\ (condition.transport = "google-gemini" => Len(r.calls) <= 1)
    BY <1>2, <1>5, ParsedType
  <2>2. Receive(r, rounds)
        /\ IF condition.transport = "google-gemini"
           THEN /\ native' = Append(Staged, Assistant(r))
                /\ pending' = IF r.calls = <<>> THEN NoCall ELSE r.calls[1]
           ELSE UNCHANGED nativeVars
    BY <1>3, <1>5
  <2>3. r.calls \in Seq(CallType) /\ r.text \in {"none", "text"}
    BY <2>1 DEF Reply
  <2> HIDE DEF r
  <2>4. Staged = messages
    BY <1>1 DEF IInv, Mirror, Staged
  <2>5. messages \in Seq(MessageType) /\ Assistant(r) \in MessageType
    BY <2>3 DEF IInv, TypeOK, Assistant, Message, MessageType
  <2>6. native' \in Seq(MessageType) /\ pending' \in CallType \cup {NoCall}
    <3>1. CASE condition.transport = "google-gemini"
      <4>1. native' \in Seq(MessageType)
        BY <2>2, <2>4, <2>5, <3>1
      <4>2. r.calls # <<>> => r.calls[1] \in CallType
        BY <2>3
      <4> QED
        BY <2>2, <3>1, <4>1, <4>2
    <3>2. CASE condition.transport # "google-gemini"
      BY <2>2, <3>2 DEF IInv, TypeOK, nativeVars
    <3> QED
      BY <3>1, <3>2
  <2>7. condition.transport # "google-gemini" => native' = <<>>
    BY <2>2 DEF IInv, Mirror, nativeVars
  <2>10. r.calls # <<>> => Len(r.calls) # 0
    BY <2>3, EmptySeq
  <2>11. Len(r.calls) \in Nat
    BY <2>3
  <2>12. condition.transport = "google-gemini" /\ Len(r.calls) # 0 => Len(r.calls) = 1
    BY <2>1, <2>11, OneAtMost
  <2>8. native' # <<>> /\ r.calls # <<>> =>
          native' = Append(messages, Assistant(r)) /\ r.calls = <<pending'>>
    <3> SUFFICES ASSUME native' # <<>>, r.calls # <<>>
                 PROVE  native' = Append(messages, Assistant(r)) /\ r.calls = <<pending'>>
      OBVIOUS
    <3>1. condition.transport = "google-gemini"
      BY <2>7
    <3>2. pending' = r.calls[1] /\ native' = Append(messages, Assistant(r))
      BY <2>2, <2>4, <3>1
    <3>3. r.calls = <<r.calls[1]>>
      BY <2>3, <2>10, <2>12, <3>1, SingleCall
    <3> QED
      BY <3>2, <3>3
  <2>9. rounds \in 0..MaxRounds /\ rounds' = rounds
    BY <1>1 DEF IInv, TypeOK
  <2> QED
    BY <1>1, <2>1, <2>2, <2>6, <2>7, <2>8, <2>9, ReceiveKeeps
<1> QED
  BY <1>4, <1>5

\* The mock transport replies from its script, with one call at a time.
LEMMA MockKeeps ==
  ASSUME IInv, MockReplies
  PROVE  IInv'
<1>1. /\ pc = "request" /\ condition.transport = "mock"
      /\ UNCHANGED <<launchVars, messages, results, served, nativeVars>>
  BY DEF MockReplies
<1>2. rounds' \in 0..MaxRounds
  BY DEF MockReplies, IInv, TypeOK, RoundsLeft
<1>3. \/ pc' = "failed" /\ cause' \in {"rounds", "provider"} /\ UNCHANGED <<reply, final>>
      \/ \E id \in CallIds :
           /\ rounds < Len(Script)
           /\ rounds' = rounds + 1
           /\ Receive([text |-> "none",
                       calls |-> <<[id |-> id, name |-> Script[rounds + 1]]>>], rounds + 1)
  <2>1. rounds \in Nat /\ Len(Script) \in Nat
    BY DEF IInv, TypeOK
  <2>2. CASE ~RoundsLeft \/ rounds >= Len(Script)
    BY <2>2 DEF MockReplies, Fail
  <2>3. CASE RoundsLeft /\ ~(rounds >= Len(Script))
    <3>1. rounds < Len(Script)
      BY <2>1, <2>3
    <3>2. rounds' = rounds + 1
      BY <2>3 DEF MockReplies
    <3>3. \E id \in CallIds :
            Receive([text |-> "none",
                     calls |-> <<[id |-> id, name |-> Script[rounds + 1]]>>], rounds + 1)
      BY <2>3 DEF MockReplies
    <3> QED
      BY <3>1, <3>2, <3>3
  <2> QED
    BY <2>2, <2>3
<1>4. CASE pc' = "failed" /\ cause' \in {"rounds", "provider"} /\ UNCHANGED <<reply, final>>
  <2>1. messages' \in Seq(MessageType) /\ reply' \in Reply /\ results' \in Seq({"ok", "error"})
    BY <1>1, <1>4 DEF IInv, TypeOK, Reply
  <2> QED
    BY <1>1, <1>2, <1>4, <2>1, FailKeeps
<1>5. ASSUME NEW id \in CallIds, rounds < Len(Script), rounds' = rounds + 1,
             Receive([text |-> "none",
                      calls |-> <<[id |-> id, name |-> Script[rounds + 1]]>>], rounds + 1)
      PROVE  IInv'
  <2> DEFINE r == [text |-> "none", calls |-> <<[id |-> id, name |-> Script[rounds + 1]]>>]
  <2>1. Script[rounds + 1] \in Tools
    BY <1>5 DEF IInv, TypeOK
  <2>2. r \in Reply
    BY <2>1 DEF Reply, CallType
  <2>3. native = <<>> /\ native' = native /\ pending' = pending
    BY <1>1 DEF IInv, Mirror, nativeVars
  <2>4. native' \in Seq(MessageType) /\ pending' \in CallType \cup {NoCall}
    BY <2>3 DEF IInv, TypeOK
  <2>5. Receive(r, rounds')
    BY <1>5
  <2> HIDE DEF r
  <2> QED
    BY <1>1, <1>2, <2>2, <2>3, <2>4, <2>5, ReceiveKeeps
<1> QED
  BY <1>3, <1>4, <1>5

-----------------------------------------------------------------------------
(* The calls of a reply.                                                   *)

\* A failure in a round, with nothing else changed.
LEMMA RoundFails ==
  ASSUME IInv, pc \in InRound \cup {"reply"}, pc' = "failed",
         cause' \in {"input", "unreachable", "too_long"},
         UNCHANGED <<launchVars, roundVars, served, final, nativeVars>>
  PROVE  IInv'
<1>1. messages' \in Seq(MessageType) /\ rounds' \in 0..MaxRounds /\ reply' \in Reply
      /\ results' \in Seq({"ok", "error"})
  BY DEF IInv, TypeOK, Reply, roundVars
<1> QED
  BY <1>1, FailKeeps DEF InRound

\* The call is written and nothing else.
LEMMA WriteCallKeeps ==
  ASSUME IInv, WriteCall
  PROVE  IInv'
<1>1. pc = "call" /\ UNCHANGED <<launchVars, roundVars, served, final, nativeVars>>
  BY DEF WriteCall
<1>2. CASE pc' = "failed" /\ cause' = "too_long"
  BY <1>1, <1>2, RoundFails DEF InRound
<1>3. CASE pc' = "result" /\ UNCHANGED cause
  <2>1. TypeOK'
    BY <1>1, <1>3 DEF IInv, TypeOK, launchVars, roundVars, nativeVars
  <2>2. Launched' /\ Asked' /\ Round' /\ StopKept' /\ FinalKept'
    BY <1>1, <1>3 DEF IInv, Launched, Asked, Round, InRound, StopKept, StopAt, FinalKept,
                      launchVars, roundVars
  <2>3. Mirror'
    BY <1>1, <1>3 DEF IInv, Mirror, InRound, Staged, launchVars, roundVars, nativeVars
  <2> QED
    BY <2>1, <2>2, <2>3 DEF IInv
<1> QED
  BY <1>2, <1>3 DEF WriteCall, Fail

\* A stop that succeeds is the last call of its batch and the last served.
LEMMA ServesKeeps ==
  ASSUME IInv, ParentServes
  PROVE  IInv'
<1>1. /\ pc = "result" /\ pc' = "answered"
      /\ UNCHANGED <<launchVars, cause, roundVars, final, nativeVars>>
  BY DEF ParentServes, Go
<1> DEFINE next == reply.calls[Len(results)+1]
<1>2. PICK outcome \in {"ok", "error"} :
        served' = Append(served, [id |-> next.id, name |-> next.name, outcome |-> outcome])
  BY DEF ParentServes
<1>3. next \in CallType
  <2>1. Len(results) \in Nat /\ Len(results) < Len(reply.calls) /\ reply.calls \in Seq(CallType)
    BY <1>1 DEF IInv, TypeOK, Round, InRound
  <2> QED
    BY <2>1
<1> DEFINE entry == [id |-> next.id, name |-> next.name, outcome |-> outcome]
           Entries == [id : CallIds, name : Tools, outcome : {"ok", "error"}]
<1>4. entry \in Entries
  BY <1>3 DEF CallType
<1>5. served \in Seq(Entries)
  BY DEF IInv, TypeOK
<1>6. entry.name = next.name /\ entry.outcome = outcome
  OBVIOUS
<1>7. served' = Append(served, entry)
  BY <1>2
<1> HIDE DEF next, entry, Entries
<1>8. /\ served' \in Seq(Entries) /\ Len(served') = Len(served) + 1 /\ served' # <<>>
      /\ Len(served) \in Nat
      /\ served'[Len(served')] = entry /\ \A i \in 1..Len(served) : served'[i] = served[i]
  BY <1>4, <1>5, <1>7, AppendProperties
<1>9. TypeOK'
  BY <1>1, <1>8 DEF IInv, TypeOK, Entries, launchVars, roundVars, nativeVars
<1>10. Launched' /\ Asked' /\ FinalKept'
  BY <1>1 DEF IInv, Launched, Asked, FinalKept, launchVars
<1>11. Round'
  BY <1>1, <1>6, <1>8 DEF IInv, Round, InRound, next, roundVars
<1>12. StopKept'
  <2>1. \A i \in 1..Len(served) : ~StopAt(i)
    BY <1>1 DEF IInv, StopKept
  <2>2. \A i \in 1..Len(served) : ~(StopAt(i)')
    BY <2>1, <1>8 DEF StopAt
  <2>3. \A i \in 1..Len(served') : StopAt(i)' => i = Len(served')
    BY <2>2, <1>8
  <2> QED
    BY <2>3, <1>1 DEF StopKept
<1>13. Mirror'
  BY <1>1 DEF IInv, Mirror, InRound, launchVars, roundVars, nativeVars
<1> QED
  BY <1>9, <1>10, <1>11, <1>12, <1>13 DEF IInv

\* The batch is settled when every call has its result.
LEMMA ReadResultKeeps ==
  ASSUME IInv, ReadResult
  PROVE  IInv'
<1>1. /\ pc = "answered"
      /\ UNCHANGED <<launchVars, cause, rounds, messages, reply, served, final, nativeVars>>
      /\ results' = Append(results, served[Len(served)].outcome)
      /\ pc' = IF Len(results') = Len(reply.calls) THEN "settle" ELSE "call"
  BY DEF ReadResult
<1>2. /\ Len(results) \in Nat /\ Len(reply.calls) \in Nat /\ Len(results) < Len(reply.calls)
      /\ results \in Seq({"ok", "error"}) /\ reply.calls \in Seq(CallType)
      /\ served # <<>> /\ served[Len(served)].name = reply.calls[Len(results)+1].name
      /\ served[Len(served)].outcome \in {"ok", "error"} /\ Len(served) \in Nat \ {0}
      /\ StopLast(reply.calls)
  <2> DEFINE Entries == [id : CallIds, name : Tools, outcome : {"ok", "error"}]
  <2>1. served \in Seq(Entries)
    BY DEF IInv, TypeOK
  <2>2. served # <<>> /\ served[Len(served)].name = reply.calls[Len(results)+1].name
        /\ Len(results) < Len(reply.calls) /\ StopLast(reply.calls)
    BY <1>1 DEF IInv, Round, InRound
  <2>3. Len(served) \in Nat \ {0} /\ Len(served) \in DOMAIN served
    BY <2>1, <2>2
  <2>4. served[Len(served)] \in Entries
    <3> HIDE DEF Entries
    <3> QED
      BY <2>1, <2>3
  <2>5. results \in Seq({"ok", "error"}) /\ reply.calls \in Seq(CallType)
    BY DEF IInv, TypeOK
  <2> QED
    BY <2>2, <2>3, <2>4, <2>5
<1>3. results' \in Seq({"ok", "error"}) /\ Len(results') = Len(results) + 1
      /\ results'[Len(results')] = served[Len(served)].outcome
  BY <1>1, <1>2
<1>4. TypeOK'
  BY <1>1, <1>3 DEF IInv, TypeOK, launchVars, nativeVars
<1>5. Launched' /\ Asked' /\ FinalKept'
  BY <1>1 DEF IInv, Launched, Asked, FinalKept, launchVars
<1>6. Round'
  BY <1>1, <1>2, <1>3 DEF Round, InRound
<1>7. pc' = "call" => \A i \in 1..Len(served) : ~StopAt(i)
  <2> SUFFICES ASSUME pc' = "call", NEW i \in 1..Len(served), StopAt(i) PROVE FALSE
    OBVIOUS
  <2>1. i = Len(served)
    BY DEF IInv, StopKept
  <2>2. reply.calls[Len(results)+1].name = Stop
    BY <2>1, <1>2 DEF StopAt
  <2>3. Len(results) + 1 = Len(reply.calls)
    BY <2>2, <1>2 DEF StopLast
  <2> QED
    BY <2>3, <1>1, <1>3
<1>8. StopKept'
  BY <1>1, <1>7 DEF IInv, StopKept, StopAt
<1>9. Mirror'
  BY <1>1 DEF IInv, Mirror, InRound, launchVars, nativeVars
<1> QED
  BY <1>4, <1>5, <1>6, <1>8, <1>9 DEF IInv

\* What the last result of a settled batch says of its stop.
LEMMA SettledStop ==
  ASSUME IInv, pc = "settle"
  PROVE  StopDone <=> \E i \in 1..Len(served) : StopAt(i)
<1>1. /\ served # <<>> /\ Len(results) = Len(reply.calls)
      /\ served[Len(served)].name = reply.calls[Len(reply.calls)].name
      /\ served[Len(served)].outcome = results[Len(results)]
  BY DEF IInv, Round
<1>2. Len(served) \in Nat \ {0}
  BY <1>1, EmptySeq DEF IInv, TypeOK
<1>3. \A i \in 1..Len(served) : StopAt(i) => i = Len(served)
  BY DEF IInv, StopKept
<1>4. StopDone <=> StopAt(Len(served))
  BY <1>1 DEF StopDone, StopAt
<1>5. Len(served) \in 1..Len(served)
  BY <1>2
<1> QED
  BY <1>3, <1>4, <1>5

\* A round joins the conversation: the history is one result behind.
LEMMA SettleKeeps ==
  ASSUME IInv, Settle
  PROVE  IInv'
<1> DEFINE block == Block(reply, results)
<1>1. /\ pc = "settle" /\ messages' = messages \o block /\ results' = <<>>
      /\ UNCHANGED <<launchVars, rounds, reply, served, nativeVars>>
  BY DEF Settle
<1>2. \/ pc' = "failed" /\ cause' \in {"bounds", "too_long"} /\ UNCHANGED final
      \/ /\ pc' = "done" /\ StopDone /\ UNCHANGED cause
         /\ final' = [status |-> "stopped", requests |-> rounds]
      \/ pc' = "request" /\ ~StopDone /\ UNCHANGED <<cause, final>>
  BY DEF Settle, Fail, WriteFinal
<1>3. /\ reply \in Reply /\ results \in Seq({"ok", "error"}) /\ Len(results) = Len(reply.calls)
      /\ messages \in Seq(MessageType) /\ rounds \in 0..MaxRounds
  BY <1>1 DEF IInv, TypeOK, Reply, Round
<1>4. block \in Seq(MessageType)
  BY <1>3, BlockType
<1>5. messages' \in Seq(MessageType)
  <2> HIDE DEF block, MessageType
  <2> QED
    BY <1>1, <1>3, <1>4
<1>6. StopDone <=> \E i \in 1..Len(served) : StopAt(i)
  BY <1>1, SettledStop
<1>7. CASE pc' = "failed" /\ cause' \in {"bounds", "too_long"} /\ UNCHANGED final
  <2>1. rounds' \in 0..MaxRounds /\ reply' \in Reply /\ results' \in Seq({"ok", "error"})
    BY <1>1, <1>3
  <2> QED
    BY <1>1, <1>5, <1>7, <2>1, FailKeeps
<1>8. CASE pc' # "failed"
  <2>1. TypeOK'
    BY <1>1, <1>2, <1>3, <1>5, <1>8 DEF IInv, TypeOK, launchVars, nativeVars
  <2>2. Launched' /\ Asked' /\ Round'
    BY <1>1, <1>2, <1>8 DEF IInv, Launched, Asked, Round, InRound, launchVars
  <2>3. StopKept'
    <3>1. served' = served
      BY <1>1
    <3>2. pc' = "request" => ~StopDone
      BY <1>2
    <3>3. pc' \in {"done", "request"}
      BY <1>2, <1>8
    <3> QED
      BY <3>1, <3>2, <3>3, <1>6 DEF IInv, StopKept, StopAt
  <2>4. FinalKept'
    <3>1. CASE pc' = "done"
      <4>1. final'.status = "stopped" /\ final'.requests = rounds /\ StopDone
        BY <1>2, <3>1
      <4> QED
        BY <1>1, <1>6, <3>1, <4>1 DEF FinalKept, StopAt
    <3>2. CASE pc' = "request"
      BY <1>1, <1>2, <3>2 DEF IInv, FinalKept
    <3> QED
      BY <1>2, <1>8, <3>1, <3>2
  <2>5. Mirror'
    <3>1. pc' \in {"request", "done"}
      BY <1>2, <1>8
    <3>2. ASSUME native # <<>> PROVE Append(native, messages'[Len(messages')]) = messages'
      <4> DEFINE result == ToolResult(reply.calls[1].id, results[1])
      <4>1. native = Append(messages, Assistant(reply)) /\ reply.calls = <<pending>>
        BY <1>1, <3>2 DEF IInv, Mirror
      <4>2. Len(reply.calls) = 1
        BY <4>1
      <4>3. block = <<Assistant(reply)>> \o <<result>>
        <5>1. block = <<Assistant(reply)>>
                        \o [i \in 1..1 |-> ToolResult(reply.calls[i].id, results[i])]
          BY <4>2 DEF Block
        <5>2. [i \in 1..1 |-> ToolResult(reply.calls[i].id, results[i])] = <<result>>
          OBVIOUS
        <5> HIDE DEF block, result
        <5> QED
          BY <5>1, <5>2
      <4>4. Assistant(reply) \in MessageType /\ result \in MessageType
        BY <1>3, <4>2, MessagesType
      <4> HIDE DEF block, result, MessageType
      <4>5. messages' = messages \o (<<Assistant(reply)>> \o <<result>>)
        BY <1>1, <4>3
      <4>6. messages' = Append(Append(messages, Assistant(reply)), result)
            /\ messages'[Len(messages')] = result
        BY <1>3, <4>4, <4>5, TwoMore
      <4> QED
        BY <4>1, <4>6
    <3>3. native' # <<>> => Staged' = messages'
      BY <1>1, <3>2 DEF Staged, nativeVars
    <3> QED
      BY <1>1, <3>1, <3>3 DEF IInv, Mirror, InRound, launchVars, nativeVars
  <2> QED
    BY <2>1, <2>2, <2>3, <2>4, <2>5 DEF IInv
<1> QED
  BY <1>2, <1>7, <1>8

-----------------------------------------------------------------------------
(* Theorems.                                                               *)

\* Nothing changes in a stuttering step.
LEMMA StutterKeeps ==
  ASSUME IInv, UNCHANGED vars
  PROVE  IInv'
<1>1. TypeOK'
  BY DEF vars, launchVars, roundVars, nativeVars, IInv, TypeOK
<1>2. Launched' /\ Asked' /\ Round' /\ FinalKept'
  BY DEF vars, launchVars, roundVars, nativeVars, IInv, Launched, Asked, Round, FinalKept, StopAt
<1>3. StopKept'
  BY DEF vars, IInv, StopKept, StopAt
<1>4. Mirror'
  BY DEF vars, launchVars, roundVars, nativeVars, IInv, Mirror, Staged
<1> QED
  BY <1>1, <1>2, <1>3, <1>4 DEF IInv

\* The invariant is inductive.
LEMMA NextIInv == IInv /\ [Next]_vars => IInv'
<1> SUFFICES ASSUME IInv, [Next]_vars PROVE IInv'
  OBVIOUS
<1>1. CASE ProviderFails
  BY <1>1, RoundFails DEF ProviderFails, Fail
<1>2. CASE ReadFails
  BY <1>2, RoundFails DEF ReadFails, Fail, InRound
<1> QED
  BY <1>1, <1>2, StutterKeeps, LaunchKeeps, ReadTaskKeeps, AskKeeps, RepliesKeep, MockKeeps,
     WriteCallKeeps, ServesKeeps, ReadResultKeeps, SettleKeeps
  DEF Next, Worker, Provider, Parent

\* The invariant holds for any tools, ids, bounds and rounds.
THEOREM Invariance == Spec => []IInv
BY InitIInv, NextIInv, PTL DEF Spec

(* Every variable of the worker keeps its type: in particular the rounds   *)
(* stay within max_rounds and only calls of supported tools are served.    *)
THEOREM TypeCorrectness == Spec => []TypeOK
BY Invariance, PTL DEF IInv

(* OnlyAuthorizedRequests for any registration: no request is awaited      *)
(* without the network, the approved command and the credential.           *)
THEOREM OnlyAuthorizedRequestsAlways == Spec => []OnlyAuthorizedRequests
<1>1. IInv => OnlyAuthorizedRequests
  BY DEF IInv, Launched, Asked, ChildEnvironment, OnlyAuthorizedRequests
<1> QED
  BY <1>1, Invariance, PTL

(* NothingAfterStop for any batches and rounds: a stop that succeeds is    *)
(* the last call served and the last thing the model is asked for.         *)
THEOREM NothingAfterStopAlways == Spec => []NothingAfterStop
<1>1. IInv => NothingAfterStop
  <2> SUFFICES ASSUME IInv PROVE NothingAfterStop
    OBVIOUS
  <2>1. DOMAIN served = 1..Len(served)
    BY DEF IInv, TypeOK
  <2>2. Stops = {i \in 1..Len(served) : StopAt(i)}
    BY <2>1 DEF Stops, StopAt
  <2>3. pc \in {"launch", "refused", "task", "request", "reply", "call", "result",
               "answered", "settle", "done", "failed"}
    BY DEF IInv, TypeOK
  <2> QED
    BY <2>2, <2>3 DEF IInv, StopKept, FinalKept, NothingAfterStop
<1> QED
  BY <1>1, Invariance, PTL

(* NativeMirrors for any number of rounds: Gemini's own history never      *)
(* drifts from the worker's conversation, whatever ids the calls have.     *)
THEOREM NativeMirrorsAlways == Spec => []NativeMirrors
<1>1. IInv => NativeMirrors
  BY DEF IInv, Mirror, InRound, NativeMirrors
<1> QED
  BY <1>1, Invariance, PTL

-----------------------------------------------------------------------------
(* What the conversation counts and shows.  The library's induction needs  *)
(* an operator as its parameter, so facts about every prefix are proved    *)
(* from the least one that would violate them.                             *)

\* A set of naturals has a least element.
LEMMA LeastNat ==
  ASSUME NEW S \in SUBSET Nat, S # {}
  PROVE  \E m \in S : \A k \in S : m <= k
<1>1. PICK m \in S : \A k \in S : ~ (<<k, m>> \in OpToRel(<, Nat))
  BY NatLessThanWellFounded, WFMin
<1>2. \A k \in S : ~ (k < m)
  BY <1>1 DEF OpToRel
<1> QED
  BY <1>2

\* s is the function SumOver computes of f, up to n.
Sums(f, n, s) == s = [i \in 0..n |-> IF i = 0 THEN 0 ELSE s[i-1] + f[i]]

\* The function of the sums exists.
LEMMA SumsExist ==
  ASSUME NEW f, NEW n \in Nat
  PROVE  \E s : Sums(f, n, s)
<1> DEFINE S == {m \in Nat : ~ \E s : Sums(f, m, s)}
<1>1. SUFFICES ASSUME S # {} PROVE FALSE
  OBVIOUS
<1>2. PICK m \in S : \A k \in S : m <= k
  BY <1>1, LeastNat
<1>3. CASE m = 0
  <2> DEFINE s == [i \in 0..0 |-> 0]
  <2>1. Sums(f, 0, s)
    BY DEF Sums
  <2> QED
    BY <1>2, <1>3, <2>1
<1>4. CASE m # 0
  <2>1. m \in Nat /\ m - 1 \in Nat /\ ~(m <= m - 1)
    BY <1>4
  <2>2. PICK s : Sums(f, m - 1, s)
    BY <1>2, <2>1
  <2> DEFINE t == [i \in 0..m |-> IF i = m THEN s[m-1] + f[m] ELSE s[i]]
  <2>3. /\ \A i \in 0..m : i # m => i \in 0..m-1 /\ (i # 0 => i - 1 \in 0..m-1)
        /\ m - 1 \in 0..m-1
    BY <2>1
  <2>4. t[m] = s[m-1] + f[m] /\ \A i \in 0..m-1 : t[i] = s[i]
    BY <2>1
  <2>5. ASSUME NEW i \in 0..m PROVE t[i] = IF i = 0 THEN 0 ELSE t[i-1] + f[i]
    <3>1. CASE i = m
      BY <1>4, <2>3, <2>4, <3>1
    <3>2. CASE i # m
      <4>1. s[i] = IF i = 0 THEN 0 ELSE s[i-1] + f[i]
        BY <2>2, <2>3, <3>2 DEF Sums
      <4> QED
        BY <2>3, <2>4, <3>2, <4>1
    <3> QED
      BY <3>1, <3>2
  <2>6. Sums(f, m, t)
    <3>1. t = [i \in 0..m |-> t[i]]
      OBVIOUS
    <3> HIDE DEF t
    <3> QED
      BY <2>5, <3>1 DEF Sums
  <2> QED
    BY <1>2, <2>6
<1> QED
  BY <1>3, <1>4

\* A sum of n terms of at most one is at most n.
LEMMA SumAtMost ==
  ASSUME NEW f, NEW n \in Nat, \A i \in 1..n : f[i] \in Nat /\ f[i] <= 1
  PROVE  SumOver(f, n) \in Nat /\ SumOver(f, n) <= n
<1>1. PICK s : Sums(f, n, s) /\ SumOver(f, n) = s[n]
  <2>1. \E s : Sums(f, n, s)
    BY SumsExist
  <2> QED
    BY <2>1 DEF SumOver, Sums
<1> DEFINE S == {i \in Nat : i <= n /\ ~(s[i] \in Nat /\ s[i] <= i)}
<1>2. SUFFICES ASSUME S # {} PROVE FALSE
  BY <1>1
<1>3. PICK i \in S : \A j \in S : i <= j
  BY <1>2, LeastNat
<1>4. i \in 0..n
  BY <1>3
<1>5. s[i] = IF i = 0 THEN 0 ELSE s[i-1] + f[i]
  BY <1>1, <1>4 DEF Sums
<1>6. i # 0 => i - 1 \in Nat /\ i - 1 <= n /\ ~(i <= i - 1) /\ i \in 1..n
  BY <1>4
<1>7. i # 0 => s[i-1] \in Nat /\ s[i-1] <= i - 1 /\ f[i] \in Nat /\ f[i] <= 1
  BY <1>3, <1>6
<1> QED
  BY <1>3, <1>5, <1>6, <1>7

\* Messages of one item each are as many items as messages.
LEMMA FewItems ==
  ASSUME NEW ms \in Seq(MessageType), ms # <<>>, ms[1] = Prompt,
         \A i \in 2..Len(ms) : ms[i].text # "text" /\ Len(ms[i].calls) <= 1
  PROVE  ItemCount(ms) \in Nat /\ ItemCount(ms) <= Len(ms)
<1> DEFINE item(i) == IF ms[i].role = "assistant" THEN HasText(ms[i]) + Len(ms[i].calls) ELSE 1
           items == [i \in DOMAIN ms |-> item(i)]
<1>1. Len(ms) \in Nat /\ DOMAIN ms = 1..Len(ms)
  OBVIOUS
<1>2. ASSUME NEW i \in 1..Len(ms) PROVE items[i] \in Nat /\ items[i] <= 1
  <2>1. ms[i] \in MessageType
    BY <1>2
  <2>2. Len(ms[i].calls) \in Nat
    BY <2>1 DEF MessageType
  <2>3. items[i] = item(i)
    BY <1>1
  <2>4. CASE i = 1
    <3>1. ms[i].role = "user"
      BY <2>4 DEF Prompt, Message
    <3> QED
      BY <2>3, <3>1
  <2>5. CASE i # 1
    <3>1. i \in 2..Len(ms)
      BY <1>1, <2>5
    <3>2. HasText(ms[i]) = 0 /\ Len(ms[i].calls) <= 1
      BY <3>1 DEF HasText
    <3> QED
      BY <2>2, <2>3, <3>2
  <2> QED
    BY <2>4, <2>5
<1> HIDE DEF items
<1>3. SumOver(items, Len(ms)) \in Nat /\ SumOver(items, Len(ms)) <= Len(ms)
  BY <1>1, <1>2, SumAtMost
<1> QED
  BY <1>3 DEF ItemCount, items

-----------------------------------------------------------------------------
(* The results a conversation shows.                                       *)

ResultOf(m) == [id |-> m.id, outcome |-> m.outcome]

\* The entry f has for a message, after those before it.
Extended(ms, f, i) == IF ms[i].role = "tool" THEN Append(f[i-1], ResultOf(ms[i])) ELSE f[i-1]

\* f is the function ToolResults computes, up to the first n messages.
Prefixes(ms, n, f) == f = [i \in 0..n |-> IF i = 0 THEN <<>> ELSE Extended(ms, f, i)]

\* The function of the prefixes' results exists.
LEMMA PrefixesExist ==
  ASSUME NEW ms, NEW n \in Nat
  PROVE  \E f : Prefixes(ms, n, f)
<1> DEFINE S == {m \in Nat : ~ \E f : Prefixes(ms, m, f)}
<1>1. SUFFICES ASSUME S # {} PROVE FALSE
  OBVIOUS
<1>2. PICK m \in S : \A k \in S : m <= k
  BY <1>1, LeastNat
<1>3. CASE m = 0
  <2> DEFINE f == [i \in 0..0 |-> <<>>]
  <2>1. Prefixes(ms, 0, f)
    BY DEF Prefixes
  <2> QED
    BY <1>2, <1>3, <2>1
<1>4. CASE m # 0
  <2>1. m \in Nat /\ m - 1 \in Nat /\ ~(m <= m - 1)
    BY <1>4
  <2>2. PICK f : Prefixes(ms, m - 1, f)
    BY <1>2, <2>1
  <2> DEFINE g == [i \in 0..m |-> IF i = m THEN Extended(ms, f, m) ELSE f[i]]
  <2>3. /\ \A i \in 0..m : i # m => i \in 0..m-1 /\ (i # 0 => i - 1 \in 0..m-1)
        /\ m - 1 \in 0..m-1
    BY <2>1
  <2>4. g[m] = Extended(ms, f, m) /\ \A i \in 0..m-1 : g[i] = f[i]
    BY <2>1
  <2>5. ASSUME NEW i \in 0..m PROVE g[i] = IF i = 0 THEN <<>> ELSE Extended(ms, g, i)
    <3> HIDE DEF g
    <3>1. i # 0 => Extended(ms, g, i) = Extended(ms, f, i)
      BY <2>3, <2>4 DEF Extended
    <3>2. CASE i = m
      BY <1>4, <2>4, <3>1, <3>2
    <3>3. CASE i # m
      <4>1. f[i] = IF i = 0 THEN <<>> ELSE Extended(ms, f, i)
        BY <2>2, <2>3, <3>3 DEF Prefixes
      <4> QED
        BY <2>3, <2>4, <3>1, <3>3, <4>1
    <3> QED
      BY <3>2, <3>3
  <2>6. Prefixes(ms, m, g)
    <3>1. g = [i \in 0..m |-> g[i]]
      OBVIOUS
    <3> HIDE DEF g
    <3> QED
      BY <2>5, <3>1 DEF Prefixes
  <2> QED
    BY <1>2, <2>6
<1> QED
  BY <1>3, <1>4

\* ToolResults is the last value of that function.
LEMMA ToolResultsPrefixes ==
  ASSUME NEW ms, Len(ms) \in Nat
  PROVE  \E f : Prefixes(ms, Len(ms), f) /\ ToolResults(ms) = f[Len(ms)]
<1>1. \E f : Prefixes(ms, Len(ms), f)
  BY PrefixesExist
<1> QED
  BY <1>1 DEF ToolResults, Prefixes, Extended, ResultOf

\* Two computations agree as far as their conversations do.
LEMMA SamePrefixes ==
  ASSUME NEW ms, NEW ns, NEW n \in Nat, NEW m \in Nat, n <= m, NEW f, NEW g,
         Prefixes(ms, n, f), Prefixes(ns, m, g), \A i \in 1..n : ns[i] = ms[i]
  PROVE  g[n] = f[n]
<1> DEFINE S == {i \in Nat : i <= n /\ g[i] # f[i]}
<1>1. SUFFICES ASSUME S # {} PROVE FALSE
  OBVIOUS
<1>2. PICK i \in S : \A j \in S : i <= j
  BY <1>1, LeastNat
<1>3. i \in 0..n /\ i \in 0..m
  BY <1>2
<1>4. /\ f[i] = IF i = 0 THEN <<>> ELSE Extended(ms, f, i)
      /\ g[i] = IF i = 0 THEN <<>> ELSE Extended(ns, g, i)
  BY <1>3 DEF Prefixes
<1>5. i # 0 => i - 1 \in Nat /\ i - 1 <= n /\ ~(i <= i - 1) /\ i \in 1..n
  BY <1>2
<1>6. i # 0 => g[i-1] = f[i-1] /\ ns[i] = ms[i]
  BY <1>2, <1>5
<1> QED
  BY <1>2, <1>4, <1>6 DEF Extended

\* ns is ms with the messages of a round behind it.
Continues(ns, ms, r, rs) ==
  /\ ns \in Seq(MessageType)
  /\ Len(ns) = Len(ms) + 1 + Len(r.calls)
  /\ \A i \in 1..Len(ms) : ns[i] = ms[i]
  /\ ns[Len(ms) + 1] = Assistant(r)
  /\ \A i \in 1..Len(r.calls) : ns[Len(ms) + 1 + i] = ToolResult(r.calls[i].id, rs[i])

\* A round is appended as it stands.
LEMMA BlockMessages ==
  ASSUME NEW ms \in Seq(MessageType), NEW r \in Reply, NEW rs \in Seq({"ok", "error"}),
         Len(rs) = Len(r.calls)
  PROVE  Continues(ms \o Block(r, rs), ms, r, rs)
<1> DEFINE k == Len(r.calls)
           tail == [i \in 1..k |-> ToolResult(r.calls[i].id, rs[i])]
           block == Block(r, rs)
           ns == ms \o block
<1>1. k \in Nat /\ Len(ms) \in Nat
  BY DEF Reply
<1>2. tail \in Seq(MessageType) /\ Len(tail) = k
  <2>1. Len(tail) = k
    BY <1>1
  <2> HIDE DEF MessageType
  <2> QED
    BY <1>1, <2>1, MessagesType
<1>3. <<Assistant(r)>> \in Seq(MessageType) /\ block \in Seq(MessageType)
  BY MessagesType, BlockType
<1>4. block = <<Assistant(r)>> \o tail
  BY DEF Block
<1>5. \A i \in 1..k : tail[i] = ToolResult(r.calls[i].id, rs[i])
  OBVIOUS
<1>6. ns = ms \o block
  OBVIOUS
<1> HIDE DEF tail, block, ns
<1>7. /\ Len(block) = 1 + k /\ block[1] = Assistant(r)
      /\ \A i \in 1..k : block[1 + i] = tail[i]
  <2> HIDE DEF MessageType, k
  <2>1. Len(<<Assistant(r)>>) = 1 /\ <<Assistant(r)>>[1] = Assistant(r)
    OBVIOUS
  <2> QED
    BY <1>1, <1>2, <1>3, <1>4, <2>1, ConcatProperties
<1>8. /\ ns \in Seq(MessageType) /\ Len(ns) = Len(ms) + Len(block)
      /\ \A i \in 1..Len(ns) : ns[i] = IF i <= Len(ms) THEN ms[i] ELSE block[i - Len(ms)]
  <2> HIDE DEF MessageType
  <2> QED
    BY <1>3, <1>6, ConcatProperties
<1>9. Len(ns) = Len(ms) + 1 + k
  <2>1. Len(ns) = Len(ms) + Len(block) /\ Len(block) = 1 + k
    BY <1>7, <1>8
  <2> HIDE DEF k
  <2> QED
    BY <1>1, <2>1
<1>10. \A i \in 1..Len(ms) : ns[i] = ms[i]
  <2>1. \A i \in 1..Len(ms) : i \in 1..Len(ns) /\ i <= Len(ms)
    <3> HIDE DEF k
    <3> QED
      BY <1>1, <1>9
  <2> QED
    BY <1>8, <2>1
<1>11. ns[Len(ms) + 1] = Assistant(r)
  <2>1. /\ Len(ms) + 1 \in 1..Len(ns) /\ ~(Len(ms) + 1 <= Len(ms))
        /\ (Len(ms) + 1) - Len(ms) = 1
    BY <1>1, <1>7, <1>8
  <2> QED
    BY <1>7, <1>8, <2>1
<1>12. \A i \in 1..k : ns[Len(ms) + 1 + i] = ToolResult(r.calls[i].id, rs[i])
  <2> SUFFICES ASSUME NEW i \in 1..k
               PROVE  ns[Len(ms) + 1 + i] = ToolResult(r.calls[i].id, rs[i])
    OBVIOUS
  <2>1. /\ Len(ms) + 1 + i \in 1..Len(ns) /\ ~(Len(ms) + 1 + i <= Len(ms))
        /\ (Len(ms) + 1 + i) - Len(ms) = 1 + i
    BY <1>1, <1>7, <1>8
  <2> QED
    BY <1>5, <1>7, <1>8, <2>1
<1> QED
  BY <1>8, <1>9, <1>10, <1>11, <1>12 DEF Continues, ns, block

\* What ToolResults gives is a sequence.
LEMMA ToolResultsType ==
  ASSUME NEW ms \in Seq(MessageType)
  PROVE  ToolResults(ms) \in Seq({ResultOf(m) : m \in MessageType})
<1> DEFINE T == {ResultOf(m) : m \in MessageType}
           n == Len(ms)
<1>1. n \in Nat /\ \A i \in 1..n : ResultOf(ms[i]) \in T
  OBVIOUS
<1>2. PICK f : Prefixes(ms, n, f) /\ ToolResults(ms) = f[n]
  BY <1>1, ToolResultsPrefixes
<1> HIDE DEF T, n
<1> DEFINE S == {i \in Nat : i <= n /\ f[i] \notin Seq(T)}
<1>3. S = {}
  <2>1. SUFFICES ASSUME S # {} PROVE FALSE
    OBVIOUS
  <2>2. PICK i \in S : \A j \in S : i <= j
    BY <2>1, LeastNat
  <2>3. i \in 0..n
    BY <1>1, <2>2
  <2>4. f[i] = IF i = 0 THEN <<>> ELSE Extended(ms, f, i)
    BY <1>2, <2>3 DEF Prefixes
  <2>5. i # 0 => i - 1 \in Nat /\ i - 1 <= n /\ ~(i <= i - 1) /\ i \in 1..n
    BY <2>3, <1>1
  <2>6. i # 0 => f[i-1] \in Seq(T) /\ ResultOf(ms[i]) \in T
    BY <1>1, <2>2, <2>5
  <2>7. CASE i = 0
    <3>1. <<>> \in Seq(T)
      OBVIOUS
    <3> QED
      BY <2>2, <2>4, <2>7, <3>1
  <2>8. CASE i # 0
    <3>1. Append(f[i-1], ResultOf(ms[i])) \in Seq(T)
      BY <2>6, <2>8
    <3> QED
      BY <2>2, <2>4, <2>6, <2>8, <3>1 DEF Extended
  <2> QED
    BY <2>7, <2>8
<1>4. f[n] \in Seq(T)
  BY <1>1, <1>3
<1> QED
  BY <1>2, <1>4 DEF T

\* Neither an empty conversation nor a prompt shows a result.
LEMMA NoToolResults == ToolResults(<<>>) = <<>> /\ ToolResults(<<Prompt>>) = <<>>
<1>1. ToolResults(<<>>) = <<>>
  <2>1. PICK f : Prefixes(<<>>, 0, f) /\ ToolResults(<<>>) = f[0]
    BY ToolResultsPrefixes
  <2> QED
    BY <2>1 DEF Prefixes
<1>2. ToolResults(<<Prompt>>) = <<>>
  <2> DEFINE ms == <<Prompt>>
  <2>1. Len(ms) = 1 /\ Len(ms) \in Nat /\ ms[1].role = "user"
    BY DEF Prompt, Message
  <2> HIDE DEF ms
  <2>2. PICK f : Prefixes(ms, Len(ms), f) /\ ToolResults(ms) = f[Len(ms)]
    BY <2>1, ToolResultsPrefixes
  <2>3. f[0] = <<>> /\ f[1] = Extended(ms, f, 1)
    BY <2>1, <2>2 DEF Prefixes
  <2>4. f[1] = f[0]
    BY <2>1, <2>3 DEF Extended
  <2> QED
    BY <2>1, <2>2, <2>3, <2>4 DEF ms
<1> QED
  BY <1>1, <1>2

Result(r, rs, i) == [id |-> r.calls[i].id, outcome |-> rs[i]]

\* The results of the first n calls of a round.
Results(r, rs, n) == [i \in 1..n |-> Result(r, rs, i)]

\* One more result.
Grows(s, r, rs, n) ==
  Append(s \o Results(r, rs, n-1), Result(r, rs, n)) = s \o Results(r, rs, n)

LEMMA MoreResults ==
  ASSUME NEW T, NEW s \in Seq(T), NEW n \in Nat \ {0}, NEW r, NEW rs,
         \A i \in 1..n : Result(r, rs, i) \in T
  PROVE  Grows(s, r, rs, n)
<1> DEFINE a == Results(r, rs, n-1)
           b == Results(r, rs, n)
           e == Result(r, rs, n)
<1>1. a \in Seq(T) /\ Len(a) = n - 1 /\ e \in T
  BY DEF Results
<1>2. b \in Seq(T) /\ Append(a, e) \in Seq(T) /\ Len(b) = n /\ Len(Append(a, e)) = n
  BY <1>1 DEF Results
<1>3. \A i \in 1..n : Append(a, e)[i] = b[i]
  BY <1>1 DEF Results
<1>4. Append(a, e) = b
  <2> HIDE DEF a, b, e
  <2> QED
    BY <1>2, <1>3, SeqEqual
<1> HIDE DEF a, b, e
<1>5. <<e>> \in Seq(T) /\ Append(a, e) = a \o <<e>>
  BY <1>1
<1>6. s \o (a \o <<e>>) = (s \o a) \o <<e>> /\ s \o a \in Seq(T)
  BY <1>1, <1>5, ConcatAssociative
<1>7. (s \o a) \o <<e>> = Append(s \o a, e)
  BY <1>1, <1>6, AppendIsConcat
<1> QED
  BY <1>4, <1>5, <1>6, <1>7 DEF Grows, a, b, e

\* The results of a round follow those of the rounds before it.
LEMMA BlockResults ==
  ASSUME NEW ms \in Seq(MessageType), NEW r \in Reply, NEW rs \in Seq({"ok", "error"}),
         Len(rs) = Len(r.calls)
  PROVE  ToolResults(ms \o Block(r, rs)) = ToolResults(ms) \o Results(r, rs, Len(r.calls))
<1> DEFINE k == Len(r.calls)
           L == Len(ms)
           ns == ms \o Block(r, rs)
           T == {ResultOf(m) : m \in MessageType}
           shown == ToolResults(ms)
<1>1. /\ L \in Nat /\ k \in Nat /\ Len(ns) = L + 1 + k
      /\ \A i \in 1..L : ns[i] = ms[i]
      /\ ns[L + 1] = Assistant(r)
      /\ \A i \in 1..k : ns[L + 1 + i] = ToolResult(r.calls[i].id, rs[i])
  <2>1. Continues(ns, ms, r, rs)
    BY BlockMessages
  <2>2. L \in Nat /\ k \in Nat
    BY DEF Reply
  <2> HIDE DEF ns
  <2> QED
    BY <2>1, <2>2 DEF Continues
<1>2. shown \in Seq(T)
  BY ToolResultsType
<1>3. \A i \in 1..k : Result(r, rs, i) \in T
  <2> SUFFICES ASSUME NEW i \in 1..k PROVE Result(r, rs, i) \in T
    OBVIOUS
  <2> DEFINE m == ToolResult(r.calls[i].id, rs[i])
  <2>1. m \in MessageType
    BY MessagesType
  <2>2. Result(r, rs, i) = ResultOf(m)
    BY DEF Result, ResultOf, ToolResult, Message
  <2> HIDE DEF m
  <2> QED
    BY <2>1, <2>2
<1>4. PICK f : Prefixes(ms, L, f) /\ shown = f[L]
  BY <1>1, ToolResultsPrefixes
<1> HIDE DEF ns, k, L, T
<1>5. PICK g : Prefixes(ns, L + 1 + k, g) /\ ToolResults(ns) = g[L + 1 + k]
  <2>1. Len(ns) \in Nat
    BY <1>1
  <2> QED
    BY <1>1, <2>1, ToolResultsPrefixes
<1>6. g[L] = shown
  <2>1. L + 1 + k \in Nat /\ L <= L + 1 + k
    BY <1>1
  <2> QED
    BY <1>1, <1>4, <1>5, <2>1, SamePrefixes
<1>7. g[L + 1] = shown
  <2>1. L + 1 \in 0..L+1+k /\ L + 1 # 0 /\ (L + 1) - 1 = L
    BY <1>1
  <2>2. g[L + 1] = Extended(ns, g, L + 1)
    BY <1>5, <2>1 DEF Prefixes
  <2>3. ns[L + 1].role = "assistant"
    BY <1>1 DEF Assistant, Message
  <2> QED
    BY <1>6, <2>1, <2>2, <2>3 DEF Extended
<1> HIDE DEF shown
<1> DEFINE S == {n \in Nat : n <= k /\ g[L + 1 + n] # shown \o Results(r, rs, n)}
<1>8. S = {}
  <2>1. SUFFICES ASSUME S # {} PROVE FALSE
    OBVIOUS
  <2>2. PICK n \in S : \A j \in S : n <= j
    BY <2>1, LeastNat
  <2>3. n \in Nat /\ n <= k
    BY <2>2
  <2>4. CASE n = 0
    <3>1. Results(r, rs, 0) = <<>>
      BY DEF Results
    <3>2. shown \o <<>> = shown
      BY <1>2
    <3>3. L + 1 + n = L + 1
      BY <1>1, <2>4
    <3> QED
      BY <1>7, <2>2, <2>4, <3>1, <3>2, <3>3
  <2>5. CASE n # 0
    <3>1. /\ n - 1 \in Nat /\ n - 1 <= k /\ ~(n <= n - 1) /\ n \in 1..k
          /\ L + 1 + n \in 0..L+1+k /\ L + 1 + n # 0 /\ (L + 1 + n) - 1 = L + 1 + (n - 1)
      <4>1. L \in Nat /\ k \in Nat
        BY <1>1
      <4> HIDE DEF S
      <4> QED
        BY <2>3, <2>5, <4>1
    <3>2. g[L + 1 + (n - 1)] = shown \o Results(r, rs, n - 1)
      BY <2>2, <3>1
    <3>3. g[L + 1 + n] = Extended(ns, g, L + 1 + n)
      BY <1>5, <3>1 DEF Prefixes
    <3>4. ns[L + 1 + n].role = "tool" /\ ResultOf(ns[L + 1 + n]) = Result(r, rs, n)
      <4>1. ns[L + 1 + n] = ToolResult(r.calls[n].id, rs[n])
        BY <1>1, <3>1
      <4> QED
        BY <4>1 DEF Result, ToolResult, Message, ResultOf
    <3>5. g[L + 1 + n] = Append(shown \o Results(r, rs, n - 1), Result(r, rs, n))
      BY <3>1, <3>2, <3>3, <3>4 DEF Extended
    <3>6. \A i \in 1..n : Result(r, rs, i) \in T
      BY <1>3, <2>3, <1>1
    <3>7. Grows(shown, r, rs, n)
      <4>1. n \in Nat \ {0}
        BY <2>3, <2>5
      <4> HIDE DEF S
      <4> QED
        BY <1>2, <3>6, <4>1, MoreResults
    <3> QED
      BY <2>2, <3>5, <3>7 DEF Grows
  <2> QED
    BY <2>4, <2>5
<1>9. g[L + 1 + k] = shown \o Results(r, rs, k)
  <2>1. k \in Nat /\ k <= k
    BY <1>1
  <2> QED
    BY <1>8, <2>1
<1> QED
  BY <1>5, <1>9 DEF k, ns, shown

-----------------------------------------------------------------------------
(* Calls and their results.                                                *)

Distinct(calls) == \A i, j \in 1..Len(calls) : calls[i].id = calls[j].id => i = j

\* An empty conversation, and one that has only begun.
LEMMA PairedStart == Paired(<<>>) /\ Paired(<<Prompt>>)
<1>1. Paired(<<>>)
  BY DEF Paired, Pending
<1>2. Len(<<Prompt>>) = 1 /\ <<Prompt>>[1].role = "user"
  BY DEF Prompt, Message
<1> DEFINE ms == <<Prompt>>
<1>3. \A i \in 1..1 : i = 1
  OBVIOUS
<1>4. Len(ms) = 1 /\ ms[1].role = "user"
  BY <1>2
<1> HIDE DEF ms
<1>5. \A id \in CallIds : \A i \in 1..1 : ~Calls(ms[i], id)
  BY <1>3, <1>4 DEF Calls
<1>6. Pending(ms, 1) = {}
  BY <1>5 DEF Pending
<1>7. Paired(ms)
  BY <1>3, <1>4, <1>6 DEF Paired
<1> QED
  BY <1>1, <1>7 DEF ms

\* A round with distinct ids keeps every call and its result together.
LEMMA PairedBlock ==
  ASSUME NEW ms \in Seq(MessageType), NEW r \in Reply, NEW rs \in Seq({"ok", "error"}),
         Len(rs) = Len(r.calls), Distinct(r.calls), Paired(ms)
  PROVE  Paired(ms \o Block(r, rs))
<1> DEFINE k == Len(r.calls)
           L == Len(ms)
           ns == ms \o Block(r, rs)
<1>1. /\ L \in Nat /\ k \in Nat /\ Len(ns) = L + 1 + k
      /\ \A i \in 1..L : ns[i] = ms[i]
      /\ ns[L + 1] = Assistant(r)
      /\ \A i \in 1..k : ns[L + 1 + i] = ToolResult(r.calls[i].id, rs[i])
  <2>1. Continues(ns, ms, r, rs)
    BY BlockMessages
  <2>2. L \in Nat /\ k \in Nat
    BY DEF Reply
  <2> HIDE DEF ns
  <2> QED
    BY <2>1, <2>2 DEF Continues
<1>2. r.calls \in Seq(CallType)
  BY DEF Reply
<1>3. ASSUME NEW i \in 1..k PROVE r.calls[i].id \in CallIds
  <2>1. r.calls[i] \in CallType
    BY <1>2
  <2> QED
    BY <2>1 DEF CallType
<1>4. ns[L + 1].role = "assistant" /\ ns[L + 1].calls = r.calls
  BY <1>1 DEF Assistant, Message
<1>5. ASSUME NEW i \in 1..k
      PROVE  ns[L + 1 + i].role = "tool" /\ ns[L + 1 + i].id = r.calls[i].id
  <2>1. ns[L + 1 + i] = ToolResult(r.calls[i].id, rs[i])
    BY <1>1
  <2> HIDE DEF ns
  <2> QED
    BY <2>1 DEF ToolResult, Message
<1>6. DOMAIN r.calls = 1..k
  BY <1>2
<1> HIDE DEF ns, k, L
<1>7. ASSUME NEW n \in 0..L PROVE Pending(ns, n) = Pending(ms, n)
  <2>1. \A i \in 1..n : i \in 1..L /\ ns[i] = ms[i]
    BY <1>1
  <2>2. \A i \in 1..n : \A j \in i+1..n : j \in 1..n
    OBVIOUS
  <2> QED
    BY <2>1, <2>2 DEF Pending
<1>8. ASSUME NEW j \in 1..Len(ns), ns[j].role = "tool"
      PROVE  ns[j].id \in Pending(ns, j-1)
  <2>1. CASE j <= L
    <3>1. j \in 1..L /\ j - 1 \in 0..L
      BY <1>1, <2>1
    <3>2. ms[j].id \in Pending(ms, j-1)
      BY <1>1, <1>8, <3>1 DEF Paired, L
    <3> QED
      BY <1>1, <1>7, <3>1, <3>2
  <2>2. CASE j = L + 1
    BY <1>4, <1>8, <2>2
  <2>3. CASE j > L + 1
    <3> DEFINE i == j - (L + 1)
    <3>1. i \in 1..k /\ j = L + 1 + i /\ L + 1 \in 1..j-1
      BY <1>1, <2>3
    <3>2. ns[j].id = r.calls[i].id /\ ns[j].id \in CallIds
      BY <1>3, <1>5, <3>1
    <3>3. Calls(ns[L + 1], ns[j].id)
      BY <1>4, <1>6, <3>1, <3>2 DEF Calls
    <3>4. ASSUME NEW m \in (L+1)+1..j-1 PROVE ~Answers(ns[m], ns[j].id)
      <4>1. m - (L + 1) \in 1..k /\ m = L + 1 + (m - (L + 1)) /\ m - (L + 1) # i
        <5>1. L \in Nat /\ k \in Nat /\ m \in Nat
          BY <1>1, <3>1
        <5> QED
          BY <3>1, <5>1
      <4>2. ns[m].id = r.calls[m - (L + 1)].id
        BY <1>5, <4>1
      <4> HIDE DEF i
      <4>3. r.calls[m - (L + 1)].id # r.calls[i].id
        BY <3>1, <4>1 DEF Distinct, k
      <4> QED
        BY <3>2, <4>2, <4>3 DEF Answers
    <3> QED
      BY <3>1, <3>2, <3>3, <3>4 DEF Pending
  <2> QED
    BY <1>1, <2>1, <2>2, <2>3
<1>9. ASSUME NEW id \in CallIds, NEW i \in 1..Len(ns), Calls(ns[i], id)
      PROVE  \E m \in i+1..Len(ns) : Answers(ns[m], id)
  <2>1. CASE i <= L
    <3>1. i \in 1..L /\ ns[i] = ms[i]
      BY <1>1, <2>1
    <3>2. id \notin Pending(ms, L)
      BY DEF Paired, L
    <3>3. PICK m \in i+1..L : Answers(ms[m], id)
      BY <1>9, <3>1, <3>2 DEF Pending
    <3>4. m \in 1..L /\ m \in i+1..Len(ns)
      BY <1>1, <3>1
    <3> QED
      BY <1>1, <3>3, <3>4
  <2>2. CASE i = L + 1
    <3>1. PICK c \in 1..k : r.calls[c].id = id
      BY <1>4, <1>6, <1>9, <2>2 DEF Calls
    <3>2. L + 1 + c \in i+1..Len(ns)
      BY <1>1, <2>2
    <3>3. Answers(ns[L + 1 + c], id)
      BY <1>5, <3>1 DEF Answers
    <3> QED
      BY <3>2, <3>3
  <2>3. CASE i > L + 1
    <3>1. i - (L + 1) \in 1..k /\ i = L + 1 + (i - (L + 1))
      <4>1. L \in Nat /\ k \in Nat /\ i \in 1..L+1+k
        BY <1>1
      <4> QED
        BY <2>3, <4>1
    <3>2. ns[i].role = "tool"
      BY <1>5, <3>1
    <3> QED
      BY <1>9, <3>2 DEF Calls
  <2> QED
    BY <1>1, <2>1, <2>2, <2>3
<1>10. Pending(ns, Len(ns)) = {}
  BY <1>9 DEF Pending
<1>11. Paired(ns)
  BY <1>8, <1>10 DEF Paired
<1> QED
  BY <1>11 DEF ns

-----------------------------------------------------------------------------
(* The conversation: the inductive invariant.                              *)

\* While the worker works it has a conversation within its bounds.
Opened ==
  /\ pc \in {"request", "reply", "settle"} \cup InRound =>
       messages # <<>> /\ messages[1] = Prompt /\ WithinBounds(messages)
  /\ pc \in {"launch", "refused", "task"} => messages = <<>>

\* The ids of an open round tell its calls apart.
DistinctCalls == pc \in InRound \cup {"settle"} => Distinct(reply.calls)

\* Before a request, the last message answers the call Gemini waits for.
Matched == pc = "request" /\ native # <<>> => MatchesPending

ManyItems(ms) == \E i \in 2..Len(ms) : ms[i].text = "text" \/ Len(ms[i].calls) > 1

\* Why a worker fails.
Explained ==
  /\ pc # "failed" => cause = "none"
  /\ cause # "pairing"
  /\ cause = "transport_bounds" =>
       condition.transport = "openai-responses" /\ ManyItems(messages)

ServedResult(i) == [id |-> served[i].id, outcome |-> served[i].outcome]

\* The model is told of what was served, but for an answer not yet read.
Told ==
  /\ pc \notin {"answered", "failed"} => Shown = Logged
  /\ pc = "answered" =>
       /\ Logged = Append(Shown, ServedResult(Len(served)))
       /\ served[Len(served)].id = reply.calls[Len(results)+1].id

TInv == IInv /\ Opened /\ DistinctCalls /\ Matched /\ Explained /\ Told /\ Paired(messages)

\* The invariant holds before the launch.
LEMMA InitTInv == Init => TInv
<1> SUFFICES ASSUME Init PROVE TInv
  OBVIOUS
<1>1. IInv /\ Paired(messages)
  BY InitIInv, PairedStart DEF Init
<1>2. Opened /\ DistinctCalls /\ Matched /\ Explained
  BY DEF Init, Opened, DistinctCalls, Matched, Explained, InRound
<1>3. Told
  <2>1. ToolResults(<<>>) = <<>>
    BY NoToolResults
  <2>2. OpenResults = <<>> /\ Logged = <<>>
    BY DEF Init, OpenResults, Logged
  <2>3. Shown = <<>>
    BY <2>1, <2>2 DEF Init, Shown
  <2> QED
    BY <2>2, <2>3 DEF Init, Told
<1> QED
  BY <1>1, <1>2, <1>3 DEF TInv

\* The steps that add nothing to the conversation.
Quiet ==
  /\ UNCHANGED <<condition, messages, reply, results, served, native, pending>>
  /\ \/ pc' = "failed"
     \/ pc = "launch" /\ pc' \in {"task", "refused"}
     \/ pc = "request" /\ pc' = "reply"
     \/ pc = "call" /\ pc' = "result"
     \/ UNCHANGED pc

\* They keep the invariant if they explain a failure.
LEMMA QuietKeeps ==
  ASSUME TInv, IInv', Quiet, Explained'
  PROVE  TInv'
<1>1. Opened' /\ DistinctCalls'
  BY DEF TInv, Quiet, Opened, DistinctCalls, InRound
<1>2. Matched'
  BY DEF TInv, Quiet, Matched, MatchesPending, LastCalling
<1>3. Shown' = Shown /\ Logged' = Logged /\ \A i : ServedResult(i)' = ServedResult(i)
  BY DEF Quiet, Shown, OpenResults, Logged, ServedResult
<1>4. Told'
  <2>1. ServedResult(Len(served))' = ServedResult(Len(served))
    BY DEF Quiet, ServedResult
  <2> QED
    BY <1>3, <2>1 DEF TInv, Quiet, Told
<1>5. Paired(messages)'
  BY DEF TInv, Quiet
<1> QED
  BY <1>1, <1>2, <1>4, <1>5 DEF TInv

\* A failure for a reason of its own is explained.
LEMMA FailExplained ==
  ASSUME Explained,
         \/ pc' # "failed" /\ UNCHANGED cause /\ pc # "failed"
         \/ /\ pc' = "failed"
            /\ cause' \in {"input", "bounds", "provider", "unreachable", "rounds", "too_long"}
         \/ UNCHANGED <<pc, cause, condition, messages>>
  PROVE  Explained'
BY DEF Explained

\* Launching, waiting and failing.
LEMMA QuietSteps ==
  ASSUME TInv, IInv',
         Launch \/ WriteCall \/ ProviderFails \/ ReadFails \/ UNCHANGED vars
  PROVE  TInv'
<1>1. CASE Launch
  <2>1. Quiet /\ pc' # "failed" /\ UNCHANGED cause /\ pc # "failed"
    BY <1>1 DEF Launch, Quiet, roundVars, nativeVars
  <2> QED
    BY <2>1, FailExplained, QuietKeeps DEF TInv
<1>2. CASE WriteCall
  <2>1. Quiet /\ \/ pc' # "failed" /\ UNCHANGED cause /\ pc # "failed"
                 \/ pc' = "failed" /\ cause' = "too_long"
    BY <1>2 DEF WriteCall, Fail, Quiet, launchVars, roundVars, nativeVars
  <2> QED
    BY <2>1, FailExplained, QuietKeeps DEF TInv
<1>3. CASE ProviderFails \/ ReadFails
  <2>1. Quiet /\ pc' = "failed" /\ cause' \in {"unreachable", "input"}
    BY <1>3 DEF ProviderFails, ReadFails, Fail, Quiet, launchVars, roundVars, nativeVars
  <2> QED
    BY <2>1, FailExplained, QuietKeeps DEF TInv
<1>4. CASE UNCHANGED vars
  <2>1. Quiet /\ UNCHANGED <<pc, cause, condition, messages>>
    BY <1>4 DEF vars, Quiet, launchVars, roundVars, nativeVars
  <2> QED
    BY <2>1, FailExplained, QuietKeeps DEF TInv
<1> QED
  BY <1>1, <1>2, <1>3, <1>4

\* A conversation of messages of one item each fits its transport.
LEMMA RefusalExplained ==
  ASSUME TInv, pc = "request", condition.transport \in Approved
  PROVE  /\ Refusal # "pairing"
         /\ Refusal = "transport_bounds" =>
              condition.transport = "openai-responses" /\ ManyItems(messages)
<1>1. /\ messages \in Seq(MessageType) /\ messages # <<>> /\ messages[1] = Prompt
      /\ WithinBounds(messages)
  BY DEF TInv, IInv, TypeOK, Opened
<1>2. MaxMessages \in Nat /\ Len(messages) \in Nat /\ Len(messages) <= MaxMessages
  <2>1. Len(messages) <= MaxMessages
    BY <1>1 DEF WithinBounds
  <2>2. Len(messages) \in Nat
    BY <1>1
  <2> QED
    BY <2>1, <2>2
<1>3. CASE condition.transport = "openai-compatible"
  BY <1>1, <1>3 DEF Refusal, RefusalCompatible, FitsCompatible
<1>4. CASE condition.transport = "google-gemini"
  <2>1. native # <<>> => MatchesPending
    BY DEF TInv, Matched
  <2>2. Staged = messages
    BY DEF TInv, IInv, Mirror, Staged
  <2>3. FitsGemini(Staged)
    BY <1>1, <1>2, <2>2 DEF FitsGemini
  <2> QED
    BY <1>4, <2>1, <2>3 DEF Refusal, RefusalGemini
<1>5. CASE condition.transport = "openai-responses"
  <2>1. Paired(messages)
    BY DEF TInv
  <2>2. Refusal # "pairing"
    BY <1>5, <2>1 DEF Refusal, RefusalResponses
  <2>3. ASSUME ~ManyItems(messages) PROVE FitsResponses(messages)
    <3>1. \A i \in 2..Len(messages) : messages[i].text # "text" /\ Len(messages[i].calls) <= 1
      <4> SUFFICES ASSUME NEW i \in 2..Len(messages)
                   PROVE  messages[i].text # "text" /\ Len(messages[i].calls) <= 1
        OBVIOUS
      <4>1. messages[i] \in MessageType
        BY <1>1, <1>2
      <4>2. Len(messages[i].calls) \in Nat
        BY <4>1 DEF MessageType
      <4> QED
        BY <2>3, <4>2 DEF ManyItems
    <3>2. ItemCount(messages) \in Nat /\ ItemCount(messages) <= Len(messages)
      BY <1>1, <3>1, FewItems
    <3>3. ItemCount(messages) <= MaxMessages
      BY <1>2, <3>2
    <3> QED
      BY <1>1, <3>3 DEF FitsResponses
  <2>4. Refusal = "transport_bounds" => ManyItems(messages)
    BY <1>5, <2>3 DEF Refusal, RefusalResponses
  <2> QED
    BY <1>5, <2>2, <2>4
<1> QED
  BY <1>3, <1>4, <1>5 DEF Approved, Native

\* A request is refused for an explained reason.
LEMMA AskTold ==
  ASSUME TInv, IInv', Ask
  PROVE  TInv'
<1>1. /\ pc = "request" /\ condition.transport # "mock"
      /\ UNCHANGED <<launchVars, messages, reply, results, served, final, nativeVars>>
  BY DEF Ask
<1>2. condition.transport \in Approved
  BY <1>1 DEF TInv, IInv, TypeOK, Conditions
<1>3. \/ pc' = "reply" /\ UNCHANGED cause
      \/ pc' = "failed" /\ cause' \in {"rounds", "too_long"}
      \/ pc' = "failed" /\ cause' = Refusal /\ Refusal # "sent"
  BY DEF Ask, Fail
<1>4. Quiet
  BY <1>1, <1>3 DEF Quiet, launchVars, nativeVars
<1>5. Explained'
  <2>1. CASE pc' = "failed" /\ cause' = Refusal /\ Refusal # "sent"
    <3>1. condition' = condition /\ messages' = messages
      BY <1>1 DEF launchVars
    <3>2. Refusal \in {"launch", "transport_bounds", "pairing"}
      BY <1>2, <2>1, RefusalType
    <3> QED
      BY <1>1, <1>2, <2>1, <3>1, <3>2, RefusalExplained DEF Explained
  <2>2. CASE \/ pc' = "reply" /\ UNCHANGED cause
             \/ pc' = "failed" /\ cause' \in {"rounds", "too_long"}
    BY <1>1, <2>2, FailExplained DEF TInv
  <2> QED
    BY <1>3, <2>1, <2>2
<1> QED
  BY <1>4, <1>5, QuietKeeps

\* The conversation begins with no result, and nothing has been served.
LEMMA ReadTaskTold ==
  ASSUME TInv, IInv', ReadTask
  PROVE  TInv'
<1>1. /\ pc = "task"
      /\ UNCHANGED <<launchVars, rounds, reply, results, served, final, nativeVars>>
      /\ \/ /\ WithinBounds(<<Prompt>>)
            /\ pc' = "request" /\ messages' = <<Prompt>> /\ UNCHANGED cause
         \/ pc' = "failed" /\ cause' \in {"bounds", "input"} /\ UNCHANGED messages
  BY DEF ReadTask, Fail
<1>2. Explained'
  BY <1>1, FailExplained DEF TInv
<1>3. CASE pc' = "failed" /\ UNCHANGED messages
  BY <1>1, <1>2, <1>3, QuietKeeps DEF Quiet, launchVars, nativeVars
<1>4. CASE pc' = "request" /\ messages' = <<Prompt>>
  <2>1. Opened'
    BY <1>1, <1>4 DEF Opened
  <2>2. DistinctCalls'
    BY <1>4 DEF DistinctCalls, InRound
  <2>3. Matched'
    BY <1>1 DEF TInv, IInv, Mirror, Matched, nativeVars
  <2>4. Told'
    <3>1. ToolResults(messages) = <<>> /\ ToolResults(messages') = <<>>
      BY <1>1, <1>4, NoToolResults DEF TInv, Opened
    <3>2. OpenResults' = OpenResults /\ Logged' = Logged
      BY <1>1 DEF OpenResults, Logged
    <3>3. Shown' = Shown
      BY <3>1, <3>2 DEF Shown
    <3> QED
      BY <1>1, <1>4, <3>2, <3>3 DEF TInv, Told
  <2>5. Paired(messages')
    BY <1>4, PairedStart
  <2> QED
    BY <1>2, <2>1, <2>2, <2>3, <2>4, <2>5 DEF TInv
<1> QED
  BY <1>1, <1>3, <1>4

\* With no result read, the open round shows none.
LEMMA NoOpenResults ==
  ASSUME results = <<>>
  PROVE  OpenResults = <<>>
BY DEF OpenResults

\* A reply is received before any of its calls is served.
LEMMA ReceiveTold ==
  ASSUME TInv, IInv', pc \in {"request", "reply"}, results = <<>>,
         UNCHANGED <<condition, messages, results, served>>,
         \/ pc' = "call" /\ Distinct(reply'.calls) /\ UNCHANGED cause
         \/ pc' = "done" /\ UNCHANGED cause
         \/ pc' = "failed" /\ cause' \in {"provider", "too_long", "rounds"}
  PROVE  TInv'
<1>1. Explained'
  BY FailExplained DEF TInv
<1>2. Opened' /\ DistinctCalls' /\ Matched'
  BY DEF TInv, Opened, DistinctCalls, Matched, InRound
<1>3. Told'
  <2>1. OpenResults = <<>> /\ OpenResults' = <<>>
    BY DEF OpenResults
  <2>2. Shown' = Shown /\ Logged' = Logged
    BY <2>1 DEF Shown, Logged
  <2> QED
    BY <2>2 DEF TInv, Told
<1>4. Paired(messages')
  BY DEF TInv
<1> QED
  BY <1>1, <1>2, <1>3, <1>4 DEF TInv

\* The calls of a parsed body have ids of their own.
LEMMA ParsedDistinct ==
  ASSUME NEW kind \in Approved, NEW body \in Bodies, Parses(kind, body)
  PROVE  Distinct(body.calls)
<1>1. [text |-> body.text, calls |-> body.calls] \in Reply
      /\ (kind = "google-gemini" => Len(body.calls) <= 1)
  BY ParsedType
<1>2. body.calls \in Seq(CallType)
  BY <1>1 DEF Reply
<1>3. Len(body.calls) \in Nat /\ DOMAIN body.calls = 1..Len(body.calls)
  BY <1>2
<1>4. CASE kind = "google-gemini"
  <2>1. \A i, j \in 1..Len(body.calls) : i = j
    BY <1>1, <1>3, <1>4
  <2> QED
    BY <2>1 DEF Distinct
<1>5. CASE kind # "google-gemini"
  <2>1. ValidBatch(body.calls)
    BY <1>5 DEF Approved, Native, Parses, ParsesCompatible, ParsesResponses
  <2> QED
    BY <1>3, <2>1 DEF ValidBatch, Distinct
<1> QED
  BY <1>4, <1>5

\* A provider's reply.
LEMMA RepliesTold ==
  ASSUME TInv, IInv', ProviderReplies
  PROVE  TInv'
<1>1. pc = "reply" /\ UNCHANGED <<launchVars, rounds, messages, results, served>>
  BY DEF ProviderReplies
<1>2. condition.transport \in Approved
  BY <1>1 DEF TInv, IInv, TypeOK, Conditions, Asked
<1>3. results = <<>> /\ condition' = condition
  BY <1>1 DEF TInv, IInv, Round, launchVars
<1>4. PICK body \in Bodies :
        \/ /\ Parses(condition.transport, body)
           /\ Receive([text |-> body.text, calls |-> body.calls], rounds)
        \/ Fail("provider")
  BY DEF ProviderReplies
<1>5. CASE Fail("provider")
  BY <1>1, <1>3, <1>5, ReceiveTold DEF Fail
<1>6. CASE /\ Parses(condition.transport, body)
           /\ Receive([text |-> body.text, calls |-> body.calls], rounds)
  <2>1. Distinct(body.calls)
    BY <1>2, <1>6, ParsedDistinct
  <2>2. reply' = [text |-> body.text, calls |-> body.calls]
    BY <1>6 DEF Receive
  <2>3. reply'.calls = body.calls
    BY <2>2
  <2>4. \/ pc' = "call" /\ UNCHANGED cause
        \/ pc' = "done" /\ UNCHANGED cause
        \/ pc' = "failed" /\ cause' \in {"provider", "too_long"}
    BY <1>6 DEF Receive, WriteFinal, Fail
  <2> QED
    BY <1>1, <1>3, <2>1, <2>3, <2>4, ReceiveTold
<1> QED
  BY <1>4, <1>5, <1>6

\* A scripted reply.
LEMMA MockTold ==
  ASSUME TInv, IInv', MockReplies
  PROVE  TInv'
<1>1. pc = "request" /\ UNCHANGED <<launchVars, messages, results, served, nativeVars>>
  BY DEF MockReplies
<1>2. results = <<>> /\ condition' = condition
  BY <1>1 DEF TInv, IInv, Round, launchVars
<1>3. \/ pc' = "failed" /\ cause' \in {"rounds", "provider"}
      \/ \E id \in CallIds :
           Receive([text |-> "none", calls |-> <<[id |-> id, name |-> Script[rounds + 1]]>>],
                   rounds + 1)
  BY DEF MockReplies, Fail
<1>4. CASE pc' = "failed" /\ cause' \in {"rounds", "provider"}
  BY <1>1, <1>2, <1>4, ReceiveTold
<1>5. ASSUME NEW id \in CallIds,
             Receive([text |-> "none", calls |-> <<[id |-> id, name |-> Script[rounds + 1]]>>],
                     rounds + 1)
      PROVE  TInv'
  <2> DEFINE calls == <<[id |-> id, name |-> Script[rounds + 1]]>>
  <2>1. reply' = [text |-> "none", calls |-> calls]
    BY <1>5 DEF Receive
  <2>2. Len(calls) = 1 /\ reply'.calls = calls
    BY <2>1
  <2>3. Distinct(calls)
    BY <2>2 DEF Distinct
  <2>4. \/ pc' = "call" /\ UNCHANGED cause
        \/ pc' = "done" /\ UNCHANGED cause
        \/ pc' = "failed" /\ cause' \in {"provider", "too_long"}
    BY <1>5 DEF Receive, WriteFinal, Fail
  <2> HIDE DEF calls
  <2> QED
    BY <1>1, <1>2, <2>2, <2>3, <2>4, ReceiveTold
<1> QED
  BY <1>3, <1>4, <1>5

-----------------------------------------------------------------------------
(* A round.                                                                *)

\* What is served is logged.
LEMMA ServesTold ==
  ASSUME TInv, IInv', ParentServes
  PROVE  TInv'
<1> DEFINE next == reply.calls[Len(results)+1]
           Entries == [id : CallIds, name : Tools, outcome : {"ok", "error"}]
<1>1. /\ pc = "result" /\ pc' = "answered"
      /\ UNCHANGED <<launchVars, cause, roundVars, final, nativeVars>>
  BY DEF ParentServes, Go
<1>2. PICK outcome \in {"ok", "error"} :
        served' = Append(served, [id |-> next.id, name |-> next.name, outcome |-> outcome])
  BY DEF ParentServes
<1> DEFINE entry == [id |-> next.id, name |-> next.name, outcome |-> outcome]
<1>3. served \in Seq(Entries) /\ served' \in Seq(Entries)
  BY DEF TInv, IInv, TypeOK
<1>4. served' = Append(served, entry) /\ entry.id = next.id
  BY <1>2
<1> HIDE DEF Entries, entry
<1>5. /\ Len(served) \in Nat /\ Len(served') = Len(served) + 1
      /\ served'[Len(served) + 1] = entry
      /\ \A i \in 1..Len(served) : served'[i] = served[i]
  <2>1. Len(served) \in Nat /\ DOMAIN served' = 1..Len(served')
    BY <1>3
  <2>2. Len(Append(served, entry)) = Len(served) + 1
    BY <1>3
  <2> QED
    BY <1>3, <1>4, <2>1, <2>2
<1>6. Logged' = Append(Logged, ServedResult(Len(served))')
  <2> DEFINE T == {[id |-> x.id, outcome |-> x.outcome] : x \in Entries}
             e == ServedResult(Len(served))'
  <2>1. /\ Len(Logged) = Len(served) /\ Len(Logged') = Len(served')
        /\ \A i \in 1..Len(served) : Logged[i] = ServedResult(i)
        /\ \A i \in 1..Len(served') :
             Logged'[i] = [id |-> served'[i].id, outcome |-> served'[i].outcome]
    BY <1>5 DEF Logged, ServedResult
  <2>2. Logged \in Seq(T) /\ Logged' \in Seq(T)
    BY <1>3, <1>5 DEF Logged
  <2>3. e = [id |-> served'[Len(served')].id, outcome |-> served'[Len(served')].outcome]
    BY DEF ServedResult
  <2>4. e \in T /\ Logged'[Len(served) + 1] = e
    BY <1>3, <1>5, <2>1, <2>3
  <2>5. \A i \in 1..Len(served) : Logged'[i] = Logged[i]
    BY <1>5, <2>1 DEF ServedResult
  <2> HIDE DEF T, e
  <2>6. /\ Append(Logged, e) \in Seq(T) /\ Len(Append(Logged, e)) = Len(served) + 1
        /\ Append(Logged, e)[Len(served) + 1] = e
        /\ \A i \in 1..Len(served) : Append(Logged, e)[i] = Logged[i]
    BY <1>5, <2>1, <2>2, <2>4
  <2>7. \A i \in 1..Len(served) + 1 : Logged'[i] = Append(Logged, e)[i]
    BY <1>5, <2>4, <2>5, <2>6
  <2>8. Logged' = Append(Logged, e)
    BY <1>5, <2>1, <2>2, <2>6, <2>7, SeqEqual
  <2> QED
    BY <2>8 DEF e
<1>7. Told'
  <2>1. Shown' = Shown
    BY <1>1 DEF Shown, OpenResults, roundVars
  <2>2. Shown = Logged
    BY <1>1 DEF TInv, Told
  <2>3. served'[Len(served')].id = reply'.calls[Len(results')+1].id
    BY <1>1, <1>4, <1>5 DEF roundVars
  <2> QED
    BY <1>1, <1>6, <2>1, <2>2, <2>3 DEF Told
<1>8. Opened' /\ DistinctCalls' /\ Matched'
  BY <1>1 DEF TInv, Opened, DistinctCalls, Matched, InRound, roundVars
<1>9. Explained'
  BY <1>1, FailExplained DEF TInv
<1>10. Paired(messages')
  BY <1>1 DEF TInv, roundVars
<1> QED
  BY <1>7, <1>8, <1>9, <1>10 DEF TInv

\* The results read so far, as results of the open round.
LEMMA OpenAsResults ==
  ASSUME TInv
  PROVE  /\ OpenResults = Results(reply, results, Len(results))
         /\ Len(results) \in Nat /\ results \in Seq({"ok", "error"})
BY DEF TInv, IInv, TypeOK, OpenResults, Results, Result

\* What is read was the last thing served.
LEMMA ReadResultTold ==
  ASSUME TInv, IInv', ReadResult
  PROVE  TInv'
<1> DEFINE n == Len(results)
           T == {ResultOf(m) : m \in MessageType}
           outcome == served[Len(served)].outcome
<1>1. /\ pc = "answered" /\ pc' \in {"settle", "call"}
      /\ UNCHANGED <<launchVars, cause, rounds, messages, reply, served, final, nativeVars>>
      /\ results' = Append(results, outcome)
  BY DEF ReadResult
<1>2. OpenResults = Results(reply, results, n) /\ n \in Nat /\ results \in Seq({"ok", "error"})
  BY OpenAsResults
<1>3. /\ n < Len(reply.calls) /\ reply.calls \in Seq(CallType) /\ messages \in Seq(MessageType)
      /\ results' \in Seq({"ok", "error"})
  BY <1>1 DEF TInv, IInv, TypeOK, Round, InRound
<1>4. /\ Len(results') = n + 1 /\ results'[n + 1] = outcome
      /\ \A i \in 1..n : results'[i] = results[i]
  <2>1. results'[Len(results')] \in {"ok", "error"} => TRUE
    OBVIOUS
  <2>2. Len(Append(results, outcome)) = n + 1
    BY <1>2
  <2> QED
    BY <1>1, <1>2, <1>3, <2>2
<1>5. OpenResults' = Results(reply, results', n + 1)
  BY <1>1, <1>4 DEF OpenResults, Results, Result
<1>6. Results(reply, results, n) = Results(reply, results', n)
  BY <1>4 DEF Results, Result
<1>7. Grows(ToolResults(messages), reply, results', n + 1)
  <2>1. ToolResults(messages) \in Seq(T)
    BY <1>3, ToolResultsType
  <2>2. n + 1 \in Nat \ {0}
    BY <1>2
  <2>3. ASSUME NEW i \in 1..n+1 PROVE Result(reply, results', i) \in T
    <3> DEFINE m == ToolResult(reply.calls[i].id, results'[i])
    <3>1. i \in 1..Len(reply.calls) /\ i \in 1..Len(results') /\ reply.calls[i] \in CallType
      BY <1>2, <1>3, <1>4
    <3>2. results'[i] \in {"ok", "error"} /\ reply.calls[i].id \in CallIds
      BY <1>3, <3>1 DEF CallType
    <3>3. m \in MessageType
      <4>1. <<>> \in Seq(CallType)
        OBVIOUS
      <4> QED
        BY <3>2, <4>1 DEF ToolResult, Message, MessageType
    <3>4. Result(reply, results', i) = ResultOf(m)
      BY DEF Result, ResultOf, ToolResult, Message
    <3> HIDE DEF m
    <3> QED
      BY <3>3, <3>4
  <2> HIDE DEF T, n
  <2> QED
    BY <2>1, <2>2, <2>3, MoreResults
<1>8. Append(Shown, Result(reply, results', n + 1)) = Shown'
  <2>1. (n + 1) - 1 = n /\ messages' = messages
    BY <1>1, <1>2
  <2> HIDE DEF n
  <2> QED
    BY <1>2, <1>5, <1>6, <1>7, <2>1 DEF Grows, Shown
<1>9. Result(reply, results', n + 1) = ServedResult(Len(served))
  <2>1. served[Len(served)].id = reply.calls[n + 1].id
    BY <1>1 DEF TInv, Told
  <2> QED
    BY <1>4, <2>1 DEF Result, ServedResult
<1>10. Told'
  <2>1. Logged = Append(Shown, ServedResult(Len(served))) /\ Logged' = Logged
    BY <1>1 DEF TInv, Told, Logged
  <2> QED
    BY <1>1, <1>8, <1>9, <2>1 DEF Told
<1>11. Opened' /\ DistinctCalls' /\ Matched'
  BY <1>1 DEF TInv, Opened, DistinctCalls, Matched, InRound
<1>12. Explained'
  BY <1>1, FailExplained DEF TInv
<1>13. Paired(messages')
  BY <1>1 DEF TInv
<1> QED
  BY <1>10, <1>11, <1>12, <1>13 DEF TInv

\* The last calls of a conversation with one more round are that round's.
LEMMA LastCallingBlock ==
  ASSUME NEW ms \in Seq(MessageType), NEW r \in Reply, NEW rs \in Seq({"ok", "error"}),
         Len(rs) = Len(r.calls), Len(r.calls) = 1
  PROVE  LET ns == ms \o Block(r, rs)
         IN  /\ LastCalling(ns) = Len(ms) + 1
             /\ ns[Len(ms) + 1].calls = r.calls
             /\ ns[Len(ns)].role = "tool" /\ ns[Len(ns)].id = r.calls[1].id
<1> DEFINE ns == ms \o Block(r, rs)
           L == Len(ms)
           calling == {i \in DOMAIN ns : ns[i].role = "assistant" /\ ns[i].calls # <<>>}
<1>1. Continues(ns, ms, r, rs)
  BY BlockMessages
<1>2. L \in Nat
  OBVIOUS
<1> HIDE DEF ns
<1>3. /\ ns \in Seq(MessageType) /\ Len(ns) = L + 2
      /\ ns[L + 1] = Assistant(r) /\ ns[L + 2] = ToolResult(r.calls[1].id, rs[1])
  <2>1. 1 \in 1..Len(r.calls) /\ L + 1 + 1 = L + 2
    BY <1>2
  <2>2. ns[L + 1 + 1] = ToolResult(r.calls[1].id, rs[1])
    BY <1>1, <2>1 DEF Continues
  <2> QED
    BY <1>1, <1>2, <2>1, <2>2 DEF Continues
<1>4. /\ ns[L + 1].role = "assistant" /\ ns[L + 1].calls = r.calls
      /\ ns[L + 2].role = "tool" /\ ns[L + 2].id = r.calls[1].id
  BY <1>3 DEF Assistant, ToolResult, Message
<1>5. r.calls # <<>>
  <2> SUFFICES ASSUME r.calls = <<>> PROVE FALSE
    OBVIOUS
  <2>1. Len(r.calls) = 0
    OBVIOUS
  <2> QED
    BY <2>1
<1>6. DOMAIN ns = 1..L+2
  BY <1>3
<1>7. L + 1 \in calling /\ \A j \in calling : j <= L + 1
  <2>1. L + 1 \in 1..L+2
    BY <1>2
  <2>2. \A j \in 1..L+2 : j = L + 2 \/ j <= L + 1
    BY <1>2
  <2> QED
    BY <1>4, <1>5, <1>6, <2>1, <2>2
<1>8. ASSUME NEW i \in calling, \A j \in calling : j <= i PROVE i = L + 1
  <2>1. i \in Nat /\ i <= L + 1 /\ L + 1 <= i
    BY <1>6, <1>7, <1>8
  <2> QED
    BY <1>2, <2>1
<1>9. LastCalling(ns) = L + 1
  <2>1. LastCalling(ns) = CHOOSE i \in calling : \A j \in calling : j <= i
    BY DEF LastCalling
  <2> HIDE DEF calling
  <2> QED
    BY <1>7, <1>8, <2>1
<1> QED
  BY <1>3, <1>4, <1>9 DEF ns

\* Empty open results add nothing to what is shown.
LEMMA ShownWithoutOpen ==
  ASSUME NEW ms \in Seq(MessageType)
  PROVE  ToolResults(ms) \o <<>> = ToolResults(ms)
<1>1. ToolResults(ms) \in Seq({ResultOf(m) : m \in MessageType})
  BY ToolResultsType
<1> QED
  BY <1>1

\* A conversation that was not empty is not empty with a round more.
LEMMA LongerConversation ==
  ASSUME NEW n \in Nat \ {0}, NEW k \in Nat, NEW m, m = n + 1 + k
  PROVE  1 \in 1..n /\ m # 0
OBVIOUS

\* A settled round joins the conversation with all its results.
LEMMA SettleTold ==
  ASSUME TInv, IInv', Settle
  PROVE  TInv'
<1>1. /\ pc = "settle" /\ messages' = messages \o Block(reply, results) /\ results' = <<>>
      /\ UNCHANGED <<launchVars, rounds, reply, served, nativeVars>>
      /\ \/ pc' = "failed" /\ cause' \in {"bounds", "too_long"}
         \/ WithinBounds(messages') /\ pc' \in {"request", "done"} /\ UNCHANGED cause
  BY DEF Settle, Fail, WriteFinal
<1>2. /\ reply \in Reply /\ results \in Seq({"ok", "error"}) /\ Len(results) = Len(reply.calls)
      /\ messages \in Seq(MessageType) /\ messages' \in Seq(MessageType)
  BY <1>1 DEF TInv, IInv, TypeOK, Round, Reply
<1>3. Continues(messages', messages, reply, results)
  BY <1>1, <1>2, BlockMessages
<1>4. Opened'
  <2>1. messages # <<>> /\ messages[1] = Prompt
    BY <1>1 DEF TInv, Opened
  <2>2. 1 \in 1..Len(messages) /\ Len(messages') # 0
    <3>1. Len(messages) \in Nat \ {0}
      BY <1>2, <2>1, EmptySeq
    <3>2. Len(reply.calls) \in Nat
      BY <1>2 DEF Reply
    <3>3. Len(messages') = Len(messages) + 1 + Len(reply.calls)
      BY <1>3 DEF Continues
    <3> QED
      BY <3>1, <3>2, <3>3, LongerConversation
  <2>3. messages' # <<>> /\ messages'[1] = Prompt
    <3>1. messages'[1] = messages[1]
      BY <1>3, <2>2 DEF Continues
    <3>2. messages' # <<>>
      BY <2>2
    <3> QED
      BY <2>1, <3>1, <3>2
  <2> QED
    BY <1>1, <2>3 DEF Opened, InRound
<1>5. DistinctCalls'
  BY <1>1 DEF DistinctCalls, InRound
<1>6. Matched'
  <2> SUFFICES ASSUME pc' = "request", native' # <<>> PROVE MatchesPending'
    BY DEF Matched
  <2>1. native # <<>> /\ pending' = pending
    BY <1>1 DEF nativeVars
  <2>2. reply.calls = <<pending>> /\ pending \in CallType \cup {NoCall}
    BY <1>1, <2>1 DEF TInv, IInv, TypeOK, Mirror
  <2>3. Len(reply.calls) = 1 /\ reply.calls[1] = pending
    BY <2>2
  <2>4. pending # NoCall
    <3>1. reply.calls \in Seq(CallType)
      BY <1>2 DEF Reply
    <3>2. pending \in CallType
      BY <2>3, <3>1
    <3>3. pending.id \in CallIds /\ NoCall.id \notin CallIds
      BY <3>2 DEF CallType, NoCall, NoId
    <3> QED
      BY <3>3
  <2>5. /\ LastCalling(messages') = Len(messages) + 1
        /\ messages'[Len(messages) + 1].calls = reply.calls
        /\ messages'[Len(messages')].role = "tool"
        /\ messages'[Len(messages')].id = reply.calls[1].id
    <3>1. /\ LastCalling(messages \o Block(reply, results)) = Len(messages) + 1
          /\ (messages \o Block(reply, results))[Len(messages) + 1].calls = reply.calls
          /\ LET ns == messages \o Block(reply, results)
             IN  ns[Len(ns)].role = "tool" /\ ns[Len(ns)].id = reply.calls[1].id
      BY <1>2, <2>3, LastCallingBlock
    <3> QED
      BY <1>1, <3>1
  <2>6. LastCalling(messages)' = LastCalling(messages')
    BY DEF LastCalling
  <2> QED
    BY <2>1, <2>3, <2>4, <2>5, <2>6 DEF MatchesPending
<1>7. Told'
  <2>1. Shown = ToolResults(messages) \o Results(reply, results, Len(results)) /\ Shown = Logged
    BY <1>1, OpenAsResults DEF TInv, Told, Shown
  <2>2. ToolResults(messages') = ToolResults(messages) \o Results(reply, results, Len(reply.calls))
    BY <1>1, <1>2, BlockResults
  <2>3. OpenResults' = <<>>
    BY <1>1 DEF OpenResults
  <2>4. Shown' = ToolResults(messages')
    BY <1>2, <2>3, ShownWithoutOpen DEF Shown
  <2>5. Logged' = Logged
    BY <1>1 DEF Logged
  <2> QED
    BY <1>1, <1>2, <2>1, <2>2, <2>4, <2>5 DEF Told
<1>8. Explained'
  BY <1>1, FailExplained DEF TInv
<1>9. Paired(messages')
  <2>1. Distinct(reply.calls) /\ Paired(messages)
    BY <1>1 DEF TInv, DistinctCalls
  <2> QED
    BY <1>1, <1>2, <2>1, PairedBlock
<1> QED
  BY <1>4, <1>5, <1>6, <1>7, <1>8, <1>9 DEF TInv

\* The invariant is inductive.
LEMMA NextTInv == TInv /\ [Next]_vars => TInv'
<1> SUFFICES ASSUME TInv, [Next]_vars PROVE TInv'
  OBVIOUS
<1>1. IInv'
  BY NextIInv DEF TInv
<1> QED
  BY <1>1, QuietSteps, ReadTaskTold, AskTold, RepliesTold, MockTold, ServesTold,
     ReadResultTold, SettleTold
  DEF Next, Worker, Provider, Parent

\* The conversation's invariant, for any tools, ids, bounds and rounds.
THEOREM ConversationInvariance == Spec => []TInv
BY InitTInv, NextTInv, PTL DEF Spec

(* ConversationFaithful for any tools, ids, bounds and number of rounds:   *)
(* the model is told of every call served, in order; no request fails for  *)
(* a lost call or result; and one is of too many messages for its          *)
(* transport only through the items of a text or of a batch.               *)
THEOREM ConversationFaithfulAlways == Spec => []ConversationFaithful
<1>1. TInv => ConversationFaithful
  <2> SUFFICES ASSUME TInv PROVE ConversationFaithful
    OBVIOUS
  <2>1. ASSUME pc = "answered" PROVE Shown = SubSeq(Logged, 1, Len(Logged) - 1)
    <3> DEFINE e == ServedResult(Len(served))
               T == {ResultOf(m) : m \in MessageType} \cup {e}
               U == T \cup {[id |-> reply.calls[i].id, outcome |-> results[i]] :
                              i \in 1..Len(results)}
    <3>1. Logged = Append(Shown, e)
      BY <2>1 DEF TInv, Told
    <3>2. Shown \in Seq(U)
      <4>1. messages \in Seq(MessageType) /\ Len(results) \in Nat
        BY DEF TInv, IInv, TypeOK
      <4>2. ToolResults(messages) \in Seq({ResultOf(m) : m \in MessageType})
        BY <4>1, ToolResultsType
      <4>3. ToolResults(messages) \in Seq(U)
        <5> HIDE DEF MessageType, ResultOf
        <5> QED
          BY <4>2
      <4>4. OpenResults \in Seq(U)
        BY <4>1 DEF OpenResults
      <4> HIDE DEF U
      <4> QED
        BY <4>3, <4>4 DEF Shown
    <3>3. e \in U
      OBVIOUS
    <3> HIDE DEF U, e
    <3>4. Len(Logged) - 1 = Len(Shown) /\ Len(Shown) \in Nat
      BY <3>1, <3>2, <3>3
    <3>5. SubSeq(Append(Shown, e), 1, Len(Shown)) = Shown
      BY <3>2, <3>3, <3>4
    <3> QED
      BY <3>1, <3>4, <3>5
  <2>2. pc \in {"request", "reply", "call", "settle", "done"} => Shown = Logged
    BY DEF TInv, Told
  <2> QED
    BY <2>1, <2>2 DEF TInv, Explained, ManyItems, ConversationFaithful
<1> QED
  BY <1>1, ConversationInvariance, PTL
=============================================================================
