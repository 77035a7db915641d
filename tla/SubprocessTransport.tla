------------------------ MODULE SubprocessTransport ------------------------
(***************************************************************************)
(* The transport between a workspace trial and a provider worker           *)
(* (evidence_eval/subprocess_adapter.py, SubprocessWorkspaceAdapter).      *)
(* run starts a child process that writes lines to its stdout and stderr;  *)
(* a thread per stream puts them into one bounded queue; run takes them    *)
(* from there, applies calls to the workspace tools and writes the results *)
(* to the child's stdin, until a final message, a failure or the deadline. *)
(* The runner of the trial may terminate the child from its own thread.    *)
(***************************************************************************)
EXTENDS Naturals, SequencesExt

CONSTANTS
  MaxPending,  \* max_pending_messages
  MaxLines,    \* bound of the model: lines the child writes to stdout
  MaxNoise,    \* bound of the model: lines the child writes to stderr
  PipeRoom     \* results the child's stdin holds before a write blocks

ASSUME TransportAssumption ==
  /\ MaxPending \in Nat \ {0} /\ MaxLines \in Nat
  /\ MaxNoise \in Nat /\ PipeRoom \in Nat \ {0}

VARIABLES
  process,   \* "unborn", "running", "killed" (it has been sent SIGKILL) or "exited"
  open,      \* are the child's ends of its pipes open?
  sent,      \* what the child has written to stdout, line by line
  noise,     \* number of lines it has written to stderr
  replies,   \* what run has written to the child's stdin
  taken,     \* how many of them the child has read
  reader,    \* the two threads: "unborn", "reading", "eof" or "ended"
  position,  \* how many lines each has read
  queue,     \* messages
  lineOverflow, outputOverflow,
  pc,        \* where run is
  late,      \* has the deadline passed?
  current,   \* the last line of stdout that run has taken
  reply,     \* the result run is about to send
  applied,   \* the calls that took effect in the workspace
  result,    \* "none" or why run ended
  hook       \* has the runner's thread called terminate?

childVars == <<process, open, sent, noise, taken>>
readerVars == <<reader, position, lineOverflow, outputOverflow>>
runVars == <<replies, pc, current, reply, applied, result>>
vars == <<childVars, readerVars, runVars, queue, late, hook>>

Streams == {"stdout", "stderr"}

\* Kinds of lines: no JSON object of a known type, above max_message_chars, or
\* with bytes that the strict decoding of the pipe refuses.
Lines == {"call", "final", "malformed", "long", "undecodable"}

\* An entry of the queue; line 0 is the None of an end of file.
Entry(s, i) == [stream |-> s, line |-> i]

Failures == {"not_started", "transport", "too_long", "overflow", "timeout",
             "exited", "invalid"}

-----------------------------------------------------------------------------
(* The child.  Nothing is assumed of it but its bounds: it may write       *)
(* without waiting for results, close its pipes and outlive SIGTERM.       *)

\* Both ends of the pipes are open; run closes its own when it returns.
Connected == open /\ pc # "returned"

ChildWrites ==
  /\ process = "running" /\ Connected
  /\ Len(sent) < MaxLines
  /\ \E line \in Lines : sent' = Append(sent, line)
  /\ UNCHANGED <<process, open, noise, taken, readerVars, runVars, queue, late, hook>>

ChildWritesError ==
  /\ process = "running" /\ Connected
  /\ noise < MaxNoise
  /\ noise' = noise + 1
  /\ UNCHANGED <<process, open, sent, taken, readerVars, runVars, queue, late, hook>>

ChildReads ==
  /\ process = "running" /\ Connected
  /\ taken < Len(replies)
  /\ taken' = taken + 1
  /\ UNCHANGED <<process, open, sent, noise, readerVars, runVars, queue, late, hook>>

\* All of its ends at once.
ChildCloses ==
  /\ process = "running" /\ Connected
  /\ open' = FALSE
  /\ UNCHANGED <<process, sent, noise, taken, readerVars, runVars, queue, late, hook>>

ChildExits ==
  /\ process \in {"running", "killed"}
  /\ process' = "exited"
  /\ open' = FALSE
  /\ UNCHANGED <<sent, noise, taken, readerVars, runVars, queue, late, hook>>

-----------------------------------------------------------------------------
(* read_stream, in a thread per stream.                                    *)

Written(s) == IF s = "stdout" THEN Len(sent) ELSE noise

TooLong(s) == s = "stdout" /\ sent[position[s] + 1] = "long"

\* readline returns the next line.
Decoded(s) ==
  /\ position[s] < Written(s)
  /\ s = "stdout" => sent[position[s] + 1] # "undecodable"

\* Bytes that cannot be decoded are among those that are not read yet; what
\* stderr holds is left out, so there they may be anywhere.
Undecodable(s) ==
  IF s = "stdout"
  THEN \E i \in position[s] + 1 .. Len(sent) : sent[i] = "undecodable"
  ELSE position[s] < noise

Set(f, s, value) == [f EXCEPT ![s] = value]

\* Slip: a line that finds the queue full is dropped.
ReadLineDropping(s) ==
  /\ reader[s] = "reading" /\ Decoded(s)
  /\ ~TooLong(s)
  /\ position' = Set(position, s, position[s] + 1)
  /\ queue' = IF Len(queue) < MaxPending THEN Append(queue, Entry(s, position'[s])) ELSE queue
  /\ UNCHANGED <<reader, lineOverflow, outputOverflow, childVars, runVars, late, hook>>

\* Slip: the queue has no bound.
ReadLineUnbounded(s) ==
  /\ reader[s] = "reading" /\ Decoded(s)
  /\ ~TooLong(s)
  /\ position' = Set(position, s, position[s] + 1)
  /\ queue' = Append(queue, Entry(s, position'[s]))
  /\ UNCHANGED <<reader, lineOverflow, outputOverflow, childVars, runVars, late, hook>>

\* put_nowait of a line.
ReadLine(s) ==
  /\ reader[s] = "reading" /\ Decoded(s)
  /\ ~TooLong(s) /\ Len(queue) < MaxPending
  /\ position' = Set(position, s, position[s] + 1)
  /\ queue' = Append(queue, Entry(s, position'[s]))
  /\ UNCHANGED <<reader, lineOverflow, outputOverflow, childVars, runVars, late, hook>>

\* The line is longer than max_message_chars, or the queue is full.
ReadOverflow(s) ==
  /\ reader[s] = "reading" /\ Decoded(s)
  /\ TooLong(s) \/ Len(queue) = MaxPending
  /\ reader' = Set(reader, s, "eof")
  /\ position' = Set(position, s, position[s] + 1)
  /\ IF TooLong(s) THEN lineOverflow' = TRUE /\ UNCHANGED outputOverflow
                   ELSE outputOverflow' = TRUE /\ UNCHANGED lineOverflow
  /\ UNCHANGED <<childVars, runVars, queue, late, hook>>

\* readline raises UnicodeDecodeError, which nothing handles and no flag tells:
\* whole lines before the bad bytes that came in the same chunk are lost with them.
ReadUndecodable(s) ==
  /\ reader[s] = "reading" /\ Undecodable(s)
  /\ reader' = Set(reader, s, "eof")
  /\ UNCHANGED <<position, lineOverflow, outputOverflow, childVars, runVars, queue, late, hook>>

\* The end of the stream.
ReadEof(s) ==
  /\ reader[s] = "reading" /\ position[s] = Written(s)
  /\ ~open
  /\ reader' = Set(reader, s, "eof")
  /\ UNCHANGED <<position, lineOverflow, outputOverflow, childVars, runVars, queue, late, hook>>

\* The finally clause.
PutEof(s) ==
  /\ reader[s] = "eof"
  /\ reader' = Set(reader, s, "ended")
  /\ IF Len(queue) < MaxPending
     THEN queue' = Append(queue, Entry(s, 0)) /\ UNCHANGED outputOverflow
     ELSE outputOverflow' = TRUE /\ UNCHANGED queue
  /\ UNCHANGED <<position, lineOverflow, childVars, runVars, late, hook>>

\* A thread that outlives run finds its stream closed.
ReaderStep(s) ==
  /\ pc # "returned"
  /\ ReadLine(s) \/ ReadOverflow(s) \/ ReadUndecodable(s) \/ ReadEof(s) \/ PutEof(s)

-----------------------------------------------------------------------------
(* run.                                                                    *)

Go(from, to) == pc = from /\ pc' = to

\* The finally clause comes next.
Fail(reason) ==
  /\ pc' = "cleanup"
  /\ result' = reason
  /\ UNCHANGED <<replies, current, reply, applied>>

Start ==
  /\ pc = "start"
  /\ \/ /\ pc' = "task"
        /\ process' = "running" /\ open' = TRUE
        /\ reader' = [s \in Streams |-> "reading"]
        /\ UNCHANGED result
     \/ /\ pc' = "returned" /\ result' = "not_started"
        /\ UNCHANGED <<process, open, reader>>
  /\ UNCHANGED <<sent, noise, taken, position, lineOverflow, outputOverflow,
                 replies, current, reply, applied, queue, late, hook>>

\* _send of the task or of a result: write and flush block while the pipe is
\* full, and raise BrokenPipeError when nobody can read it any more.
Room == open /\ Len(replies) - taken < PipeRoom

Send ==
  /\ pc \in {"task", "reply"}
  /\ Room
  /\ replies' = Append(replies, reply)
  /\ pc' = "check"
  /\ UNCHANGED <<current, reply, applied, result, childVars, readerVars, queue, late, hook>>

\* _encode refuses a payload above max_message_chars; for a result that would
\* have been ok, the handler sends an error instead.
SendTooLong ==
  /\ \/ pc = "task" /\ Fail("transport")
     \/ pc = "reply" /\ ~reply.ok /\ Fail("transport")
     \/ /\ Go("reply", "reply") /\ reply.ok
        /\ reply' = [reply EXCEPT !.ok = FALSE]
        /\ UNCHANGED <<replies, current, applied, result>>
  /\ UNCHANGED <<childVars, readerVars, queue, late, hook>>

\* Slip: a result that nobody can read is skipped.
SendSkipped ==
  /\ pc \in {"task", "reply"}
  /\ ~open
  /\ pc' = "check"
  /\ UNCHANGED <<replies, current, reply, applied, result,
                 childVars, readerVars, queue, late, hook>>

SendBroken ==
  /\ pc \in {"task", "reply"}
  /\ ~open
  /\ Fail("transport")
  /\ UNCHANGED <<childVars, readerVars, queue, late, hook>>

CheckBounds ==
  /\ pc = "check"
  /\ \/ lineOverflow /\ Fail("too_long")
     \/ ~lineOverflow /\ outputOverflow /\ Fail("overflow")
     \/ ~lineOverflow /\ ~outputOverflow /\ late /\ Fail("timeout")
     \/ /\ ~lineOverflow /\ ~outputOverflow /\ ~late
        /\ pc' = "get"
        /\ UNCHANGED <<replies, current, reply, applied, result>>
  /\ UNCHANGED <<childVars, readerVars, queue, late, hook>>

\* messages.get times out.
GetEmpty ==
  /\ Go("get", "poll")
  /\ queue = <<>>
  /\ UNCHANGED <<childVars, readerVars, replies, current, reply, applied, result, queue, late, hook>>

Poll ==
  /\ pc = "poll"
  /\ \/ process = "exited" /\ Fail("exited")
     \/ /\ process # "exited"
        /\ pc' = "check"
        /\ UNCHANGED <<replies, current, reply, applied, result>>
  /\ UNCHANGED <<childVars, readerVars, queue, late, hook>>

GetOther ==
  /\ pc = "get" /\ queue # <<>>
  /\ Head(queue).stream = "stderr" \/ Head(queue).line = 0
  /\ queue' = Tail(queue)
  /\ pc' = IF Head(queue) = Entry("stdout", 0) THEN "poll" ELSE "check"
  /\ UNCHANGED <<childVars, readerVars, replies, current, reply, applied, result, late, hook>>

GetLine ==
  /\ pc = "get" /\ queue # <<>>
  /\ Head(queue).stream = "stdout" /\ Head(queue).line # 0
  /\ queue' = Tail(queue)
  /\ current' = Head(queue).line
  /\ LET line == sent[current']
     IN  \/ line = "call" /\ pc' = "dispatch" /\ UNCHANGED result
         \/ line = "final" /\ pc' = "cleanup" /\ result' = "final"
         \/ line = "malformed" /\ pc' = "cleanup" /\ result' = "invalid"
  /\ UNCHANGED <<childVars, readerVars, replies, reply, applied, late, hook>>

\* Slip: a tool that raises is answered as if it had returned.
DispatchOptimistic ==
  /\ Go("dispatch", "reply")
  /\ applied' \in {applied, Append(applied, current)}
  /\ reply' = [call |-> current, ok |-> TRUE]
  /\ UNCHANGED <<childVars, readerVars, replies, current, result, queue, late, hook>>

\* The arguments are refused, or _dispatch raises before or after the tool took
\* effect, or it returns.
Dispatch ==
  /\ Go("dispatch", "reply")
  /\ \/ /\ applied' = Append(applied, current)
        /\ \E ok \in BOOLEAN : reply' = [call |-> current, ok |-> ok]
     \/ /\ reply' = [call |-> current, ok |-> FALSE]
        /\ UNCHANGED applied
  /\ UNCHANGED <<childVars, readerVars, replies, current, result, queue, late, hook>>

Deadline ==
  /\ pc \notin {"start", "returned"} /\ ~late
  /\ late' = TRUE
  /\ UNCHANGED <<childVars, readerVars, runVars, queue, hook>>

-----------------------------------------------------------------------------
(* _terminate_process, from run's finally clause and from terminate.  Since *)
(* a child may exit at any time, SIGTERM adds nothing to what it may do; a *)
(* child that is alive half a second later is killed.                      *)

\* Slip: SIGKILL never follows.
TerminatePolite == UNCHANGED process

Terminate == process' = IF process = "running" THEN "killed" ELSE process

\* Then run waits, up to half a second, for a child it has killed.
Cleanup ==
  /\ Go("cleanup", "returned")
  /\ Terminate
  /\ UNCHANGED <<open, sent, noise, taken, readerVars, replies, current, reply, applied,
                 result, queue, late, hook>>

\* terminate, while run has a process registered.
Hook ==
  /\ ~hook /\ pc \notin {"start", "returned"}
  /\ hook' = TRUE
  /\ Terminate
  /\ UNCHANGED <<open, sent, noise, taken, readerVars, runVars, queue, late>>

-----------------------------------------------------------------------------

Init ==
  /\ process = "unborn" /\ open = FALSE
  /\ sent = <<>> /\ noise = 0
  /\ replies = <<>> /\ taken = 0
  /\ reader = [s \in Streams |-> "unborn"]
  /\ position = [s \in Streams |-> 0]
  /\ queue = <<>>
  /\ lineOverflow = FALSE /\ outputOverflow = FALSE
  /\ pc = "start" /\ late = FALSE
  /\ current = 0 /\ reply = [call |-> 0, ok |-> TRUE]
  /\ applied = <<>> /\ result = "none"
  /\ hook = FALSE

ChildStep == ChildWrites \/ ChildWritesError \/ ChildReads \/ ChildCloses \/ ChildExits

RunStep ==
  \/ Start \/ Send \/ SendBroken \/ CheckBounds
  \/ GetEmpty \/ Poll \/ GetOther \/ GetLine \/ Dispatch
  \/ Cleanup

Next ==
  \/ ChildStep \/ RunStep \/ SendTooLong \/ Deadline \/ Hook
  \/ \E s \in Streams : ReaderStep(s)

\* run and its reader threads go on, time passes, and SIGKILL is obeyed.
\* The child and the runner have to do nothing, and no message has to be long.
Fairness ==
  /\ WF_vars(RunStep) /\ WF_vars(Deadline)
  /\ \A s \in Streams : WF_vars(ReaderStep(s))
  /\ WF_vars(process = "killed" /\ ChildExits)

Spec == Init /\ [][Next]_vars /\ Fairness

-----------------------------------------------------------------------------

LineNumbers == 0..MaxLines
Reply == [call : LineNumbers, ok : BOOLEAN]

\* The variables hold values of their types.
TypeOK ==
  /\ process \in {"unborn", "running", "killed", "exited"}
  /\ open \in BOOLEAN
  /\ sent \in Seq(Lines) /\ Len(sent) <= MaxLines
  /\ noise \in 0..MaxNoise
  /\ replies \in Seq(Reply)
  /\ taken \in 0..Len(replies)
  /\ reader \in [Streams -> {"unborn", "reading", "eof", "ended"}]
  /\ position \in [Streams -> Nat]
  /\ \A s \in Streams : position[s] <= Written(s)
  /\ queue \in Seq([stream : Streams, line : Nat]) /\ Len(queue) <= MaxPending
  /\ lineOverflow \in BOOLEAN /\ outputOverflow \in BOOLEAN
  /\ pc \in {"start", "task", "check", "get", "poll", "dispatch", "reply", "cleanup",
             "returned"}
  /\ late \in BOOLEAN
  /\ current \in LineNumbers
  /\ reply \in Reply
  /\ applied \in Seq(LineNumbers)
  /\ result \in Failures \cup {"none", "final"}
  /\ hook \in BOOLEAN

\* Is entry i of the queue a line of stdout?
IsLine(i) == queue[i].stream = "stdout" /\ queue[i].line # 0

\* The lines after the current one, up to n, are in the queue.
Waiting(n) ==
  \A l \in current + 1 .. n : \E i \in DOMAIN queue : queue[i] = Entry("stdout", l)

-----------------------------------------------------------------------------
(* Safety.                                                                 *)

(* The lines of stdout reach run in their order and without a gap, unless  *)
(* an overflow that run will report is flagged: the noise on stderr, which *)
(* shares the queue, cannot make a call or a final vanish.  A reader stops *)
(* early only for such an overflow, or without a flag for bytes it cannot  *)
(* decode, and then they are still before it: what is lost are whole       *)
(* lines up to them and all that follow (read_stream).                     *)
NoLineLost ==
  /\ \A i, j \in DOMAIN queue : i < j /\ IsLine(i) /\ IsLine(j) => queue[i].line < queue[j].line
  /\ \A i \in DOMAIN queue : IsLine(i) => queue[i].line > current
  /\ lineOverflow \/ outputOverflow \/ Waiting(position["stdout"])
  /\ reader["stdout"] \in {"eof", "ended"} =>
       \/ lineOverflow \/ outputOverflow \/ Undecodable("stdout")
       \/ position["stdout"] = Len(sent)

(* The child gets one result per call, in the order of its calls, even if  *)
(* it does not wait for them; a result that is ok belongs to a call that   *)
(* took effect, and no call takes effect twice (run, _dispatch).  Result 0 *)
(* is the task.                                                            *)
AnsweredInOrder ==
  /\ \A k \in DOMAIN replies : replies[k].call = k - 1
  /\ Len(replies) >= current
  /\ \A k \in DOMAIN replies : k > 1 /\ replies[k].ok => Contains(applied, k - 1)
  /\ \A i, j \in DOMAIN applied : i < j => applied[i] < applied[j]

(* A trial is verified only if the child's own final message was taken,    *)
(* after every call before it had been answered; whatever status the child *)
(* reports, it cannot make a failure of the transport of it, and a failure *)
(* of the transport is never taken for a final (run's final branch).       *)
FinalAfterCalls ==
  (result = "final") =>
    /\ sent[current] = "final"
    /\ \A i \in 1..current-1 : sent[i] = "call"
    /\ Len(replies) = current

(* "subprocess adapter exited without a final message"                     *)
(* (evidence_eval/subprocess_adapter.py:191): a child reported to have     *)
(* exited without a final message has not written one.                     *)
ExitedWithoutFinal ==
  (result = "exited") => \A i \in DOMAIN sent : sent[i] # "final"

-----------------------------------------------------------------------------
(* Liveness.                                                               *)

(* When the runner terminates the child, run returns, even from a write    *)
(* that a child that does not read has blocked.                            *)
HookEnds == hook ~> pc = "returned"

(* No child outlives its run for ever, even one that ignores SIGTERM.      *)
ChildReaped == pc = "cleanup" ~> process = "exited"
=============================================================================
