--------------------- MODULE SubprocessTransportProofs ---------------------
(***************************************************************************)
(* Proofs about the subprocess transport, for every bound of the queue and *)
(* the pipes and every length of a conversation.                           *)
(***************************************************************************)
EXTENDS SubprocessTransport, TLAPS

\* The queue holds the lines after the current one, in order; only a line that
\* set a flag, after which its reader stops, may be missing.
QueueInv ==
  /\ \A i, j \in DOMAIN queue : i < j /\ IsLine(i) /\ IsLine(j) => queue[i].line < queue[j].line
  /\ \A i \in DOMAIN queue : IsLine(i) => /\ queue[i].line > current
                                          /\ queue[i].line <= position["stdout"]
                                          /\ sent[queue[i].line] # "long"
  /\ current <= position["stdout"]
  /\ \A l \in current + 1 .. position["stdout"] :
       \/ \E i \in DOMAIN queue : queue[i] = Entry("stdout", l)
       \/ /\ l = position["stdout"] /\ reader["stdout"] \in {"eof", "ended"}
          /\ lineOverflow \/ outputOverflow

\* The threads are started by run.
StartInv == pc = "start" => \A s \in Streams : reader[s] = "unborn"

\* A reader that stopped without a flag stands at the end of a stream that
\* nobody can write to any more, or before bytes it cannot decode.
EndInv ==
  reader["stdout"] \in {"eof", "ended"} =>
    \/ lineOverflow \/ outputOverflow \/ Undecodable("stdout")
    \/ position["stdout"] = Len(sent) /\ ~open

\* How far the conversation is where run stands.
PointInv ==
  /\ pc \in {"start", "task"} => Len(replies) = 0 /\ current = 0 /\ reply.call = 0
  /\ pc \in {"check", "get", "poll"} => Len(replies) = current + 1
  /\ pc \in {"dispatch", "reply"} => Len(replies) = current /\ current > 0
  /\ pc = "reply" => reply.call = current /\ (reply.ok => Contains(applied, current))
  /\ pc \notin {"cleanup", "returned"} =>
       result = "none" /\ \A i \in 1..current : sent[i] = "call"
  /\ result = "final" => current > 0

\* No call is applied before run has taken it, nor while it is dispatched.
AppliedInv ==
  \A i \in DOMAIN applied : applied[i] <= current /\ (pc = "dispatch" => applied[i] < current)

ConversationInv == PointInv /\ AppliedInv /\ AnsweredInOrder /\ FinalAfterCalls

IInv == TypeOK /\ StartInv /\ QueueInv /\ EndInv /\ ConversationInv

-----------------------------------------------------------------------------

USE TransportAssumption
USE DEF Streams, Lines, Failures, Entry, Set, Go, childVars, readerVars, runVars

(* Initially nothing has been written, read or taken.                      *)
LEMMA InitOK == Init => IInv
<1> SUFFICES ASSUME Init PROVE IInv
  OBVIOUS
<1>1. TypeOK
  <2>1. sent \in Seq(Lines) /\ replies \in Seq(Reply) /\ applied \in Seq(LineNumbers)
        /\ queue \in Seq([stream : Streams, line : Nat])
        /\ Len(sent) = 0 /\ Len(replies) = 0 /\ Len(queue) = 0
    BY DEF Init
  <2>2. current \in LineNumbers /\ reply \in Reply
    BY DEF Init, LineNumbers, Reply
  <2>3. /\ open \in BOOLEAN /\ lineOverflow \in BOOLEAN /\ outputOverflow \in BOOLEAN
        /\ late \in BOOLEAN /\ hook \in BOOLEAN
    BY DEF Init
  <2>4. noise \in 0..MaxNoise /\ taken \in 0..Len(replies)
    BY <2>1 DEF Init
  <2>5. position \in [Streams -> Nat] /\ \A s \in Streams : position[s] <= Written(s)
    BY DEF Init, Written
  <2>6. reader \in [Streams -> {"unborn", "reading", "eof", "ended"}]
    BY DEF Init
  <2>7. Len(sent) <= MaxLines /\ Len(queue) <= MaxPending
    BY <2>1
  <2> QED BY <2>1, <2>2, <2>3, <2>4, <2>5, <2>6, <2>7 DEF Init, TypeOK
<1>2. StartInv /\ QueueInv /\ EndInv
  BY DEF Init, StartInv, QueueInv, EndInv
<1>3. ConversationInv
  BY DEF Init, ConversationInv, PointInv, AppliedInv, AnsweredInOrder, FinalAfterCalls
<1> QED BY <1>1, <1>2, <1>3 DEF IInv

(* The steps, one by one.                                                  *)
LEMMA StepCases ==
  ASSUME Next
  PROVE \/ ChildWrites \/ ChildWritesError \/ ChildReads \/ ChildCloses \/ ChildExits
        \/ Start \/ Send \/ SendTooLong \/ SendBroken \/ CheckBounds
        \/ GetEmpty \/ Poll \/ GetOther \/ GetLine \/ Dispatch \/ Cleanup
        \/ Deadline \/ Hook
        \/ \E s \in Streams : ReadLine(s) \/ ReadOverflow(s) \/ ReadUndecodable(s) \/ ReadEof(s) \/ PutEof(s)
BY DEF Next, ChildStep, RunStep, ReaderStep

-----------------------------------------------------------------------------
(* Types.                                                                  *)

LEMMA EntriesTyped ==
  ASSUME TypeOK
  PROVE \A i \in DOMAIN queue : queue[i] \in [stream : Streams, line : Nat]
<1> DEFINE Entries == [stream : Streams, line : Nat]
<1>1. queue \in Seq(Entries)
  BY DEF TypeOK
<1> HIDE DEF Entries
<1>2. \A i \in DOMAIN queue : queue[i] \in Entries
  BY <1>1
<1> QED BY <1>2 DEF Entries

LEMMA QueueTypes ==
  ASSUME TypeOK
  PROVE /\ \A s \in Streams, n \in Nat :
             Append(queue, Entry(s, n)) \in Seq([stream : Streams, line : Nat])
        /\ queue # <<>> => /\ Tail(queue) \in Seq([stream : Streams, line : Nat])
                           /\ Len(Tail(queue)) = Len(queue) - 1
                           /\ queue[1] \in [stream : Streams, line : Nat]
                           /\ Head(queue) = queue[1]
                           /\ 1 \in DOMAIN queue
                           /\ \A i \in 1..Len(queue)-1 : Tail(queue)[i] = queue[i+1]
<1> DEFINE Entries == [stream : Streams, line : Nat]
<1>1. queue \in Seq(Entries)
  BY DEF TypeOK
<1>2. \A s \in Streams, n \in Nat : Entry(s, n) \in Entries
  OBVIOUS
<1> HIDE DEF Entries
<1>3. \A s \in Streams, n \in Nat : Append(queue, Entry(s, n)) \in Seq(Entries)
  BY <1>1, <1>2
<1>4. queue # <<>> => /\ Tail(queue) \in Seq(Entries)
                      /\ Len(Tail(queue)) = Len(queue) - 1
                      /\ queue[1] \in Entries
                      /\ Head(queue) = queue[1]
                      /\ 1 \in DOMAIN queue
                      /\ \A i \in 1..Len(queue)-1 : Tail(queue)[i] = queue[i+1]
  BY <1>1
<1> QED BY <1>3, <1>4 DEF Entries

(* A line that run takes was written by the child.                         *)
LEMMA TakenLine ==
  ASSUME TypeOK, QueueInv, GetLine
  PROVE /\ current' \in 1..Len(sent) /\ current' = current + 1
        /\ current' <= position["stdout"]
        /\ queue[1] = Entry("stdout", current')
<1>1. /\ queue[1] = Head(queue) /\ 1 \in DOMAIN queue /\ IsLine(1)
      /\ current' = queue[1].line
      /\ queue[1] \in [stream : Streams, line : Nat]
  BY QueueTypes DEF GetLine, IsLine, TypeOK
<1>2. /\ position["stdout"] \in Nat /\ position["stdout"] <= Len(sent) /\ Len(sent) \in Nat
      /\ current \in Nat
  BY DEF TypeOK, Written, LineNumbers
<1>3. current' > current /\ current' <= position["stdout"] /\ current' \in Nat
  BY <1>1 DEF QueueInv
<1>4. current' = current + 1
  <2> SUFFICES ASSUME current + 1 < current' PROVE FALSE
    BY <1>2, <1>3
  <2>1. current + 1 \in current + 1 .. position["stdout"] /\ current + 1 # position["stdout"]
    BY <1>2, <1>3
  <2>2. PICK i \in DOMAIN queue : queue[i] = Entry("stdout", current + 1)
    BY <2>1 DEF QueueInv
  <2>3. IsLine(i) /\ queue[i].line = current + 1
    BY <1>2, <2>2 DEF IsLine
  <2>4. i # 1
    BY <1>1, <2>3
  <2>5. i > 1
    BY <2>4 DEF TypeOK
  <2>6. queue[1].line < queue[i].line
    BY <1>1, <2>3, <2>5 DEF QueueInv
  <2> QED BY <1>1, <1>2, <1>3, <2>3, <2>6
<1>5. queue[1] = Entry("stdout", current')
  BY <1>1 DEF IsLine
<1> QED BY <1>2, <1>3, <1>4, <1>5

(* Each step keeps the types.                                              *)
LEMMA TypeStep == ASSUME TypeOK, QueueInv, Next PROVE TypeOK'
<1> DEFINE Entries == [stream : Streams, line : Nat]
<1>1. sent' \in Seq(Lines) /\ Len(sent') <= MaxLines /\ Len(sent') >= Len(sent)
  <2>1. CASE ChildWrites
    BY <2>1 DEF ChildWrites, TypeOK
  <2>2. CASE ~ChildWrites
    <3>1. sent' = sent
      BY <2>2, StepCases
         DEF ChildWritesError, ChildReads, ChildCloses, ChildExits, Start, Send,
             SendTooLong, SendBroken, CheckBounds, GetEmpty, Poll, GetOther, GetLine, Dispatch,
             Cleanup, Deadline, Hook, ReadLine, ReadOverflow, ReadUndecodable, ReadEof, PutEof
    <3> QED BY <3>1 DEF TypeOK
  <2> QED BY <2>1, <2>2
<1>2. /\ process' \in {"unborn", "running", "killed", "exited"}
      /\ pc' \in {"start", "task", "check", "get", "poll", "dispatch", "reply", "cleanup",
                  "returned"}
      /\ result' \in Failures \cup {"none", "final"}
      /\ noise' \in 0..MaxNoise /\ noise' >= noise
  <2>1. process' \in {"unborn", "running", "killed", "exited"}
    BY StepCases
       DEF TypeOK, ChildWrites, ChildWritesError, ChildReads, ChildCloses, ChildExits, Start, Send,
           SendTooLong, SendBroken, CheckBounds, Fail, GetEmpty, Poll, GetOther, GetLine, Dispatch,
           Cleanup, Deadline, Hook, Terminate, ReadLine, ReadOverflow, ReadUndecodable, ReadEof, PutEof
  <2>2. pc' \in {"start", "task", "check", "get", "poll", "dispatch", "reply", "cleanup",
                "returned"}
    BY StepCases
       DEF TypeOK, ChildWrites, ChildWritesError, ChildReads, ChildCloses, ChildExits, Start, Send,
           SendTooLong, SendBroken, CheckBounds, Fail, GetEmpty, Poll, GetOther, GetLine, Dispatch,
           Cleanup, Deadline, Hook, Terminate, ReadLine, ReadOverflow, ReadUndecodable, ReadEof, PutEof
  <2>3. result' \in Failures \cup {"none", "final"}
    BY StepCases
       DEF TypeOK, ChildWrites, ChildWritesError, ChildReads, ChildCloses, ChildExits, Start, Send,
           SendTooLong, SendBroken, CheckBounds, Fail, GetEmpty, Poll, GetOther, GetLine, Dispatch,
           Cleanup, Deadline, Hook, Terminate, ReadLine, ReadOverflow, ReadUndecodable, ReadEof, PutEof
  <2>4. noise' \in 0..MaxNoise /\ noise' >= noise
    <3>1. noise' = noise \/ (noise < MaxNoise /\ noise' = noise + 1)
      BY StepCases
         DEF ChildWrites, ChildWritesError, ChildReads, ChildCloses, ChildExits, Start, Send,
             SendTooLong, SendBroken, CheckBounds, GetEmpty, Poll, GetOther, GetLine, Dispatch,
             Cleanup, Deadline, Hook, ReadLine, ReadOverflow, ReadUndecodable, ReadEof, PutEof
    <3> QED BY <3>1 DEF TypeOK
  <2> QED BY <2>1, <2>2, <2>3, <2>4
<1>3. /\ open' \in BOOLEAN /\ lineOverflow' \in BOOLEAN /\ outputOverflow' \in BOOLEAN
      /\ late' \in BOOLEAN /\ hook' \in BOOLEAN
  <2> USE StepCases DEF TypeOK
  <2>1. open' \in BOOLEAN
    BY DEF ChildWrites, ChildWritesError, ChildReads, ChildCloses, ChildExits, Start, Send,
           SendTooLong, SendBroken, CheckBounds, GetEmpty, Poll, GetOther, GetLine, Dispatch,
           Cleanup, Deadline, Hook, ReadLine, ReadOverflow, ReadUndecodable, ReadEof, PutEof
  <2>2. lineOverflow' \in BOOLEAN /\ outputOverflow' \in BOOLEAN
    BY DEF ChildWrites, ChildWritesError, ChildReads, ChildCloses, ChildExits, Start, Send,
           SendTooLong, SendBroken, CheckBounds, GetEmpty, Poll, GetOther, GetLine, Dispatch,
           Cleanup, Deadline, Hook, ReadLine, ReadOverflow, ReadUndecodable, ReadEof, PutEof
  <2>3. late' \in BOOLEAN /\ hook' \in BOOLEAN
    BY DEF ChildWrites, ChildWritesError, ChildReads, ChildCloses, ChildExits, Start, Send,
           SendTooLong, SendBroken, CheckBounds, GetEmpty, Poll, GetOther, GetLine, Dispatch,
           Cleanup, Deadline, Hook, ReadLine, ReadOverflow, ReadUndecodable, ReadEof, PutEof
  <2> QED BY <2>1, <2>2, <2>3
<1>4. reader' \in [Streams -> {"unborn", "reading", "eof", "ended"}]
  BY StepCases
     DEF TypeOK, ChildWrites, ChildWritesError, ChildReads, ChildCloses, ChildExits, Start, Send,
         SendTooLong, SendBroken, CheckBounds, GetEmpty, Poll, GetOther, GetLine, Dispatch,
         Cleanup, Deadline, Hook, ReadLine, ReadOverflow, ReadUndecodable, ReadEof, PutEof
<1>5. /\ position' \in [Streams -> Nat]
      /\ \A s \in Streams : position'[s] <= Written(s)'
  <2>1. CASE \E s \in Streams : ReadLine(s) \/ ReadOverflow(s)
    <3>1. PICK s \in Streams : ReadLine(s) \/ ReadOverflow(s)
      BY <2>1
    <3>2. /\ position' = [position EXCEPT ![s] = position[s] + 1]
          /\ position[s] < Written(s)
          /\ sent' = sent /\ noise' = noise
      BY <3>1 DEF ReadLine, ReadOverflow, Decoded
    <3> QED BY <3>2 DEF TypeOK, Written
  <2>2. CASE ~\E s \in Streams : ReadLine(s) \/ ReadOverflow(s)
    <3>1. position' = position
      BY <2>2, StepCases
         DEF ChildWrites, ChildWritesError, ChildReads, ChildCloses, ChildExits, Start, Send,
             SendTooLong, SendBroken, CheckBounds, GetEmpty, Poll, GetOther, GetLine, Dispatch,
             Cleanup, Deadline, Hook, ReadUndecodable, ReadEof, PutEof
    <3> QED BY <1>1, <1>2, <3>1 DEF TypeOK, Written
  <2> QED BY <2>1, <2>2
<1>6. queue' \in Seq(Entries) /\ Len(queue') <= MaxPending
  <2>1. CASE \E s \in Streams, n \in Nat :
               queue' = Append(queue, Entry(s, n)) /\ Len(queue) < MaxPending
    <3>1. PICK s \in Streams, n \in Nat :
            queue' = Append(queue, Entry(s, n)) /\ Len(queue) < MaxPending
      BY <2>1
    <3>2. Append(queue, Entry(s, n)) \in Seq(Entries)
      BY QueueTypes
    <3>3. Len(Append(queue, Entry(s, n))) = Len(queue) + 1 /\ Len(queue) \in Nat
      BY DEF TypeOK
    <3> QED BY <3>1, <3>2, <3>3
  <2>2. CASE queue # <<>> /\ queue' = Tail(queue)
    BY <2>2, QueueTypes DEF TypeOK
  <2>3. CASE queue' = queue
    BY <2>3 DEF TypeOK
  <2>4. ASSUME NEW s \in Streams, ReadLine(s)
        PROVE  \E n \in Nat : queue' = Append(queue, Entry(s, n)) /\ Len(queue) < MaxPending
    BY <2>4, <1>5 DEF ReadLine
  <2>5. ASSUME NEW s \in Streams, PutEof(s)
        PROVE  \/ \E n \in Nat : queue' = Append(queue, Entry(s, n)) /\ Len(queue) < MaxPending
               \/ queue' = queue
    BY <2>5 DEF PutEof
  <2>6. CASE ~\E s \in Streams : ReadLine(s) \/ PutEof(s)
    <3>1. queue' = queue \/ (queue # <<>> /\ queue' = Tail(queue))
      BY <2>6, StepCases
         DEF ChildWrites, ChildWritesError, ChildReads, ChildCloses, ChildExits, Start, Send,
             SendTooLong, SendBroken, CheckBounds, GetEmpty, Poll, GetOther, GetLine, Dispatch,
             Cleanup, Deadline, Hook, ReadOverflow, ReadUndecodable, ReadEof
    <3> QED BY <2>2, <2>3, <3>1
  <2> QED BY <2>1, <2>3, <2>4, <2>5, <2>6
<1>7. current' \in LineNumbers
  <2>1. CASE GetLine
    BY <2>1, TakenLine DEF TypeOK, LineNumbers
  <2>2. CASE ~GetLine
    <3>1. current' = current
      BY <2>2, StepCases
         DEF ChildWrites, ChildWritesError, ChildReads, ChildCloses, ChildExits, Start, Send,
             SendTooLong, SendBroken, CheckBounds, Fail, GetEmpty, Poll, GetOther, Dispatch,
             Cleanup, Deadline, Hook, ReadLine, ReadOverflow, ReadUndecodable, ReadEof, PutEof
    <3> QED BY <3>1 DEF TypeOK
  <2> QED BY <2>1, <2>2
<1>8. reply' \in Reply /\ applied' \in Seq(LineNumbers)
  <2>1. CASE Dispatch
    <3>1. current \in LineNumbers /\ applied \in Seq(LineNumbers)
      BY DEF TypeOK
    <3>2. Append(applied, current) \in Seq(LineNumbers)
      BY <3>1
    <3>3. \A ok \in BOOLEAN : [call |-> current, ok |-> ok] \in Reply
      BY <3>1 DEF Reply
    <3> QED BY <2>1, <3>1, <3>2, <3>3 DEF Dispatch
  <2>2. CASE SendTooLong
    BY <2>2 DEF SendTooLong, Fail, TypeOK, Reply
  <2>3. CASE ~Dispatch /\ ~SendTooLong
    <3>1. reply' = reply /\ applied' = applied
      BY <2>3, StepCases
         DEF ChildWrites, ChildWritesError, ChildReads, ChildCloses, ChildExits, Start, Send,
             SendBroken, CheckBounds, Fail, GetEmpty, Poll, GetOther, GetLine,
             Cleanup, Deadline, Hook, ReadLine, ReadOverflow, ReadUndecodable, ReadEof, PutEof
    <3> QED BY <3>1 DEF TypeOK
  <2> QED BY <2>1, <2>2, <2>3
<1>9. replies' \in Seq(Reply) /\ taken' \in 0..Len(replies')
  <2>1. CASE Send
    BY <2>1 DEF Send, TypeOK
  <2>2. CASE ChildReads
    BY <2>2 DEF ChildReads, TypeOK
  <2>3. CASE ~Send /\ ~ChildReads
    <3>1. replies' = replies /\ taken' = taken
      BY <2>3, StepCases
         DEF ChildWrites, ChildWritesError, ChildCloses, ChildExits, Start,
             SendTooLong, SendBroken, CheckBounds, Fail, GetEmpty, Poll, GetOther, GetLine, Dispatch,
             Cleanup, Deadline, Hook, ReadLine, ReadOverflow, ReadUndecodable, ReadEof, PutEof
    <3> QED BY <3>1 DEF TypeOK
  <2> QED BY <2>1, <2>2, <2>3
<1> QED BY <1>1, <1>2, <1>3, <1>4, <1>5, <1>6, <1>7, <1>8, <1>9 DEF TypeOK

-----------------------------------------------------------------------------
(* The queue.                                                              *)

(* A reader that has stopped never reads again.                            *)
LEMMA Stopped ==
  ASSUME TypeOK, StartInv, Next
  PROVE /\ StartInv'
        /\ reader["stdout"] \in {"eof", "ended"} => reader'["stdout"] \in {"eof", "ended"}
<1> USE DEF TypeOK, StartInv
<1>1. CASE \E s \in Streams : \/ ReadLine(s) \/ ReadOverflow(s) \/ ReadUndecodable(s)
                               \/ ReadEof(s) \/ PutEof(s)
  BY <1>1 DEF ReadLine, ReadOverflow, ReadUndecodable, ReadEof, PutEof
<1>2. CASE Start
  BY <1>2 DEF Start
<1>3. CASE ~Start /\ ~\E s \in Streams : \/ ReadLine(s) \/ ReadOverflow(s) \/ ReadUndecodable(s)
                                         \/ ReadEof(s) \/ PutEof(s)
  <2>1. reader' = reader /\ (pc' = "start" => pc = "start")
    BY <1>3, StepCases
       DEF ChildWrites, ChildWritesError, ChildReads, ChildCloses, ChildExits, Send,
           SendTooLong, SendBroken, CheckBounds, Fail, GetEmpty, Poll, GetOther, GetLine,
           Dispatch, Cleanup, Deadline, Hook
  <2> QED BY <2>1
<1> QED BY <1>1, <1>2, <1>3

(* What the queue invariant is about stays, but for the steps that touch   *)
(* the queue or what the child has written.                                *)
LEMMA QueueKept ==
  ASSUME Next, ~ChildWrites, ~GetOther, ~GetLine,
         \A s \in Streams : ~ReadLine(s) /\ ~ReadOverflow(s) /\ ~PutEof(s)
  PROVE /\ queue' = queue /\ current' = current /\ position' = position /\ sent' = sent
        /\ lineOverflow' = lineOverflow /\ outputOverflow' = outputOverflow
BY StepCases
   DEF ChildWritesError, ChildReads, ChildCloses, ChildExits, Start, Send,
       SendTooLong, SendBroken, CheckBounds, Fail, GetEmpty, Poll, Dispatch,
       Cleanup, Deadline, Hook, ReadUndecodable, ReadEof

(* An entry put behind the others keeps them, and one taken moves them up. *)
LEMMA Appended ==
  ASSUME TypeOK, NEW e \in [stream : Streams, line : Nat], queue' = Append(queue, e)
  PROVE /\ DOMAIN queue = 1..Len(queue) /\ Len(queue) \in Nat
        /\ DOMAIN queue' = 1..Len(queue) + 1
        /\ \A i \in DOMAIN queue : queue'[i] = queue[i]
        /\ queue'[Len(queue) + 1] = e
BY DEF TypeOK

LEMMA Popped ==
  ASSUME TypeOK, queue # <<>>, queue' = Tail(queue)
  PROVE /\ DOMAIN queue = 1..Len(queue) /\ Len(queue) \in Nat \ {0}
        /\ DOMAIN queue' = 1..Len(queue) - 1
        /\ \A i \in DOMAIN queue' : i + 1 \in DOMAIN queue /\ queue'[i] = queue[i + 1]
BY DEF TypeOK

(* Each step keeps the queue in order and complete.                        *)
LEMMA QueueStep == ASSUME TypeOK, StartInv, QueueInv, Next PROVE QueueInv'
<1>1. CASE ChildWrites
  <2>1. /\ queue' = queue /\ current' = current /\ position' = position
        /\ lineOverflow' = lineOverflow /\ outputOverflow' = outputOverflow
        /\ reader' = reader
        /\ \A i \in 1..Len(sent) : sent'[i] = sent[i]
    BY <1>1 DEF ChildWrites, TypeOK
  <2>2. position["stdout"] <= Len(sent) /\ position["stdout"] \in Nat
    BY DEF TypeOK, Written
  <2>3. \A i \in DOMAIN queue : queue[i] \in [stream : Streams, line : Nat]
    BY EntriesTyped
  <2>4. \A i \in DOMAIN queue : IsLine(i) => queue[i].line \in 1..Len(sent)
    BY <2>2, <2>3 DEF QueueInv, IsLine, TypeOK
  <2> QED BY <2>1, <2>4 DEF QueueInv, IsLine
<1>2. CASE GetOther
  <2>1. queue # <<>> /\ queue' = Tail(queue) /\ ~IsLine(1)
        /\ current' = current /\ position' = position /\ sent' = sent /\ reader' = reader
        /\ lineOverflow' = lineOverflow /\ outputOverflow' = outputOverflow
    BY <1>2, QueueTypes DEF GetOther, IsLine
  <2>2. \A l \in Nat \ {0}, i \in DOMAIN queue :
          queue[i] = Entry("stdout", l) => i - 1 \in DOMAIN queue' /\ queue'[i - 1] = queue[i]
    BY <2>1, Popped DEF IsLine
  <2>3. current \in Nat
    BY DEF TypeOK, LineNumbers
  <2> QED BY <2>1, <2>2, <2>3, Popped DEF QueueInv, IsLine
<1>3. CASE GetLine
  <2>1. queue # <<>> /\ queue' = Tail(queue) /\ IsLine(1) /\ queue[1] = Entry("stdout", current')
        /\ current' = current + 1 /\ current' <= position["stdout"]
        /\ position' = position /\ sent' = sent /\ reader' = reader
        /\ lineOverflow' = lineOverflow /\ outputOverflow' = outputOverflow
    BY <1>3, QueueTypes, TakenLine DEF GetLine, IsLine
  <2>2. \A l \in Nat, i \in DOMAIN queue :
          queue[i] = Entry("stdout", l) /\ l > current' =>
            i - 1 \in DOMAIN queue' /\ queue'[i - 1] = queue[i]
    BY <2>1, Popped
  <2>3. current \in Nat /\ position["stdout"] \in Nat
    BY DEF TypeOK, LineNumbers
  <2>4. \A i \in DOMAIN queue' : IsLine(i)' => IsLine(i + 1) /\ queue'[i].line > current'
    BY <2>1, Popped DEF QueueInv, IsLine
  <2>5. \A i, j \in DOMAIN queue' :
          i < j /\ IsLine(i)' /\ IsLine(j)' => queue'[i].line < queue'[j].line
    BY <2>1, <2>4, Popped DEF QueueInv, IsLine
  <2>6. \A i \in DOMAIN queue' : IsLine(i)' => /\ queue'[i].line > current'
                                               /\ queue'[i].line <= position'["stdout"]
                                               /\ sent'[queue'[i].line] # "long"
    BY <2>1, <2>4, Popped DEF QueueInv
  <2>7. ASSUME NEW l \in current' + 1 .. position'["stdout"]
        PROVE  \/ \E i \in DOMAIN queue' : queue'[i] = Entry("stdout", l)
               \/ /\ l = position'["stdout"] /\ reader'["stdout"] \in {"eof", "ended"}
                  /\ lineOverflow' \/ outputOverflow'
    <3>1. l \in Nat /\ l > current' /\ l \in current + 1 .. position["stdout"]
      BY <2>1, <2>3
    <3> QED BY <2>1, <2>2, <3>1 DEF QueueInv
  <2> QED BY <2>1, <2>5, <2>6, <2>7 DEF QueueInv
<1>4. ASSUME NEW s \in Streams, ReadLine(s) PROVE QueueInv'
  <2>1. /\ position' = [position EXCEPT ![s] = position[s] + 1]
        /\ position[s] \in Nat /\ position[s] + 1 \in Nat /\ position[s] + 1 # 0
        /\ queue' = Append(queue, Entry(s, position[s] + 1))
        /\ reader[s] = "reading" /\ reader' = reader
        /\ current' = current /\ sent' = sent /\ current \in Nat
        /\ lineOverflow' = lineOverflow /\ outputOverflow' = outputOverflow
        /\ s = "stdout" => sent[position[s] + 1] # "long"
    BY <1>4 DEF ReadLine, TooLong, TypeOK, LineNumbers
  <2>2. PICK n \in Nat : /\ DOMAIN queue' = 1..n + 1
                         /\ DOMAIN queue = 1..n
                         /\ \A i \in DOMAIN queue : queue'[i] = queue[i]
                         /\ queue'[n + 1] = Entry(s, position[s] + 1)
    BY <2>1, Appended
  <2>3. \A i \in DOMAIN queue : queue[i] \in [stream : Streams, line : Nat]
    BY EntriesTyped
  <2>4. CASE s = "stdout"
    <3> USE <2>4
    <3>1. position'["stdout"] = position["stdout"] + 1
      BY <2>1 DEF TypeOK
    <3>2. IsLine(n + 1)' /\ \A i \in DOMAIN queue : IsLine(i)' <=> IsLine(i)
      BY <2>1, <2>2 DEF IsLine
    <3>3. \A i \in DOMAIN queue' : IsLine(i)' => /\ queue'[i].line > current'
                                                 /\ queue'[i].line <= position'["stdout"]
                                                 /\ sent'[queue'[i].line] # "long"
      BY <2>1, <2>2, <2>3, <3>1, <3>2 DEF QueueInv
    <3>4. \A i, j \in DOMAIN queue' :
            i < j /\ IsLine(i)' /\ IsLine(j)' => queue'[i].line < queue'[j].line
      BY <2>1, <2>2, <2>3, <3>1, <3>2 DEF QueueInv
    <3>5. ASSUME NEW l \in current' + 1 .. position'["stdout"]
          PROVE \E i \in DOMAIN queue' : queue'[i] = Entry("stdout", l)
      BY <2>1, <2>2, <3>1 DEF QueueInv
    <3>6. current' <= position'["stdout"]
      BY <2>1, <3>1 DEF QueueInv
    <3> QED BY <3>3, <3>4, <3>5, <3>6 DEF QueueInv
  <2>5. CASE s = "stderr"
    <3> USE <2>5
    <3>1. position'["stdout"] = position["stdout"]
      BY <2>1 DEF TypeOK
    <3>2. ~IsLine(n + 1)' /\ \A i \in DOMAIN queue : IsLine(i)' <=> IsLine(i)
      BY <2>1, <2>2 DEF IsLine
    <3> QED BY <2>1, <2>2, <3>1, <3>2 DEF QueueInv
  <2> QED BY <2>4, <2>5
<1>5. ASSUME NEW s \in Streams, ReadOverflow(s) PROVE QueueInv'
  <2>1. /\ position' = [position EXCEPT ![s] = position[s] + 1]
        /\ position \in [Streams -> Nat] /\ reader' = [reader EXCEPT ![s] = "eof"]
        /\ reader[s] = "reading" /\ reader \in [Streams -> {"unborn", "reading", "eof", "ended"}]
        /\ queue' = queue /\ current' = current /\ sent' = sent /\ current \in Nat
        /\ lineOverflow' \/ outputOverflow'
        /\ lineOverflow => lineOverflow' 
        /\ outputOverflow => outputOverflow'
    BY <1>5 DEF ReadOverflow, TypeOK, LineNumbers
  <2>2. \A i \in DOMAIN queue : queue[i] \in [stream : Streams, line : Nat]
    BY EntriesTyped
  <2>3. CASE s = "stdout"
    BY <2>1, <2>2, <2>3 DEF QueueInv, IsLine
  <2>4. CASE s = "stderr"
    BY <2>1, <2>2, <2>4 DEF QueueInv, IsLine
  <2> QED BY <2>3, <2>4
<1>6. ASSUME NEW s \in Streams, PutEof(s) PROVE QueueInv'
  <2>1. /\ position' = position /\ current' = current /\ sent' = sent
        /\ queue' \in {queue, Append(queue, Entry(s, 0))}
        /\ lineOverflow => lineOverflow'
        /\ outputOverflow => outputOverflow'
    BY <1>6 DEF PutEof
  <2>2. reader["stdout"] \in {"eof", "ended"} => reader'["stdout"] \in {"eof", "ended"}
    BY Stopped
  <2>3. CASE queue' = queue
    BY <2>1, <2>2, <2>3 DEF QueueInv, IsLine
  <2>4. CASE queue' = Append(queue, Entry(s, 0))
    <3>1. PICK n \in Nat : /\ DOMAIN queue' = 1..n + 1
                           /\ DOMAIN queue = 1..n
                           /\ \A i \in DOMAIN queue : queue'[i] = queue[i]
                           /\ queue'[n + 1] = Entry(s, 0)
      BY <2>4, Appended
    <3>2. ~IsLine(n + 1)' /\ \A i \in DOMAIN queue : IsLine(i)' <=> IsLine(i)
      BY <3>1 DEF IsLine
    <3> QED BY <2>1, <2>2, <3>1, <3>2 DEF QueueInv
  <2> QED BY <2>1, <2>3, <2>4
<1>7. CASE /\ ~ChildWrites /\ ~GetOther /\ ~GetLine
           /\ \A s \in Streams : ~ReadLine(s) /\ ~ReadOverflow(s) /\ ~PutEof(s)
  BY <1>7, QueueKept, Stopped DEF QueueInv, IsLine
<1> QED BY <1>1, <1>2, <1>3, <1>4, <1>5, <1>6, <1>7

-----------------------------------------------------------------------------
(* The ends of the streams.                                                *)

(* A reader that has stopped stays where it is.                            *)
LEMMA StaysStopped ==
  ASSUME TypeOK, StartInv, Next, reader["stdout"] \in {"eof", "ended"}
  PROVE /\ position'["stdout"] = position["stdout"]
        /\ ~open => ~open'
        /\ lineOverflow => lineOverflow'
        /\ outputOverflow => outputOverflow'
<1> USE DEF TypeOK
<1>1. CASE \E s \in Streams : ReadLine(s) \/ ReadOverflow(s)
  BY <1>1 DEF ReadLine, ReadOverflow
<1>2. CASE Start
  BY <1>2 DEF Start, StartInv
<1>3. CASE ~Start /\ ~\E s \in Streams : ReadLine(s) \/ ReadOverflow(s)
  <2>1. position' = position
    BY <1>3, StepCases
       DEF ChildWrites, ChildWritesError, ChildReads, ChildCloses, ChildExits, Send,
           SendTooLong, SendBroken, CheckBounds, GetEmpty, Poll, GetOther, GetLine,
           Dispatch, Cleanup, Deadline, Hook, ReadUndecodable, ReadEof, PutEof
  <2>2. open' = open \/ open' = FALSE
    BY <1>3, StepCases
       DEF ChildWrites, ChildWritesError, ChildReads, ChildCloses, ChildExits, Send,
           SendTooLong, SendBroken, CheckBounds, GetEmpty, Poll, GetOther, GetLine,
           Dispatch, Cleanup, Deadline, Hook, ReadUndecodable, ReadEof, PutEof
  <2>3. lineOverflow' = lineOverflow /\ (outputOverflow' = outputOverflow \/ outputOverflow')
    BY <1>3, StepCases
       DEF ChildWrites, ChildWritesError, ChildReads, ChildCloses, ChildExits, Send,
           SendTooLong, SendBroken, CheckBounds, GetEmpty, Poll, GetOther, GetLine,
           Dispatch, Cleanup, Deadline, Hook, ReadUndecodable, ReadEof, PutEof
  <2> QED BY <2>1, <2>2, <2>3
<1> QED BY <1>1, <1>2, <1>3

(* What the child has written stays written, and a closed pipe takes no    *)
(* more.                                                                   *)
LEMMA SentKept ==
  ASSUME TypeOK, Next
  PROVE /\ Len(sent) \in Nat /\ Len(sent') \in Nat /\ Len(sent) <= Len(sent')
        /\ \A i \in 1..Len(sent) : sent'[i] = sent[i]
        /\ ~open => sent' = sent
<1>1. CASE ChildWrites
  BY <1>1 DEF ChildWrites, Connected, TypeOK
<1>2. CASE ~ChildWrites
  <2>1. sent' = sent
    BY <1>2, StepCases
       DEF ChildWritesError, ChildReads, ChildCloses, ChildExits, Start, Send,
           SendTooLong, SendBroken, CheckBounds, GetEmpty, Poll, GetOther, GetLine, Dispatch,
           Cleanup, Deadline, Hook, ReadLine, ReadOverflow, ReadUndecodable, ReadEof, PutEof
  <2> QED BY <2>1 DEF TypeOK
<1> QED BY <1>1, <1>2

(* A reader stops with a flag, before bytes it cannot decode, or at the end *)
(* of the stream.                                                          *)
LEMMA Stops ==
  ASSUME TypeOK, StartInv, Next,
         reader["stdout"] \notin {"eof", "ended"}, reader'["stdout"] \in {"eof", "ended"}
  PROVE ReadOverflow("stdout") \/ ReadUndecodable("stdout") \/ ReadEof("stdout")
<1> USE DEF TypeOK
<1>1. CASE \E s \in Streams : \/ ReadLine(s) \/ ReadOverflow(s) \/ ReadUndecodable(s)
                               \/ ReadEof(s) \/ PutEof(s)
  BY <1>1 DEF ReadLine, ReadOverflow, ReadUndecodable, ReadEof, PutEof
<1>2. CASE ~\E s \in Streams : \/ ReadLine(s) \/ ReadOverflow(s) \/ ReadUndecodable(s)
                                \/ ReadEof(s) \/ PutEof(s)
  <2>1. reader' = reader \/ reader' = [s \in Streams |-> "reading"]
    BY <1>2, StepCases
       DEF ChildWrites, ChildWritesError, ChildReads, ChildCloses, ChildExits, Start, Send,
           SendTooLong, SendBroken, CheckBounds, GetEmpty, Poll, GetOther, GetLine,
           Dispatch, Cleanup, Deadline, Hook
  <2> QED BY <2>1
<1> QED BY <1>1, <1>2

LEMMA EndStep == ASSUME TypeOK, StartInv, EndInv, Next PROVE EndInv'
<1> SUFFICES ASSUME reader'["stdout"] \in {"eof", "ended"}
             PROVE  \/ lineOverflow' \/ outputOverflow' \/ Undecodable("stdout")'
                    \/ position'["stdout"] = Len(sent') /\ ~open'
  BY DEF EndInv
<1>1. position["stdout"] \in Nat /\ position \in [Streams -> Nat]
  BY DEF TypeOK
<1>2. ASSUME Undecodable("stdout"), position'["stdout"] = position["stdout"]
      PROVE  Undecodable("stdout")'
  <2>1. PICK i \in position["stdout"] + 1 .. Len(sent) : sent[i] = "undecodable"
    BY <1>2 DEF Undecodable
  <2>2. i \in 1..Len(sent) /\ i \in position'["stdout"] + 1 .. Len(sent')
    BY <1>1, <1>2, SentKept
  <2> QED BY <2>1, <2>2, SentKept DEF Undecodable
<1>3. CASE reader["stdout"] \in {"eof", "ended"}
  BY <1>2, <1>3, StaysStopped, SentKept DEF EndInv
<1>4. CASE ReadOverflow("stdout")
  BY <1>4 DEF ReadOverflow
<1>5. CASE ReadUndecodable("stdout")
  BY <1>2, <1>5 DEF ReadUndecodable
<1>6. CASE ReadEof("stdout")
  BY <1>6 DEF ReadEof, Written
<1> QED BY <1>3, <1>4, <1>5, <1>6, Stops

-----------------------------------------------------------------------------
(* The conversation.                                                       *)

LEMMA ConversationTypes ==
  ASSUME TypeOK, QueueInv
  PROVE /\ Len(replies) \in Nat /\ DOMAIN replies = 1..Len(replies)
        /\ Len(applied) \in Nat /\ DOMAIN applied = 1..Len(applied)
        /\ \A i \in DOMAIN applied : applied[i] \in Nat
        /\ \A k \in DOMAIN replies : replies[k] \in Reply
        /\ current \in Nat /\ reply \in Reply
        /\ Len(sent) \in Nat /\ current <= Len(sent)
  BY DEF TypeOK, QueueInv, LineNumbers, Written

(* Sending a result that belongs to the current call.                      *)
LEMMA SendStep == ASSUME TypeOK, QueueInv, ConversationInv, Send PROVE ConversationInv'
<1>1. /\ pc \in {"task", "reply"} /\ pc' = "check"
      /\ replies' = Append(replies, reply) /\ current' = current /\ applied' = applied
      /\ reply' = reply /\ result' = result /\ sent' = sent
  BY DEF Send
<1>2. PICK n \in Nat : n = Len(replies)
  BY ConversationTypes
<1>3. /\ Len(replies') = n + 1 /\ DOMAIN replies' = 1..n + 1 /\ replies'[n + 1] = reply
      /\ \A k \in 1..n : replies'[k] = replies[k]
  BY <1>1, <1>2 DEF TypeOK
<1>4. n = current /\ reply.call = current /\ current \in Nat /\ result = "none"
  BY <1>1, <1>2, ConversationTypes DEF ConversationInv, PointInv
<1>5. AnsweredInOrder'
  <2>1. \A k \in DOMAIN replies' : replies'[k].call = k - 1
    BY <1>2, <1>3, <1>4, ConversationTypes DEF ConversationInv, AnsweredInOrder
  <2>2. ASSUME NEW k \in DOMAIN replies', k > 1, replies'[k].ok
        PROVE Contains(applied, k - 1)
    BY <1>1, <1>2, <1>3, <1>4, <2>2, ConversationTypes
       DEF ConversationInv, AnsweredInOrder, PointInv
  <2>3. Len(replies') >= current'
    BY <1>1, <1>3, <1>4
  <2> QED BY <1>1, <2>1, <2>2, <2>3 DEF ConversationInv, AnsweredInOrder, Contains
<1>6. PointInv' /\ AppliedInv' /\ FinalAfterCalls'
  BY <1>1, <1>3, <1>4, ConversationTypes
     DEF ConversationInv, PointInv, AppliedInv, FinalAfterCalls
<1> QED BY <1>5, <1>6 DEF ConversationInv

(* Dispatching a call.                                                     *)
LEMMA DispatchStep == ASSUME TypeOK, QueueInv, ConversationInv, Dispatch PROVE ConversationInv'
<1>1. /\ pc = "dispatch" /\ pc' = "reply" /\ replies' = replies /\ current' = current
      /\ result' = result /\ sent' = sent
      /\ \/ applied' = Append(applied, current) /\ reply'.call = current
         \/ applied' = applied /\ reply' = [call |-> current, ok |-> FALSE]
  BY DEF Dispatch
<1>2. PICK n \in Nat : n = Len(applied)
  BY ConversationTypes
<1>3. CASE applied' = applied /\ reply' = [call |-> current, ok |-> FALSE]
  BY <1>1, <1>3, ConversationTypes
     DEF ConversationInv, PointInv, AppliedInv, AnsweredInOrder, FinalAfterCalls, Contains
<1>4. CASE applied' = Append(applied, current) /\ reply'.call = current
  <2>1. /\ Len(applied') = n + 1 /\ DOMAIN applied' = 1..n + 1 /\ DOMAIN applied = 1..n
        /\ applied'[n + 1] = current
        /\ \A i \in 1..n : applied'[i] = applied[i]
    BY <1>2, <1>4, ConversationTypes DEF TypeOK
  <2>2. \A i \in 1..n : applied[i] < current /\ applied[i] \in Nat
    BY <1>1, <2>1, ConversationTypes DEF ConversationInv, AppliedInv
  <2>3. Contains(applied, current)' /\ \A c : Contains(applied, c) => Contains(applied, c)'
    BY <1>1, <1>2, <2>1 DEF Contains
  <2>4. AnsweredInOrder'
    BY <1>1, <2>1, <2>2, <2>3, ConversationTypes DEF ConversationInv, AnsweredInOrder
  <2>5. PointInv'
    BY <1>1, <1>4, <2>3 DEF ConversationInv, PointInv
  <2>6. AppliedInv' /\ FinalAfterCalls'
    BY <1>1, <2>1, <2>2, ConversationTypes
       DEF ConversationInv, PointInv, AppliedInv, FinalAfterCalls
  <2> QED BY <2>4, <2>5, <2>6 DEF ConversationInv
<1> QED BY <1>1, <1>3, <1>4

(* Taking a line, which is the next one.                                   *)
LEMMA TakeStep == ASSUME TypeOK, QueueInv, ConversationInv, GetLine PROVE ConversationInv'
<1>1. /\ pc = "get" /\ replies' = replies /\ applied' = applied /\ reply' = reply /\ sent' = sent
      /\ current' = current + 1 /\ current \in Nat
      /\ \/ sent[current'] = "call" /\ pc' = "dispatch" /\ result' = result
         \/ sent[current'] = "final" /\ pc' = "cleanup" /\ result' = "final"
         \/ pc' = "cleanup" /\ result' = "invalid"
  BY TakenLine, ConversationTypes DEF GetLine
<1>2. /\ Len(replies) = current + 1 /\ result = "none"
      /\ \A i \in 1..current : sent[i] = "call"
  BY <1>1 DEF ConversationInv, PointInv
<1>3. PointInv' /\ FinalAfterCalls'
  BY <1>1, <1>2 DEF PointInv, FinalAfterCalls
<1>4. AppliedInv'
  BY <1>1, ConversationTypes DEF ConversationInv, AppliedInv
<1>5. AnsweredInOrder'
  BY <1>1, <1>2 DEF ConversationInv, AnsweredInOrder, Contains
<1> QED BY <1>3, <1>4, <1>5 DEF ConversationInv

(* The other steps of run move on or fail.                                 *)
LEMMA OtherStep ==
  ASSUME TypeOK, QueueInv, ConversationInv, Next, ~Send, ~Dispatch, ~GetLine
  PROVE ConversationInv'
<1>1. /\ replies' = replies /\ applied' = applied /\ current' = current
      /\ \A i \in 1..Len(sent) : sent'[i] = sent[i]
  <2>1. CASE ChildWrites
    BY <2>1 DEF ChildWrites, TypeOK
  <2>2. CASE ~ChildWrites
    <3>1. sent' = sent /\ replies' = replies /\ applied' = applied /\ current' = current
      BY <2>2, StepCases
         DEF ChildWritesError, ChildReads, ChildCloses, ChildExits, Start,
             SendTooLong, SendBroken, CheckBounds, Fail, GetEmpty, Poll, GetOther,
             Cleanup, Deadline, Hook, ReadLine, ReadOverflow, ReadUndecodable, ReadEof, PutEof
    <3> QED BY <3>1
  <2> QED BY <2>1, <2>2
<1>2. \/ /\ pc' = pc /\ result' = result
         /\ reply' = reply \/ (~reply'.ok /\ reply'.call = reply.call)
      \/ /\ pc \notin {"dispatch", "returned"} /\ pc' \in {"cleanup", "returned"}
         /\ reply' = reply /\ result' \in {result} \cup Failures
      \/ pc = "start" /\ pc' = "task" /\ result' = result /\ reply' = reply
      \/ /\ pc \in {"check", "get", "poll"} /\ pc' \in {"check", "get", "poll"}
         /\ result' = result /\ reply' = reply
  BY StepCases
     DEF TypeOK, Reply, ChildWrites, ChildWritesError, ChildReads, ChildCloses, ChildExits, Start,
         SendTooLong, SendBroken, CheckBounds, Fail, GetEmpty, Poll, GetOther,
         Cleanup, Deadline, Hook, ReadLine, ReadOverflow, ReadUndecodable, ReadEof, PutEof
<1>3. \A i \in 1..current : sent'[i] = sent[i]
  BY <1>1, ConversationTypes
<1>4. PointInv'
  BY <1>1, <1>2, <1>3, ConversationTypes DEF ConversationInv, PointInv, Contains
<1>5. AppliedInv' /\ AnsweredInOrder'
  BY <1>1, <1>2 DEF ConversationInv, AppliedInv, AnsweredInOrder, Contains
<1>6. FinalAfterCalls'
  BY <1>1, <1>2, <1>3, ConversationTypes DEF ConversationInv, PointInv, FinalAfterCalls
<1> QED BY <1>4, <1>5, <1>6 DEF ConversationInv

-----------------------------------------------------------------------------
(* Theorems.                                                               *)

(* The conversation invariant and its parts are invariants.                *)
THEOREM Invariance == Spec => []IInv
<1>1. ASSUME IInv, Next PROVE IInv'
  <2> USE <1>1 DEF IInv
  <2>1. ConversationInv'
    BY SendStep, DispatchStep, TakeStep, OtherStep
  <2> QED BY <2>1, TypeStep, Stopped, QueueStep, EndStep
<1>2. ASSUME IInv, UNCHANGED vars PROVE IInv'
  BY <1>2 DEF vars, IInv, TypeOK, StartInv, QueueInv, EndInv, ConversationInv, PointInv,
              AppliedInv, AnsweredInOrder, FinalAfterCalls, Contains, IsLine, Written, Undecodable
<1> QED BY InitOK, <1>1, <1>2, PTL DEF Spec

(* The variables of the transport keep their types; in particular the      *)
(* queue never exceeds its bound.                                          *)
THEOREM TypeCorrectness == Spec => []TypeOK
BY Invariance, PTL DEF IInv

(* No line of stdout is lost or overtaken unless an overflow is flagged,   *)
(* and a reader that ended without a flag has read all or met bytes it     *)
(* cannot decode.                                                          *)
THEOREM NoLineLostAlways == Spec => []NoLineLost
<1>1. IInv => NoLineLost
  BY DEF IInv, TypeOK, QueueInv, EndInv, NoLineLost, Waiting
<1> QED BY <1>1, Invariance, PTL

(* Calls are answered once each, in their order, and honestly.             *)
THEOREM AnsweredInOrderAlways == Spec => []AnsweredInOrder
BY Invariance, PTL DEF IInv, ConversationInv

(* A final is reported only after every call before it was answered.       *)
THEOREM FinalAfterCallsAlways == Spec => []FinalAfterCalls
BY Invariance, PTL DEF IInv, ConversationInv
=============================================================================
