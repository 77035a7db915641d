-------------------------- MODULE MutationObserver --------------------------
(***************************************************************************)
(* The polling observer of a workspace (cursor_eval/observer.py) and the   *)
(* manifests it takes (canonical.py, file_manifest) while an agent writes  *)
(* and deletes the files.  A manifest is a listing and then, file by file, *)
(* a test, a read and a stat: a file that is deleted in between raises,    *)
(* and in the polling thread that ends the observation without a trace.    *)
(***************************************************************************)
EXTENDS Naturals, Sequences, FiniteSetsExt

CONSTANTS
  NumPaths,  \* how many paths there are, numbered in their sorted order
  Contents,  \* what a file may hold
  Absent,    \* no file
  MaxWrites  \* bound of the model: changes one agent makes

ASSUME ObserverAssumption ==
  /\ NumPaths \in Nat
  /\ Absent \notin Contents
  /\ MaxWrites \in Nat

VARIABLES
  files,     \* what each path holds now
  baseline,  \* self.baseline
  previous,  \* self._previous
  events,    \* self._events
  scan,      \* the manifest each thread is taking
  poll,      \* the polling thread: "sample", "last", "wait", "ended" or "died"
  stop,      \* self._stop: "clear" or "set"
  caller,    \* the trial's thread: "running", "join", "final", "returned", "raised"
  summary,   \* what stop() returns, or NoSummary
  agent,     \* "active" or "gone"
  written,   \* the paths the agent has changed
  writes,    \* how many changes it has made
  quiet      \* was the agent gone when stop() was called?

observerVars == <<baseline, previous, events, poll>>
callerVars   == <<stop, caller, summary, quiet>>
agentVars    == <<files, agent, written, writes>>
vars == <<observerVars, scan, callerVars, agentVars>>

Paths == 1..NumPaths
Manifests == [Paths -> Contents \cup {Absent}]
Present(m) == {p \in Paths : m[p] # Absent}
Nothing == [p \in Paths |-> Absent]
NoSummary == [final |-> Nothing, touched |-> {}, changed |-> {}, reverted |-> {},
              transient |-> {}, kind |-> "none"]

-----------------------------------------------------------------------------
(* file_manifest, for the polling thread and for the caller.               *)

NoScan == [at |-> "idle", todo |-> {}, seen |-> Nothing]
Listing == [NoScan EXCEPT !.at = "list"]

\* The paths that are still to be read; the smallest is next.
Continue(s, todo) ==
  [s EXCEPT !.at = IF todo = {} THEN "done" ELSE "check", !.todo = todo]

ScanStep(w) ==
  LET s == scan[w]
      p == Min(s.todo)
  IN  /\ s.at \in {"list", "check", "read", "stat"}
      /\ scan' = [scan EXCEPT ![w] =
           CASE s.at = "list" -> Continue(s, Present(files))
             [] s.at = "check" /\ files[p] = Absent -> Continue(s, s.todo \ {p})
             [] s.at = "check" /\ files[p] # Absent -> [s EXCEPT !.at = "read"]
             [] s.at = "read" /\ files[p] # Absent ->
                  [s EXCEPT !.at = "stat", !.seen[p] = files[p]]
             [] s.at = "stat" /\ files[p] # Absent -> Continue(s, s.todo \ {p})
             [] OTHER -> [s EXCEPT !.at = "failed"]]
      /\ UNCHANGED <<observerVars, callerVars, agentVars>>

-----------------------------------------------------------------------------
(* The polling thread.                                                     *)

Kind(before, after) ==
  IF before = Absent THEN "created" ELSE IF after = Absent THEN "deleted" ELSE "modified"

\* The events between two manifests, in the order of their paths.
Differences(old, new) ==
  LET upTo[p \in 0..NumPaths] ==
        IF p = 0 THEN <<>>
        ELSE IF old[p] = new[p] THEN upTo[p-1]
        ELSE Append(upTo[p-1], [path |-> p, action |-> Kind(old[p], new[p]),
                                before |-> old[p], after |-> new[p]])
  IN  upTo[NumPaths]

\* Slip: a sample is compared with the baseline.
SampleFromBaseline ==
  /\ poll \in {"sample", "last"} /\ scan["poll"].at = "done"
  /\ events' = events \o Differences(baseline, scan["poll"].seen)
  /\ previous' = scan["poll"].seen
  /\ poll' = IF poll = "last" THEN "ended" ELSE "wait"
  /\ scan' = [scan EXCEPT !["poll"] = NoScan]
  /\ UNCHANGED <<baseline, callerVars, agentVars>>

\* The rest of _sample.
Sample ==
  /\ poll \in {"sample", "last"} /\ scan["poll"].at = "done"
  /\ events' = events \o Differences(previous, scan["poll"].seen)
  /\ previous' = scan["poll"].seen
  /\ poll' = IF poll = "last" THEN "ended" ELSE "wait"
  /\ scan' = [scan EXCEPT !["poll"] = NoScan]
  /\ UNCHANGED <<baseline, callerVars, agentVars>>

\* An exception in _sample ends the thread.
SampleRaises ==
  /\ scan["poll"].at = "failed"
  /\ poll' = "died"
  /\ scan' = [scan EXCEPT !["poll"] = NoScan]
  /\ UNCHANGED <<baseline, previous, events, callerVars, agentVars>>

\* Slip: no sample is taken once the observer is told to stop.
WakeWithoutLast ==
  /\ poll = "wait"
  /\ poll' = IF stop = "set" THEN "ended" ELSE "sample"
  /\ scan' = [scan EXCEPT !["poll"] = IF stop = "set" THEN NoScan ELSE Listing]
  /\ UNCHANGED <<baseline, previous, events, callerVars, agentVars>>

\* _poll: at its start and after each wait; the sample after stop is the last.
Wake ==
  /\ poll = "wait"
  /\ poll' = IF stop = "set" THEN "last" ELSE "sample"
  /\ scan' = [scan EXCEPT !["poll"] = Listing]
  /\ UNCHANGED <<baseline, previous, events, callerVars, agentVars>>

-----------------------------------------------------------------------------
(* stop(), called by the trial's thread.                                   *)

StopCalled ==
  /\ caller = "running"
  /\ caller' = "join"
  /\ stop' = "set"
  /\ quiet' = (agent = "gone")
  /\ UNCHANGED <<observerVars, scan, summary, agentVars>>

Joined ==
  /\ caller = "join"
  /\ poll \in {"ended", "died"}
  /\ caller' = "final"
  /\ scan' = [scan EXCEPT !["stop"] = Listing]
  /\ UNCHANGED <<observerVars, stop, summary, quiet, agentVars>>

\* The thread is still sampling after the join's timeout.
JoinTimesOut ==
  /\ caller = "join"
  /\ poll \notin {"ended", "died"}
  /\ caller' = "raised"
  /\ UNCHANGED <<observerVars, scan, stop, summary, quiet, agentVars>>

Touched(log) == {log[i].path : i \in DOMAIN log}

SummaryOf(final) ==
  LET touched == Touched(events)
  IN  [final     |-> final,
       touched   |-> touched,
       changed   |-> {p \in Paths : baseline[p] # final[p]},
       reverted  |-> {p \in touched : baseline[p] = final[p]},
       transient |-> {p \in touched : baseline[p] = Absent /\ final[p] = Absent},
       kind      |-> "summary"]

StopReturns ==
  /\ caller = "final"
  /\ \/ /\ scan["stop"].at = "done"
        /\ summary' = SummaryOf(scan["stop"].seen)
        /\ caller' = "returned"
     \/ /\ scan["stop"].at = "failed"
        /\ caller' = "raised"
        /\ UNCHANGED summary
  /\ scan' = [scan EXCEPT !["stop"] = NoScan]
  /\ UNCHANGED <<observerVars, stop, quiet, agentVars>>

-----------------------------------------------------------------------------
(* The agent, which may outlive the call of stop.                          *)

Change ==
  /\ agent = "active" /\ writes < MaxWrites
  /\ \E p \in Paths, c \in Contents \cup {Absent} :
       /\ c # files[p]
       /\ files' = [files EXCEPT ![p] = c]
       /\ written' = written \cup {p}
  /\ writes' = writes + 1
  /\ UNCHANGED <<observerVars, scan, callerVars, agent>>

Leave ==
  /\ agent = "active"
  /\ agent' = "gone"
  /\ UNCHANGED <<observerVars, scan, callerVars, files, written, writes>>

-----------------------------------------------------------------------------

Init ==
  /\ files \in Manifests
  /\ baseline = files
  /\ previous = files
  /\ events = <<>>
  /\ scan = [w \in {"poll", "stop"} |-> NoScan]
  /\ poll = "wait"
  /\ stop = "clear"
  /\ caller = "running"
  /\ summary = NoSummary
  /\ agent = "active"
  /\ written = {}
  /\ writes = 0
  /\ quiet = FALSE

Next ==
  \/ \E w \in {"poll", "stop"} : ScanStep(w)
  \/ Sample \/ SampleRaises \/ Wake
  \/ StopCalled \/ Joined \/ JoinTimesOut \/ StopReturns
  \/ Change \/ Leave

Spec == Init /\ [][Next]_vars

-----------------------------------------------------------------------------

\* What the first n events of a log leave p with.
LeftWith(base, log, p, n) ==
  LET about == {i \in 1..n : log[i].path = p}
  IN  IF about = {} THEN base[p] ELSE log[Max(about)].after

(* The events about a path lead from its baseline to the last sample, each *)
(* from where the one before it ended, whatever the agent does during the  *)
(* manifests; and only a path the agent has changed has any (_sample,      *)
(* _previous).                                                             *)
EventsLeadToLastSample ==
  /\ \A i \in 1..Len(events) :
       LET e == events[i]
       IN  e.before = LeftWith(baseline, events, e.path, i - 1) /\ e.after # e.before
  /\ \A p \in Paths : LeftWith(baseline, events, p, Len(events)) = previous[p]
  /\ Touched(events) \subseteq written

(* What stop returns of a workspace whose agent was gone explains itself,  *)
(* unless the polling thread has died: every path it calls changed has an  *)
(* event, every touched path is changed or reverted, a transient one is    *)
(* reverted, and the last event of each says what the final manifest says. *)
(* A live agent or a dead thread can break it only towards more changed    *)
(* paths, never by a path nobody changed (stop, final_changed_paths).      *)
SummaryExplained ==
  summary.kind = "summary" =>
    /\ summary.touched \cup summary.changed \subseteq written
    /\ summary.touched \subseteq summary.changed \cup summary.reverted
    /\ summary.transient \subseteq summary.reverted
    /\ quiet /\ poll # "died" =>
         /\ summary.changed = summary.touched \ summary.reverted
         /\ summary.final = previous
=============================================================================
