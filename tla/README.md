# Verification of the debugging behavior study's harnesses

TLA+ specifications of the two trial harnesses of this repository,
`src/evidence_eval` (evidence-bounded workspace trials, provider workers and
pilot batches, with the public release built from them) and `src/cursor_eval` (the Cursor harness with its ledger of
registered slots), model-checked with TLC and, where it pays, proved with TLAPS.
Paths below are relative to the repository.

The harnesses decide what a published study may claim: that a budget was
respected, that a trace explains a patch, that a verifier judged the files the
model left, that an infrastructure failure was not counted as behavior, that a
slot was not rerun. Each of these rests on code that runs beside a thread or a
process it cannot stop.

## The system

| part | state | operations | talks to |
|---|---|---|---|
| workspace session (`evidence_eval/workspace_runner.py`, `_WorkspaceSession`, `WorkspaceTools`) | remaining cost, status, sealed flag, event list, checkpoints; the files of the workspace | request, edit_file, checkpoint, stop, seal, to_record | called by the adapter's thread and by the runner's, without a lock |
| workspace trial (`run_workspace_trial`) | the temporary directory, the channel table, the result, the artifacts | set up, start the adapter thread, timed join, terminate, stop and seal, observe, verify or censor, publish, clean up | session, observer, verifier, artifacts |
| subprocess adapter (`subprocess_adapter.py`) | child process, two reader threads, a bounded queue | run, terminate, dispatch | JSON lines to a provider worker, `WorkspaceTools` on the other side |
| provider worker (`provider_worker.py`) | conversation, round and call counters | one request per round, a batch of tool calls, final | a provider's HTTP API, JSON lines to its parent |
| pilot batch (`pilot.py`) | run directories, failure records, manifest | plan, run each trial, aggregate | workspace trial with a subprocess adapter |
| evidence session and unattended trial (`protocol.py`, `runner.py`) | budget, status, events of a simulated investigation | request, checkpoint, stop | adapter thread, artifacts |
| execution policy (`execution_policy.py`) | none | checks a command line and its authorization | pilot batch |
| slot ledger (`cursor_eval/reservation.py`) | `reservations.jsonl` and its lock file | reserve, consume | processes that run trials |
| Cursor trial (`cursor_eval/runner.py`, `adapters.py`, `artifacts.py`) | workspace, agent thread or process, run directory | run_trial | ledger, observer, tests, verifier, grader |
| mutation observer (`cursor_eval/observer.py`), used by both harnesses | baseline, last sample, events | start, sample, stop | the files, while an agent writes them |
| public release (`public.py`, `scripts/build_public_behavior_release.py`) | the output directory, what this build has mapped and copied | build | reads batches and runs while pilots write them |
| registrations, cases, verifiers' token checks, reports | none at run time | pure functions | files |

What is hard here:

- **Threads that outlive their timeout.** Python cannot stop a thread. After the
  timed join of a trial the adapter's thread may be in the middle of a tool call,
  on the session the runner is about to copy and the files it is about to read.
- **A session without a lock.** Each tool is a guard, a charge, a file access, a
  refund and an append, and the runner's stop, seal and copy fall between them.
- **Failures between two effects.** A write fails after it emptied the file; a
  trial raises between its reservation and its consumption; a process dies in the
  middle of a line of the ledger.
- **A child that may do anything.** The transport reads a process that can write
  without waiting, close its pipes, exit between two looks at it, or not read.
- **Two accounts of one thing.** A worker's conversation and the history its
  transport keeps, an observer's events and its final manifest, a release's first
  and second listing of the runs.
- **Bounds.** Budget, events, queue, conversation: what happens at the limit, and
  who checks it.

What makes each part correct, in the order of importance: the budget's ledger is
exact; a trace that is not censored explains the files; the verifier reads files
nobody can change; a slot is run once and settled once, by the run it had; no line
of a worker is lost and every call is answered as it went; a model
is told of everything that was done in its name, and nothing is done after it has
stopped; a directory of artifacts has one writer, and a manifest tells what the
directories tell; nothing unsafe or incomplete is released; trials, transports and
batches end.

## Modules

| module | models |
|---|---|
| `WorkspaceSession` | the session and the adapter's thread: every tool call, cut where another thread can intervene |
| `WorkspaceTrial` | the runner's thread of one workspace trial, composed with the session |
| `TrialContract` | what a bounded trial promises, as a sequential specification |
| `WorkspaceTrialProofs` | theorems about `WorkspaceTrial`, the refinement of `TrialContract` among them |
| `ReservationLedger` | the ledger of slots: lock, checks, appends, what a failed append leaves |
| `CursorTrial` | any number of Cursor trials with their agents, composed with the ledger |
| `SlotContract` | what a slot is promised |
| `CursorTrialProofs` | theorems about `CursorTrial`, the refinement of `SlotContract` among them |
| `SubprocessTransport` | one run of the subprocess adapter: child, reader threads, queue, `run`, termination |
| `SubprocessTransportProofs` | theorems about it |
| `ArtifactStore` | directories of files that are created exclusively |
| `PilotBatch` | any number of processes that run one batch, composed with the store |
| `BatchContract` | what the directories of a batch are promised |
| `PilotBatchProofs` | theorems about `PilotBatch` |
| `ProviderMessages` | the messages of a worker's conversation, the parsers and the bounds of each transport |
| `ProviderConversation` | the worker from its authorization to its final message, with the provider and the parent around it |
| `ProviderConversationProofs` | theorems about it |
| `EvidenceTrial` | an unattended trial: session, adapter's thread, runner's thread, annotations |
| `EvidenceTrialProofs` | theorems about it |
| `MutationObserver` | the polling observer and its manifests beside a writing agent |
| `MutationObserverProofs` | theorems about it |
| `PublicRelease` | the builder of a release beside running pilots |
| `PublicReleaseProofs` | theorems about it |
| `MC...` | for each of the eight systems, the instance TLC checks |

Operators named in a comment as a *slip* are plausible mistakes in the code
next to them. No specification uses them; putting one in the place of the
operator it precedes shows that a property notices it.

### The workspace trial

`WorkspaceSession` keeps the fields of `_WorkspaceSession` under their names
(`remaining`, `status`, `sealed`, `events`, `checkpoints`), the channel's entry in
`_WORKSPACE_CHANNELS`, and the program counter `wpc` of the adapter's thread. A
call is `BeginCall`, `Lookup`, then the steps of its tool: `ReserveGuard`, `ReserveBound`
and then `ReserveLimit` or `ReserveCharge` for `_reserve`, one of `PerformOk`, `PerformRefused`,
`PerformWriteError` and `PerformRaise` for the access to the files with its
refund, then `Accept` (and `Annotate` for an edit) or `Reject` and `RejectEvent`; a
checkpoint is `CheckpointBound`, then `CheckpointLimit` and `CheckpointFull` or
`CheckpointRecord`. Each step touches at most one field the runner also uses, which is what the
interpreter guarantees; where the code tests a field and then assigns another,
these are two steps. Files are one version number: what the properties ask is
which version somebody read, never its text. Arguments are chosen freely, so
every outcome of a file access can happen at every call.

`WorkspaceTrial` follows `run_workspace_trial` statement by statement: set-up, the
join that ends (`JoinFinished`) or times out (`JoinTimeout`, `Terminate`), the
runner's own `stop`, `Seal`, `CloseChannel`, the observer's final manifest, the
three reads of `to_record`, `VerifyOrCensor`, `FinalManifest`, `Publish`, and the
finally clause. `to_record` copies the list of events but not its elements; the
published trace is therefore a length, resolved when the artifacts are written.

`TrialContract` knows a balance, a ledger of accepted actions, and a phase: open,
closing (a last call may still get through), closed. `Spend` is one atomic step.
`ImplementsContract` maps the two threads to it: the balance is the counter plus
the charge of the call in flight, and a published record is a claim that is
either certified, and then complete, or censored. A charge whose tool raised is
the contract's `Forfeit`.

### The Cursor harness

In `ReservationLedger` a trial is one call of `run_trial` in a process of its own,
and stands for the reservation id it is given. The file is the sequence of the
records written in full plus the state of its last line: closed, `open` (complete
but without its newline) or `torn` (no JSON). A failed or interrupted write leaves
any of these, and a record that follows an open line tears it. The lock is the
file lock of `_append_lock`, which the system drops when its holder dies.

`CursorTrial` adds the rest of `run_trial`: the workspace, the launch, the agent
that returns, times out or raises, the five readers of the workspace in their
order, the artifacts, the consumption and the clean-up. The visible tests and the
verifier read the workspace and then run the agent's own code in it, until that
returns (`CodeReturns`) or hangs (`CodeHangs`). `Writes` is every change of the
workspace: by the agent, also one left behind by a timeout; by its code while it is
tested or verified; and by a process that the agent or its code has left behind
(`stray`), which a trial neither waits for nor notices. It may come after the
directory was deleted, which `write_text` makes again. Every step between
reserve and consume may raise (`StepRaises`), because `run_trial` handles only
`RealInvocationBlocked`; the process may die at every point (`Crash`); and after the kill
of a CLI the wait for its pipes may never end (`AgentHangs`).

`SlotContract` promises, for each slot, that it is claimed once, run at most once,
and settled at most once with the outcome class of that run. `ImplementsSlots`
derives a slot's claim from the ledger's records and its run from its trials.

### The subprocess transport

`SubprocessTransport` follows `SubprocessWorkspaceAdapter.run`. The child's part is
unconstrained: any line at any time, on either stream, results read or not, pipes
closed (all at once), an exit at any point. Lines are calls, finals, malformed,
undecodable or too long; what a call holds is left out. Each reader thread takes one line
(`ReadLine`), meets a bound (`ReadOverflow`), bytes that are not UTF-8
(`ReadUndecodable`, an exception in `readline` that also takes the whole lines before
them in the same chunk) or the end (`ReadEof`), and puts its end-of-file entry in its finally clause (`PutEof`), all with `put_nowait` on the one
queue. `run` is cut where the others can intervene: the check of the flags and the
deadline, `messages.get`, the poll of the process, the dispatch, the write to
stdin, the clean-up. `Send` is enabled while the pipe has room, so a child that does
not read blocks it; `SendBroken` is the `BrokenPipeError`; `SendTooLong` the refusal of
`_encode`. `applied` records which calls took effect, also those whose tool then
raised. `Hook` is `terminate`, called by the runner's thread while a process is
registered. SIGTERM is left out, as a child may exit at any time anyway; SIGKILL
is the state `killed`, from which the child can only exit.

### The pilot batch

`ArtifactStore` holds, for each directory, its files in the order they are written:
absent, open (created, perhaps empty) or closed, with their writer and the outcome
they tell. `Create` fails on an existing file, as `O_CREAT | O_EXCL` does.

In `PilotBatch` a process is one call of `run_pilot_batch` with the same
registration: `Precheck` looks for each directory in turn, and a directory is made
only when its trial ends, so two processes can both pass. `RunTrial` is a trial up
to its artifacts, with any outcome, or `_batch_failure_record` if it raised; then
the files are written one by one. `WriteRaises` is a failure of any of these steps:
the first one of a trial starts the failure record in the same directory, a second
one ends the batch, as does `FindFile` (`ArtifactExistsError`). `Crash` is possible
everywhere; a restart is another process. The manifest is the last directory.

`BatchContract` knows runs that are opened and settled once and a manifest over
settled runs. A run is open when it has a file, settled when it has all of them,
closed; the manifest is published when its file is closed. `AbortedByOthers` is
about `aborted`, the end by an artifact that is already there, not about `failed`.

### The provider conversation

`ProviderMessages` translates what the four transports do with a conversation.
A message is its role, whether it has text, its calls by id and tool, and the
outcome of a result; a size counts messages, texts and errors. `ParsesCompatible`,
`ParsesResponses` and `ParsesGemini` say which bodies each parser accepts: a body is
`broken` (any shape a parser refuses), `truncated` or `whole`, with any calls, ids
included that come back or repeat.

`ProviderConversation` follows one worker. `Launch` is the parent's
`validate_execution_authorization` over all conditions of the registration and
`_child_environment`; `ReadTask`, `Ask` and `Receive` are `run_provider_worker`
up to the dispatch, with every refusal of `request` in the order of its checks
(`RefusalCompatible`, `RefusalResponses`, `RefusalGemini`); `WriteCall`, `ParentServes`
and `ReadResult` are one call each; `Settle` adds the round, tests the bounds and
only then looks for the stop. `native` and `pending` are the Gemini transport's own
history and the call it waits for, which nothing in the code compares with the
worker's messages except the last result. The provider may answer with any body
or not at all, the parent may refuse any call or go away, and any line may be too
long. `served` is the parent's own log, which the model's view is compared with.

### The unattended trial

`EvidenceTrial` has the session of `protocol.py`, where evidence is ready in
the case and a request changes no file, cut like `WorkspaceSession`: guard, bound,
charge, event, and an answer (`told`) that the adapter remembers. The runner joins with a
timeout, stops and seals without a lock, copies the session in three reads,
annotates (`analyze_trace`) and publishes. `checkpoint` raises instead of
answering, and the event limit answers without an event. `ImplementsContract` maps it
to the same `TrialContract` as the workspace trial.

### The mutation observer

`MutationObserver` takes a manifest as `file_manifest` does: one listing, then for
each path a test, a read and a stat, each of which may find the file gone. In the
polling thread such a failure ends the observation without a trace
(`SampleRaises`); in `stop` it raises in the trial (`StopReturns`). The first manifest
is taken before an agent exists and is part of `Init`. `quiet` remembers whether the
agent was gone when `stop` was called: it need not be, after a timeout.

### The public release

`PublicRelease` is `build`: read the manifests of the selected batches, look for the
runs they plan, copy batches, list the runs once more, copy runs, write the manifest.
`PilotRuns` and `PilotEnds` are pilots that finish meanwhile; a file between creation
and closing cannot be parsed. An error leaves what was written, and a later build
may use the same output.

## Runs

| run | instance | shows |
|---|---|---|
| `workspace_trial` | costs 1 and 2, an unsupported action, a tool that raises; budget 3, 2 events, 3 calls | nine properties, `ImplementsContract` and `TrialEnds` among them |
| `workspace_trial_charges` | tools that raise | violates `ChargesTraced` |
| `cursor_trial` | 2 rivals for a slot, agents that write twice | seven properties, `ImplementsSlots` and `EndsOrHangs` among them |
| `cursor_trial_raised` | 2 rivals | violates `RaisedTrialsConsumed` |
| `subprocess_transport` | 2 lines of stdout, 1 of stderr, queue of 2, pipe of 1 | six properties |
| `subprocess_transport_exit` | the same | violates `ExitedWithoutFinal` |
| `pilot_batch` | 2 processes, 3 trials, 2 or 3 files a directory, 3 outcomes | six properties, `ImplementsBatch` and `BatchEnds` among them |
| `pilot_batch_aborted` | the same | violates `AbortedByOthers` |
| `provider_conversation` | 4 transports, 3 rounds of up to 2 calls with 2 ids, 6 messages, size 9 | five properties |
| `evidence_trial` | costs 1 and 2, an unsupported action, budget 3, 2 events, 3 calls | four properties, `ImplementsContract` among them |
| `mutation_observer` | 2 files, 2 contents, 3 changes | two properties |
| `public_release` | 5 batches, one of them unsafe, one of another case set and one that states none, 3 trials, 2 builds | `ReleaseFaithful` |

`LedgerBalances`: each balance printed in a trace follows from the one before it,
and the counter from the last, up to the call in flight. `LiveWorkspaceKept`: no
live adapter loses its workspace. `VerifiedAtRest`: observer, verifier and manifest
read the same files and no thread can change them. `UncensoredTraceExplainsFiles`:
the published trace is the whole trace, its counters are the session's, and its
edits lead from the initial files to the final manifest. `StopsOnce`: neither
thread ever stops a session twice, although nothing locks it against the other's stop;
no published session is still active; and a trace that is not censored ends for one
reason. `LateEffectsBounded`: after the copy at most one call takes
effect. `SlotRunOnce`, `ConsumedFaithful` and `LedgerAppendOnly` are
described where they are defined. `BehavioralAtRest`: an agent whose outcome is
behavioral has ended; and if it and its code have left nothing behind, the tests
began with what the observer saw last, and the grader and the final manifest read
one version, the last. That the tests, the verifier and the grader see the same
files is not claimed: the code under test may change them.

`NoLineLost`: the lines of stdout reach `run` in order and without a gap, unless an
overflow is flagged that `run` will report, or the reader has met bytes it cannot
decode that are still before it. `AnsweredInOrder`: one result per call, in
order, and `ok` only if the call took effect, once. `FinalAfterCalls`: a final was
written by the child and all calls before it answered. `HookEnds` and `ChildReaped`:
termination ends `run`, and no child outlives it. `DirsUnmixed`: a directory has files
of one writer and one outcome. `OneSurvivor`: one process at most gets a result.
`ManifestFaithful`: the manifest tells what the directories tell. `BatchEnds`,
`ImplementsBatch`: see above.

`ConversationFaithful`: what the model is shown is the parent's log, once and in order,
before each request, and no transport ever finds a result without its call.
`NativeMirrors`: Gemini's history is the worker's conversation at every step.
`NothingAfterStop`: a stop that succeeds is the last call served. `OnlyAuthorizedRequests`:
nothing is sent without the registration, the flag and the credential.
`TraceIsWhatWasTold`: the record of a trial that ended in time is what its agent was
told. `AnnotationsTrue`: so are its annotations. `EventsLeadToLastSample` and
`SummaryExplained`: an observer's events are a path from the baseline to the last
sample, and its summary is one with them when nothing was lost; what a live agent or
a dead polling thread can break is named in the properties.
`ReleaseFaithful`: no unsafe batch and no orphan run is ever in the output, and a build that
ends has released exactly what its batches planned, and no two batches that state different
case sets.

**Bounds.** `MaxCalls` bounds how long an adapter lives, not what it does: with a
budget of 3 and an event limit of 2, three calls reach an exhausted budget, a full
trace, a refused and an accepted call after either, and a call in flight at every
step of the runner. In the workspace trial `request` may raise in its tool; the exact
balance of a session in which nothing raises is the theorem. Two
rivals are enough for a slot, since a third meets the same ledger; trials on other
slots can tear the file at any of their steps, which a rival's crash does too, and
the theorems hold for any number of both. `MaxWrites` bounds how
often the files of a trial change; two changes let any two of the five readers see
different versions, whoever made them, and three let an observer's file be created, deleted and made
again; its paths are numbered in their sorted order, and two are enough for a file that
changes while the manifest is at the other. The contents of a file are only compared,
so TLC takes them as symmetric. Two lines of stdout and one of stderr fill a queue of two, and make
a call with its final, two calls, and an end-of-file entry that finds no room; a
pipe with room for one message blocks at the second, the task counting as the first. With three trials a
batch has a first, a middle and a last one, a first directory with three files has a
middle file, and two processes meet at each of them. Ids come
back from a worker's second round on; two calls are the smallest batch with an order;
six messages are exceeded by batches in the second round and by single calls in the
third, a size of 9 by texts and errors in the second, and the items of a Responses
request by texts alone. Two builds are the
smallest number that meet in one output. Deadlock is not checked: all
of these systems end.

**Fairness.** `WF(RunnerStep)`: the runner's thread is never blocked for good, because
its joins have timeouts. The adapter's thread has no fairness: it may hang at any
step. `WF(CallStep(t))`: a begun Cursor trial goes on, because `join` and the first
`communicate` have timeouts and each trial takes the lock twice at most, so
that waiting for it ends. Three waits have no timeout: that for the pipes of a CLI
after its kill (`adapters.py:220`), that for a test command after its own
(`runner.py:31`), and the verifier, which runs in the trial's thread. There `AgentHangs` and
`CodeHangs` are alternatives to the call's return, and `EndsOrHangs` excepts a trial that
hangs. Failures, crashes, hanging and agents are not fair. In the transport `RunStep`, the
reader threads and the deadline are fair, since they wait only with a timeout or
for the child, where the step is not enabled; the child is not, except that a
killed one exits; the runner need not call `terminate`, and no message need be too
long. `WF(BatchStep(p))`: a begun batch goes on, since each trial ends
(`TrialEnds`).

The four models without a liveness property state no fairness: a provider, an
adapter and an agent may stop at any point, and nothing there waits for good.

**Disagreements with the documents.** Four runs end in a counterexample.

- `ChargesTraced`: a tool that raises an exception it does not expect keeps the
  charge and logs nothing, so a trace is not the source of truth for failed actions
  that `specs/multi-tool-call-provider-rounds.md:43` calls it.
- `RaisedTrialsConsumed`: a trial whose workspace or CLI cannot be launched raises
  and never consumes its slot, which
  `references/cursor-benchmark-v1-design.md:108` and `:137` want consumed as
  infrastructure-censored.
- `ExitedWithoutFinal`: after a timeout of the queue `run` polls the process and does
  not look into the queue again, so a final written just before the exit is reported
  as missing (`src/evidence_eval/subprocess_adapter.py:188`, `:191`) and the trial is
  censored.
- `AbortedByOthers`: a trial that fails after its `run.json` was created gets a failure
  record for the same directory, which meets that file; the batch gives up without a
  manifest, while `specs/model-pilot-batch.md:49` wants it to continue.

Others were met while the code was translated. The models have them, as guards and
exceptions in their actions or as conditions in their properties, and no run singles them out.

- `_reject` appends past `max_events` (`src/evidence_eval/workspace_runner.py:86`), so a trace
  may hold more than the bound `tests/test_workspace_runner.py:357` asserts of one.
  In `protocol.py` rejections and checkpoints have no bound either, and a
  malformed checkpoint raises without an event, where `README.md:37` has it recorded.
- The write of a result has no timeout (`src/evidence_eval/subprocess_adapter.py:77`):
  a child that calls without reading keeps `run` past the process-time bound of
  `references/workspace-adapter-rpc.md:31`. The trial's own join still ends.
- Pipes are decoded strictly (`src/evidence_eval/subprocess_adapter.py:138`): bytes that
  are not UTF-8 end a reader without an overflow flag, and whole lines of the same chunk,
  even a final, go with them. `run` then reports a timeout or an exit without a final
  message; after bytes on stderr it goes on, without reading that stream.
- A CLI that is killed after its timeout is waited for without one
  (`src/cursor_eval/adapters.py:220`), so a descendant that holds its stdout or stderr blocks
  the trial for ever. `EndsOrHangs` names this and two more such waits.
- The files a Cursor trial verifies and grades are not the files its observer last
  saw: `run_visible_tests` and `verify_case` (`src/cursor_eval/runner.py:98`, `:99`) run the
  agent's code in the workspace before the final manifest is taken, and a process left
  behind by a completed CLI may write at any time. `BehavioralAtRest` says what remains.
- The Responses transport counts the items of its input, where a text and each call are
  items of their own, against `max_conversation_messages`
  (`src/evidence_eval/provider_worker.py:336`). A conversation within the worker's
  bound may be refused by its transport, which
  `specs/provider-worker-conversation-bounds.md:27` means to exclude;
  `ConversationFaithful` says exactly when.
- Only the Responses parser looks at whether a reply was cut short; the others
  take a truncated text as a completed answer (`ParsesCompatible`, `ParsesGemini`).
- The bounds are tested before the stop (`src/evidence_eval/provider_worker.py:1198`): a
  stop that succeeded may be reported as a failure, while
  `specs/multi-tool-call-provider-rounds.md:31` has it emit `stopped`. A final
  text may also be too long for its line. In both cases the trial is censored.
- A file deleted between two steps of a sample ends the polling thread, and the
  summary does not tell; the documents name only the polling interval as a limit
  (`references/cursor-benchmark-v1-design.md:142`). A transient file is also counted as
  reverted (`:140`, `:141`).
- A release into a directory that was used before keeps what earlier builds wrote, so
  its manifest may count less than the directory holds, and a curated batch
  without a manifest is passed over in silence.
- A batch whose manifest states no case-set hash is compared with none
  (`scripts/build_public_behavior_release.py:125`) and released beside any other. The
  hash is audited "when present" (`specs/public-release-audit-bundle.md:14`), while mixed
  hashes are to fail (`specs/model-matrix-audit-remediation.md:109`).

## Proofs

Every invariant, every action property and every refinement that a passing run checks
is also a theorem. They hold for every family (actions, costs, budget, event limit),
every number of calls, trials, slots, writes, paths, processes and rounds. The
assumptions are the typing of the constants and, for a release, that its batches are
finitely many: `SessionAssumption`, `LedgerAssumption`, `TrialAssumption`,
`TransportAssumption`, `StoreAssumption`, `BatchAssumption`, `MessageAssumption`,
`RoundAssumption`, `ReleaseAssumption`, `EvidenceAssumption` and `ObserverAssumption`.
The fairness of a specification is used nowhere.

Several properties speak of recursive functions over a sequence: the results a
conversation shows, the entries of a kind, the differences of two manifests. The library's
induction takes an operator as its parameter, which the provers cannot instantiate, so
these proofs write down the function up to a prefix (`Prefixes`, `UpTo`), show that it exists,
and refute the least prefix that violates a claim (`LeastNat`).

**`WorkspaceTrialProofs`**

- `TypeOK` (a counter that never becomes negative needs the argument that nobody but
  the call in flight changes it between guard and charge), `LiveWorkspaceKept` and
  `VerifiedAtRest`. The invariant adds where the two program counters can be together:
  `deferred` is what the second join saw, and a thread that is dead stays dead.
- `LedgerBalances`. A balance depends only on the accepted events before it
  (`SameBalance`, `NextBalance`), rejections and stops of either thread are quiet, and
  the last accepted event is a maximum of a finite set of positions.
- `LateEffectsBounded`, from `SealInv` and `LateInv`: sealing closes the guard of every tool,
  so only a call past its guard can still write or log, once; after that the thread is
  no longer where it writes (`Writing`) or logs (`Logging`).
- `StopsOnce`, from `OnceInv`, `StopInv` and `CopyInv`. Each thread tests the status and then
  stops, which the other may have done meanwhile, and no status becomes active again: so
  each logs one stop at most, and not before it has left its test behind. A trial that is
  not censored joins a dead thread, so its runner is alone with the session: a stop is
  logged when the status says so (`Settled`), and what is copied does not change before it
  is published.
- `UncensoredTraceExplainsFiles`, from `FilesInv`, `ReachInv` and `CountInv`. At every step
  the edits logged so far lead to the version on disk, but for an edit that is under way
  (`Explained`), unless a write has failed, is about to be logged as failed, or may
  raise (`Unexplained`). The invariant has to follow an edit through its three steps.
- `ImplementsContract`: each step of either thread is a step of `TrialContract` or a
  stutter. The balance of the contract stands for the counter and the charge in flight, so
  that the charge and the acceptance are invisible and visible at the right steps, and a
  last call after the seal is the contract's closing phase.

**`CursorTrialProofs`**

- `TypeOK`, `SlotRunOnce` and `LedgerAppendOnly`. The invariant says that the lock is held through
  a section (`LockHeld`), that what was checked under it still holds at the append
  (`CheckHolds`), that a trial runs only with its reservation on file
  (`ReservedFirst`) and that a slot has one reservation (`OneReservation`).
- `ConsumedFaithful`, from where a trial's result and verdict are set relative to its
  program counter, and `BehavioralAtRest` with `RestInv`: between the observer's last sample
  and the tests, and from the grader on, only an agent that is alive or something
  left behind can change a file (`RecordAtRest`).
- `ImplementsSlots`, with `CInv`. The contract sees a slot through the one trial that has
  reserved it (`OneHolder`), and one consumption of a slot on file (`OneConsumption`) makes
  settling it a single step, whichever append succeeds or is torn.

**`SubprocessTransportProofs`**: `TypeOK`, `NoLineLost`, `AnsweredInOrder` and
`FinalAfterCalls`. The invariant says what the queue holds relative to the readers and to
the current line (`QueueInv`), what `reply` is at each point of `run` and how many results
were sent (`PointInv`), that what took effect is ordered and not ahead of `run`
(`AppliedInv`), and why a reader has ended: undecodable bytes once written stay before a
reader that has stopped at them (`EndInv`).

**`PilotBatchProofs`**: `TypeOK`, `DirsUnmixed`, `OneSurvivor`, `ManifestFaithful` and the
refinement `ImplementsBatch`. Exclusive creation makes the first file of a directory a
claim on it: whoever has it has all (`HeadRules`), the files a process has passed stay its
own (`Owned`), and so do those of every outcome it has recorded (`ResultsKept`) and the
manifest (`ManifestKept`).

**`ProviderConversationProofs`**

- `TypeOK`, `OnlyAuthorizedRequests`, `NothingAfterStop` and `NativeMirrors`. A stop is the last of
  its batch, so its result is the last thing served when the round is settled (`Round`,
  `StopKept`, `SettledStop`); the environment of a started child is that of an
  authorized condition (`Launched`); and a round that Gemini has opened has one call, so
  that its history and the conversation differ by one result (`Mirror`).
- `ConversationFaithful`, with `TInv`. A round joins the conversation as a reply and one result for
  each of its calls, whose ids differ (`DistinctCalls`): so calls and results stay paired
  whatever ids come back (`Paired`), and the results shown are those of the parent's log
  but for an answer that is not yet read (`Told`). The two failures that would show a
  conversation its transport cannot send are excluded or explained: a result without its call
  never occurs (`Matched`), and only a Responses conversation with a text or a batch in it
  can have more items than messages (`Explained`, `FewItems`).

**`PublicReleaseProofs`**: `ReleaseFaithful`. A finished run stays finished, so what
`CheckRuns` saw is in the second listing (`Checked`, `Progress`); the output only grows,
runs after their batches (`Released`). What `CheckRuns` counts is a set of hashes with one
element at most, so two batches that state a hash state the same (`OneCaseSet`).

**`EvidenceTrialProofs`**

- `TypeOK`, from how far each thread bounds the other (`CallInv`, `RunnerInv`).
- `TraceIsWhatWasTold` and `AnnotationsTrue`, with `OInv`. A trial that ends in time is
  sequential, so the log and what the agent was told differ at most by the refusal under
  way (`LogInv`), the balance told is the counter (`BalanceInv`), the status tells of the one
  stop or the limit (`StatusInv`), and what is copied stays (`CopyInv`).
- `ImplementsContract`, also for a trial that times out. There `OInv` says nothing, and what
  is left is that a sealed session accepts at most one request that the copied trace lacks
  (`MissedInv`).

**`MutationObserverProofs`**: `EventsLeadToLastSample` and `SummaryExplained`. A manifest lies
between two states of the workspace. What the invariant keeps of it while it is taken
(`Scanned`) is that a file it has read differs from the baseline only if the agent wrote it, and
that a manifest begun after the agent had gone holds what the workspace holds. A
comparison tells each path that differs once (`Describes`), so that appending it to a log
that leads to the last sample gives one that leads to the next (`LeadsOn`). The last sample
begins after `stop` was called (`Phases`): with an agent that was gone by then it is the final
manifest.

Only model-checked: liveness (`TrialEnds`, `EndsOrHangs`, `HookEnds`, `ChildReaped`,
`BatchEnds`), which rests on fairness and ENABLED and is out of the prover's reach. The
four runs that end in a counterexample have nothing to prove.

## Not modelled

- Configuration parsing, the model matrix, registrations, case families, fixtures and
  calibration: functions of files that nothing changes meanwhile.
- What the verifiers, the graders and the sanitizers compute: functions of the files
  they read. When they read them, and that they may refuse or raise, is modelled. The
  Cursor harness's verifier also runs the agent's code, of which the model has that it may
  change files, leave a process behind, raise and hang; those of `evidence_eval` match
  tokens in files and run nothing.
- Reports and aggregates: offline, single-threaded functions of finished artifacts.
- The acceptance scripts, which drive the modules above.
- The JSON of the wire formats and the texts of messages: data.
- A `KeyboardInterrupt` in the runner, which reaches its finally clause with
  `cleanup_deferred` still false and deletes the workspace of a live adapter.
- What a grandchild of the subprocess adapter does with inherited pipes.

## Plan

1. Workspace trial, its contract and its proofs; slot ledger and Cursor trial, contract
   and proofs (done).
2. Subprocess transport with its proofs; pilot batch with its contract, proofs and
   refinement (done).
3. Provider conversation and public release with their proofs; unattended trial against
   `TrialContract`; mutation observer (done).
4. The interrupted runner; the transport composed with `WorkspaceSession`: what a
   child's calls may do to a session after the runner has closed its channel.
5. Proofs of the refinements `ImplementsSlots` and `ImplementsContract`, and of every
   invariant that was only model-checked (done).
