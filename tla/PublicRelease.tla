---------------------------- MODULE PublicRelease ----------------------------
(***************************************************************************)
(* The builder of a public release (scripts/build_public_behavior_         *)
(* release.py, build; evidence_eval/public.py): it maps the planned trials *)
(* of the batches it selects, checks that each has its run, and copies     *)
(* batches, then runs, then its own manifest to an output directory that   *)
(* may hold an earlier release, while pilot batches are still running.     *)
(***************************************************************************)
EXTENDS Naturals, FiniteSets

CONSTANTS
  Batches,   \* directories under artifacts/batches
  Trials,    \* internal run ids
  Planned,   \* the trials each batch plans
  CaseSet,   \* the case-set hash each batch states, or NoCaseSet
  NoCaseSet, \* a manifest without a hash, or with one that is no string
  Unsafe,    \* batches whose manifest validate_public_batch_manifest refuses
  MaxBuilds  \* bound of the model: builds over one output directory

ASSUME ReleaseAssumption ==
  /\ IsFiniteSet(Batches)
  /\ Planned \in [Batches -> SUBSET Trials]
  /\ Unsafe \subseteq Batches
  /\ MaxBuilds \in Nat

VARIABLES
  dirs,       \* per batch: "absent", "open" or "manifest", a directory with it
  runs,       \* per trial: "absent", "open" or "run", a directory with run.json
  pc,         \* where the builder is
  selection,  \* the batches it was asked for, or all of an archival build
  sources,    \* the batches it still has to read
  mapped,     \* manifest_values: the batches it has read
  todo,       \* the directories it still has to copy
  copied,     \* this build's own batches and runs
  output,     \* the release: its batches and runs, and its manifest's counts
  builds      \* how many builds have started

sourceVars  == <<dirs, runs>>
builderVars == <<pc, selection, sources, mapped, todo, copied, builds>>
vars == <<sourceVars, builderVars, output>>

NoCounts == [batches |-> 0, runs |-> 0, kind |-> "none"]
Nothing == [batches |-> {}, runs |-> {}]

PlannedOf(bs) == UNION {Planned[b] : b \in bs}
Complete == {t \in Trials : runs[t] = "run"}

\* The build raises; what it has written stays in the output.
Raise == pc' = "raised" /\ UNCHANGED <<selection, sources, mapped, todo, copied, output>>

-----------------------------------------------------------------------------
(* The pilots (PilotBatch): a file that is not closed yet cannot be parsed. *)

PilotRuns ==
  /\ \E t \in Trials :
       \/ runs[t] = "absent" /\ runs' = [runs EXCEPT ![t] = "open"]
       \/ runs[t] = "open" /\ runs' = [runs EXCEPT ![t] = "run"]
  /\ UNCHANGED <<dirs, builderVars, output>>

PilotEnds ==
  /\ \E b \in Batches :
       /\ Planned[b] \subseteq Complete
       /\ \/ dirs[b] = "absent" /\ dirs' = [dirs EXCEPT ![b] = "open"]
          \/ dirs[b] = "open" /\ dirs' = [dirs EXCEPT ![b] = "manifest"]
  /\ UNCHANGED <<runs, builderVars, output>>

-----------------------------------------------------------------------------
(* The builder.                                                            *)

\* A selection that names a batch twice, or one without a directory, raises.
Start ==
  /\ pc \in {"idle", "done", "raised"} /\ builds < MaxBuilds
  /\ builds' = builds + 1
  /\ \/ \E bs \in SUBSET {b \in Batches : dirs[b] # "absent"} :
          /\ selection' \in {[kind |-> "curated", batches |-> bs],
                             [kind |-> "archival_all",
                              batches |-> {b \in Batches : dirs[b] # "absent"}]}
          /\ sources' = selection'.batches
          /\ pc' = "read"
     \/ pc' = "raised" /\ UNCHANGED <<selection, sources>>
  /\ mapped' = {} /\ todo' = {} /\ copied' = Nothing
  /\ UNCHANGED <<sourceVars, output>>

\* One batch: without a manifest it is passed over; a manifest that is not
\* closed yet, or plans a trial another batch has mapped, raises.
ReadManifest ==
  /\ pc = "read"
  /\ \E b \in sources :
       \/ /\ dirs[b] = "open" \/ Planned[b] \cap PlannedOf(mapped) # {}
          /\ Raise
       \/ /\ dirs[b] = "manifest" => Planned[b] \cap PlannedOf(mapped) = {}
          /\ sources' = sources \ {b}
          /\ mapped' = IF dirs[b] = "manifest" THEN mapped \cup {b} ELSE mapped
          /\ UNCHANGED <<pc, selection, todo, copied, output>>
  /\ UNCHANGED <<sourceVars, builds>>

\* Slip: the runs are not looked for.
MissingNone(bs) == {}

\* The planned trials that have no run artifacts.
Missing(bs) == PlannedOf(bs) \ Complete

\* selected_case_hashes: a batch that states no case set is compared with none.
CaseSetsOf(bs) == {CaseSet[b] : b \in bs} \ {NoCaseSet}

CheckRuns ==
  /\ pc = "read" /\ sources = {}
  /\ \/ \E t \in Trials : runs[t] = "open" /\ Raise
     \/ IF Cardinality(CaseSetsOf(mapped)) > 1 \/ Missing(mapped) # {} THEN Raise
        ELSE
          /\ pc' = "batches"
          /\ todo' = mapped
          /\ UNCHANGED <<selection, sources, mapped, copied, output>>
  /\ UNCHANGED <<sourceVars, builds>>

\* sanitize_public_batch_manifest does not raise.
Publishable(b) == b \notin Unsafe

\* A batch that is not publishable raises before anything of it is written.
CopyBatch ==
  /\ pc = "batches"
  /\ \E b \in todo :
       IF ~Publishable(b) THEN Raise
       ELSE /\ output' = [output EXCEPT !.batches = @ \cup {b}]
            /\ copied' = [copied EXCEPT !.batches = @ \cup {b}]
            /\ todo' = todo \ {b}
            /\ UNCHANGED <<pc, selection, sources, mapped>>
  /\ UNCHANGED <<sourceVars, builds>>

\* The run directories are listed once more.
ListRuns ==
  /\ pc = "batches" /\ todo = {}
  /\ pc' = "runs"
  /\ todo' = {t \in Trials : runs[t] # "absent"}
  /\ UNCHANGED <<sourceVars, selection, sources, mapped, copied, output, builds>>

\* A directory without a finished run.json raises, and in an archival build so does a
\* run of no mapped batch; a curated build passes it over.
CopyRun ==
  /\ pc = "runs"
  /\ \E t \in todo :
       IF runs[t] = "open" THEN Raise
       ELSE IF t \in PlannedOf(mapped)
       THEN /\ output' = [output EXCEPT !.runs = @ \cup {t}]
            /\ copied' = [copied EXCEPT !.runs = @ \cup {t}]
            /\ todo' = todo \ {t}
            /\ UNCHANGED <<pc, selection, sources, mapped>>
       ELSE IF selection.kind = "curated"
       THEN todo' = todo \ {t} /\ UNCHANGED <<pc, selection, sources, mapped, copied, output>>
       ELSE Raise
  /\ UNCHANGED <<sourceVars, builds>>

WriteManifest ==
  /\ pc = "runs" /\ todo = {}
  /\ pc' = "done"
  /\ output' = [output EXCEPT !.counts =
       [batches |-> Cardinality(copied.batches), runs |-> Cardinality(copied.runs),
        kind |-> selection.kind]]
  /\ UNCHANGED <<sourceVars, selection, sources, mapped, todo, copied, builds>>

-----------------------------------------------------------------------------

\* The artifacts may be an incomplete copy.
Init ==
  /\ dirs \in [Batches -> {"absent", "manifest"}]
  /\ runs \in [Trials -> {"absent", "open", "run"}]
  /\ pc = "idle"
  /\ selection = [kind |-> "none", batches |-> {}]
  /\ sources = {} /\ mapped = {} /\ todo = {} /\ copied = Nothing
  /\ output = [batches |-> {}, runs |-> {}, counts |-> NoCounts]
  /\ builds = 0

Next ==
  \/ PilotRuns \/ PilotEnds
  \/ Start \/ ReadManifest \/ CheckRuns
  \/ CopyBatch \/ ListRuns \/ CopyRun \/ WriteManifest

Spec == Init /\ [][Next]_vars

-----------------------------------------------------------------------------

(* Whatever the pilots do meanwhile and wherever earlier builds have       *)
(* stopped: no unsafe batch is ever in the release and no run without its  *)
(* batch; a build that ends has released every planned trial of each of    *)
(* its batches with its run, and counts exactly those in its manifest; the *)
(* batches that state a case set state the same one, but one that states   *)
(* none is released beside any other (the two listings of the run          *)
(* directories in build, selected_case_hashes).                            *)
ReleaseFaithful ==
  /\ output.batches \cap Unsafe = {}
  /\ output.runs \subseteq PlannedOf(output.batches)
  /\ pc = "done" =>
       /\ copied.batches = mapped
       /\ copied.runs = PlannedOf(copied.batches)
       /\ copied.runs \subseteq output.runs \cap Complete
       /\ \A a, b \in copied.batches :
            NoCaseSet \notin {CaseSet[a], CaseSet[b]} => CaseSet[a] = CaseSet[b]
       /\ output.counts = [batches |-> Cardinality(copied.batches),
                           runs |-> Cardinality(PlannedOf(copied.batches)),
                           kind |-> selection.kind]
=============================================================================
