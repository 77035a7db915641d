------------------------- MODULE PublicReleaseProofs -------------------------
(***************************************************************************)
(* A release is faithful for any batches, trials and number of builds.     *)
(* The builder looks at directories that change under it; the proof rests  *)
(* on what cannot be undone there, a finished run stays finished, so that  *)
(* the runs found complete before the copy are among those listed for it.  *)
(***************************************************************************)
EXTENDS PublicRelease, FiniteSetTheorems, TLAPS

Copying == {"batches", "runs", "done"}

\* The variables the steps update field by field are records of these fields.
Shapes ==
  /\ dirs \in [Batches -> {"absent", "open", "manifest"}]
  /\ runs \in [Trials -> {"absent", "open", "run"}]
  /\ copied = [batches |-> copied.batches, runs |-> copied.runs]
  /\ output = [batches |-> output.batches, runs |-> output.runs, counts |-> output.counts]
  /\ sources \subseteq Batches /\ mapped \subseteq Batches
  /\ selection.batches \subseteq Batches

\* The batches that state a case set state the same.
OneCaseSet(bs) ==
  \A a, b \in bs : NoCaseSet \notin {CaseSet[a], CaseSet[b]} => CaseSet[a] = CaseSet[b]

\* Past CheckRuns, the mapped batches are of one case set and complete.
Checked ==
  pc \in Copying =>
    /\ PlannedOf(mapped) \subseteq Complete
    /\ OneCaseSet(mapped)

\* Before it copies, a build has copied nothing.
Fresh == pc = "read" => copied.runs = {} /\ copied.batches = {}

\* What this build has copied and what it still has to.
Progress ==
  /\ copied.batches \subseteq output.batches /\ copied.runs \subseteq output.runs
  /\ pc = "batches" => copied.batches \cup todo = mapped /\ copied.runs = {}
  /\ pc \in {"runs", "done"} =>
       /\ copied.batches = mapped
       /\ copied.runs \subseteq PlannedOf(mapped)
       /\ PlannedOf(mapped) \subseteq copied.runs \cup todo
  /\ pc = "done" => todo = {}

\* The release, which outlives the build.
Released ==
  /\ output.batches \cap Unsafe = {}
  /\ output.runs \subseteq PlannedOf(output.batches)

\* The manifest of a build that has ended.
Counted ==
  pc = "done" =>
    output.counts = [batches |-> Cardinality(copied.batches),
                     runs |-> Cardinality(copied.runs),
                     kind |-> selection.kind]

IInv == Shapes /\ Checked /\ Fresh /\ Progress /\ Released /\ Counted

-----------------------------------------------------------------------------

\* More batches plan more trials.
LEMMA PlannedMonotone ==
  ASSUME NEW A, NEW B, A \subseteq B
  PROVE  PlannedOf(A) \subseteq PlannedOf(B)
BY DEF PlannedOf

\* The builder starts with nothing mapped, copied or released.
LEMMA InitIInv == Init => IInv
<1> SUFFICES ASSUME Init PROVE IInv
  OBVIOUS
<1>1. Shapes
  BY DEF Init, Shapes, Nothing
<1>2. Checked /\ Fresh /\ Progress /\ Released /\ Counted
  BY DEF Init, Checked, Fresh, Progress, Released, Counted, Copying, Nothing
<1> QED
  BY <1>1, <1>2 DEF IInv

\* What the builder has written keeps its rules while it writes nothing.
LEMMA Unwritten ==
  ASSUME IInv, UNCHANGED <<copied, output>>, pc' \notin Copying, pc' = "read" => Fresh'
  PROVE  Checked' /\ Fresh' /\ Progress' /\ Released' /\ Counted'
BY DEF IInv, Fresh, Checked, Progress, Released, Counted, Copying, PlannedOf

\* A build that raises leaves what it has written.
LEMMA RaiseKeeps ==
  ASSUME IInv, Raise, UNCHANGED <<sourceVars, builds>>
  PROVE  IInv'
<1>1. Shapes'
  BY DEF IInv, Shapes, Raise, sourceVars
<1>2. Checked' /\ Fresh' /\ Progress' /\ Released' /\ Counted'
  BY Unwritten DEF Raise, Copying
<1> QED
  BY <1>1, <1>2 DEF IInv

\* A pilot's step can only complete a run.
LEMMA PilotKeeps ==
  ASSUME IInv, PilotRuns \/ PilotEnds
  PROVE  IInv'
<1>1. UNCHANGED <<builderVars, output>>
  BY DEF PilotRuns, PilotEnds
<1>2. Shapes'
  <2>1. CASE PilotRuns
    BY <2>1, <1>1 DEF IInv, Shapes, PilotRuns, builderVars
  <2>2. CASE PilotEnds
    BY <2>2, <1>1 DEF IInv, Shapes, PilotEnds, builderVars
  <2> QED
    BY <2>1, <2>2
<1>3. Complete \subseteq Complete'
  BY DEF IInv, Shapes, PilotRuns, PilotEnds, Complete
<1>4. Checked' /\ Fresh' /\ Progress' /\ Released' /\ Counted'
  BY <1>1, <1>3 DEF IInv, Checked, Fresh, Progress, Released, Counted, PlannedOf, builderVars
<1> QED
  BY <1>2, <1>4 DEF IInv

\* A new build forgets the last one's copies but not the release.
LEMMA StartKeeps ==
  ASSUME IInv, Start
  PROVE  IInv'
<1>1. pc' \in {"read", "raised"} /\ copied' = Nothing
      /\ UNCHANGED <<dirs, runs, output>> /\ mapped' = {}
  BY DEF Start, sourceVars
<1>2. sources' \subseteq Batches /\ (selection').batches \subseteq Batches
  BY DEF IInv, Shapes, Start
<1>3. Shapes'
  BY <1>1, <1>2 DEF IInv, Shapes, Nothing
<1>4. Checked' /\ Fresh' /\ Progress' /\ Released' /\ Counted'
  BY <1>1 DEF IInv, Checked, Fresh, Progress, Released, Counted, Copying, Nothing, PlannedOf
<1> QED
  BY <1>3, <1>4 DEF IInv

\* Reading a manifest writes nothing.
LEMMA ReadKeeps ==
  ASSUME IInv, ReadManifest
  PROVE  IInv'
<1>1. PICK b \in sources :
        \/ Raise
        \/ /\ sources' = sources \ {b}
           /\ mapped' = IF dirs[b] = "manifest" THEN mapped \cup {b} ELSE mapped
           /\ UNCHANGED <<pc, selection, todo, copied, output>>
  BY DEF ReadManifest
<1>2. UNCHANGED <<sourceVars, builds>> /\ pc = "read"
  BY DEF ReadManifest
<1>3. CASE Raise
  BY <1>2, <1>3, RaiseKeeps
<1>4. CASE ~Raise
  <2>1. Shapes'
    BY <1>1, <1>2, <1>4 DEF IInv, Shapes, sourceVars
  <2>2. pc' \notin Copying /\ UNCHANGED <<copied, output>> /\ Fresh'
    BY <1>1, <1>2, <1>4 DEF Copying, IInv, Fresh
  <2> QED
    BY <2>1, <2>2, Unwritten DEF IInv
<1> QED
  BY <1>3, <1>4

\* Batches whose stated case sets number at most one state the same.
LEMMA CaseSetsCounted ==
  ASSUME NEW bs \in SUBSET Batches, ~(Cardinality(CaseSetsOf(bs)) > 1)
  PROVE  OneCaseSet(bs)
<1> DEFINE T == {CaseSet[b] : b \in bs}
           f == [b \in bs |-> CaseSet[b]]
<1>1. IsFiniteSet(bs)
  BY ReleaseAssumption, FS_Subset
<1>2. f \in Surjection(bs, T)
  BY DEF Surjection
<1>3. CaseSetsOf(bs) \subseteq T
  BY DEF CaseSetsOf
<1> HIDE DEF f, T
<1>4. IsFiniteSet(CaseSetsOf(bs))
  BY <1>1, <1>2, <1>3, FS_Surjection, FS_Subset
<1> SUFFICES ASSUME NEW a \in bs, NEW b \in bs, NoCaseSet \notin {CaseSet[a], CaseSet[b]}
             PROVE  CaseSet[a] = CaseSet[b]
  BY DEF OneCaseSet
<1>5. {CaseSet[a], CaseSet[b]} \subseteq CaseSetsOf(bs)
  BY DEF CaseSetsOf
<1>6. CASE CaseSet[a] # CaseSet[b]
  <2>1. Cardinality({CaseSet[a], CaseSet[b]}) = 2
    <3>1. {CaseSet[a], CaseSet[b]} = {CaseSet[a]} \cup {CaseSet[b]}
      OBVIOUS
    <3>2. IsFiniteSet({CaseSet[a]}) /\ Cardinality({CaseSet[a]}) = 1
      BY FS_Singleton
    <3>3. CaseSet[b] \notin {CaseSet[a]}
      BY <1>6
    <3>4. Cardinality({CaseSet[a]} \cup {CaseSet[b]}) = Cardinality({CaseSet[a]}) + 1
      BY <3>2, <3>3, FS_AddElement
    <3> QED BY <3>1, <3>2, <3>4
  <2>2. /\ Cardinality({CaseSet[a], CaseSet[b]}) <= Cardinality(CaseSetsOf(bs))
        /\ Cardinality(CaseSetsOf(bs)) \in Nat
    BY <1>4, <1>5, FS_Subset, FS_CardinalityType
  <2> QED BY <2>1, <2>2
<1> QED BY <1>6

\* The copy begins with every mapped trial complete.
LEMMA CheckKeeps ==
  ASSUME IInv, CheckRuns
  PROVE  IInv'
<1>1. UNCHANGED <<sourceVars, builds>> /\ pc = "read"
  BY DEF CheckRuns
<1>2. CASE Raise
  BY <1>1, <1>2, RaiseKeeps
<1>3. CASE ~Raise
  <2>1. /\ pc' = "batches" /\ todo' = mapped
        /\ UNCHANGED <<selection, sources, mapped, copied, output>>
        /\ ~(Cardinality(CaseSetsOf(mapped)) > 1)
        /\ Missing(mapped) = {}
    BY <1>3 DEF CheckRuns
  <2>2. PlannedOf(mapped)' = PlannedOf(mapped) /\ Complete' = Complete
        /\ PlannedOf(mapped) \subseteq Complete
    BY <1>1, <2>1 DEF Missing, PlannedOf, Complete, sourceVars
  <2>3. OneCaseSet(mapped)
    BY <2>1, CaseSetsCounted DEF IInv, Shapes
  <2>4. Shapes' /\ Fresh' /\ Released' /\ Counted'
    BY <1>1, <2>1 DEF IInv, Shapes, Fresh, Released, Counted, PlannedOf, sourceVars
  <2>5. Checked'
    BY <2>1, <2>2, <2>3 DEF Checked, OneCaseSet
  <2>6. copied.runs = {} /\ copied.batches = {}
    BY <1>1 DEF IInv, Fresh
  <2>7. Progress'
    BY <1>1, <2>1, <2>6 DEF IInv, Progress
  <2> QED
    BY <2>4, <2>5, <2>7 DEF IInv
<1> QED
  BY <1>2, <1>3

\* A copied batch is publishable and leaves todo.
LEMMA CopyBatchKeeps ==
  ASSUME IInv, CopyBatch
  PROVE  IInv'
<1>1. UNCHANGED <<sourceVars, builds>> /\ pc = "batches"
  BY DEF CopyBatch
<1>2. CASE Raise
  BY <1>1, <1>2, RaiseKeeps
<1>3. CASE ~Raise
  <2>1. PICK b \in todo :
          /\ b \notin Unsafe
          /\ output' = [output EXCEPT !.batches = @ \cup {b}]
          /\ copied' = [copied EXCEPT !.batches = @ \cup {b}]
          /\ todo' = todo \ {b}
          /\ UNCHANGED <<pc, selection, sources, mapped>>
    BY <1>3 DEF CopyBatch, Publishable
  <2>2. /\ output' = [batches |-> output.batches \cup {b}, runs |-> output.runs,
                      counts |-> output.counts]
        /\ copied' = [batches |-> copied.batches \cup {b}, runs |-> copied.runs]
    BY <2>1 DEF IInv, Shapes
  <2>3. Shapes'
    BY <1>1, <2>1, <2>2 DEF IInv, Shapes, sourceVars
  <2>4. Checked' /\ Fresh' /\ Counted'
    BY <1>1, <2>1 DEF IInv, Checked, Fresh, Counted, PlannedOf, Complete, sourceVars
  <2>5. Progress'
    BY <1>1, <2>1, <2>2 DEF IInv, Progress
  <2>6. Released'
    BY <2>1, <2>2 DEF IInv, Released, PlannedOf
  <2> QED
    BY <2>3, <2>4, <2>5, <2>6 DEF IInv
<1> QED
  BY <1>2, <1>3

\* The second listing has every run that CheckRuns has seen complete.
LEMMA ListKeeps ==
  ASSUME IInv, ListRuns
  PROVE  IInv'
<1>1. /\ pc = "batches" /\ todo = {} /\ pc' = "runs"
      /\ todo' = {t \in Trials : runs[t] # "absent"}
      /\ UNCHANGED <<dirs, runs, selection, sources, mapped, copied, output, builds>>
  BY DEF ListRuns, sourceVars
<1>2. PlannedOf(mapped) \subseteq Complete /\ Complete \subseteq todo'
  BY <1>1 DEF IInv, Checked, Copying, Complete
<1>3. Shapes' /\ Fresh' /\ Released' /\ Counted'
  BY <1>1 DEF IInv, Shapes, Fresh, Released, Counted, PlannedOf
<1>4. Checked'
  BY <1>1 DEF IInv, Checked, Copying, PlannedOf, Complete
<1>5. Progress'
  BY <1>1, <1>2 DEF IInv, Progress, PlannedOf
<1> QED
  BY <1>3, <1>4, <1>5 DEF IInv

\* A copied run belongs to a batch that is in the release already.
LEMMA CopyRunKeeps ==
  ASSUME IInv, CopyRun
  PROVE  IInv'
<1>1. UNCHANGED <<sourceVars, builds>> /\ pc = "runs"
  BY DEF CopyRun
<1>2. CASE Raise
  BY <1>1, <1>2, RaiseKeeps
<1>3. CASE ~Raise
  <2>1. PICK t \in todo :
          /\ todo' = todo \ {t}
          /\ UNCHANGED <<pc, selection, sources, mapped>>
          /\ \/ /\ t \in PlannedOf(mapped)
                /\ output' = [output EXCEPT !.runs = @ \cup {t}]
                /\ copied' = [copied EXCEPT !.runs = @ \cup {t}]
             \/ t \notin PlannedOf(mapped) /\ UNCHANGED <<copied, output>>
    BY <1>3 DEF CopyRun
  <2>2. Checked' /\ Fresh'
    BY <1>1, <2>1 DEF IInv, Checked, Fresh, PlannedOf, Complete, sourceVars
  <2>3. CASE t \notin PlannedOf(mapped)
    <3>1. Shapes' /\ Released' /\ Counted'
      BY <1>1, <2>1, <2>3 DEF IInv, Shapes, Released, Counted, PlannedOf, sourceVars
    <3>2. Progress'
      BY <1>1, <2>1, <2>3 DEF IInv, Progress, PlannedOf
    <3> QED
      BY <2>2, <3>1, <3>2 DEF IInv
  <2>4. CASE t \in PlannedOf(mapped)
    <3>1. /\ output' = [batches |-> output.batches, runs |-> output.runs \cup {t},
                        counts |-> output.counts]
          /\ copied' = [batches |-> copied.batches, runs |-> copied.runs \cup {t}]
      BY <2>1, <2>4 DEF IInv, Shapes
    <3>2. Shapes' /\ Counted'
      BY <1>1, <2>1, <3>1 DEF IInv, Shapes, Counted, sourceVars
    <3>3. Progress'
      BY <1>1, <2>1, <2>4, <3>1 DEF IInv, Progress, PlannedOf
    <3>4. PlannedOf(mapped) \subseteq PlannedOf(output.batches)
      BY <1>1, PlannedMonotone DEF IInv, Progress
    <3>5. Released'
      BY <2>4, <3>1, <3>4 DEF IInv, Released, PlannedOf
    <3> QED
      BY <2>2, <3>2, <3>3, <3>5 DEF IInv
  <2> QED
    BY <2>3, <2>4
<1> QED
  BY <1>2, <1>3

\* The manifest counts what was copied.
LEMMA ManifestKeeps ==
  ASSUME IInv, WriteManifest
  PROVE  IInv'
<1>1. /\ pc = "runs" /\ todo = {} /\ pc' = "done"
      /\ output' = [output EXCEPT !.counts =
           [batches |-> Cardinality(copied.batches), runs |-> Cardinality(copied.runs),
            kind |-> selection.kind]]
      /\ UNCHANGED <<dirs, runs, selection, sources, mapped, todo, copied, builds>>
  BY DEF WriteManifest, sourceVars
<1>2. output' = [batches |-> output.batches, runs |-> output.runs,
                 counts |-> [batches |-> Cardinality(copied.batches),
                             runs |-> Cardinality(copied.runs),
                             kind |-> selection.kind]]
  BY <1>1 DEF IInv, Shapes
<1>3. Shapes' /\ Fresh' /\ Released' /\ Counted'
  BY <1>1, <1>2 DEF IInv, Shapes, Fresh, Released, Counted, PlannedOf
<1>4. Checked'
  BY <1>1 DEF IInv, Checked, Copying, PlannedOf, Complete
<1>5. Progress'
  BY <1>1, <1>2 DEF IInv, Progress, PlannedOf
<1> QED
  BY <1>3, <1>4, <1>5 DEF IInv

\* The invariant is inductive.
LEMMA NextIInv == IInv /\ [Next]_vars => IInv'
<1> SUFFICES ASSUME IInv, [Next]_vars PROVE IInv'
  OBVIOUS
<1>1. CASE UNCHANGED vars
  BY <1>1 DEF vars, sourceVars, builderVars, IInv, Shapes, Checked, Fresh, Progress,
              Released, Counted, PlannedOf, Complete
<1>2. CASE PilotRuns \/ PilotEnds
  BY <1>2, PilotKeeps
<1> QED
  BY <1>1, <1>2, StartKeeps, ReadKeeps, CheckKeeps, CopyBatchKeeps, ListKeeps,
     CopyRunKeeps, ManifestKeeps DEF Next

\* The invariant holds whatever the batches, the trials and the builds.
THEOREM Invariance == Spec => []IInv
BY InitIInv, NextIInv, PTL DEF Spec

(* ReleaseFaithful for any set of batches and trials and any number of     *)
(* builds over one output: nothing unsafe and no orphan run is released,   *)
(* and a build that ends has released exactly what its batches planned.    *)
THEOREM ReleaseFaithfulAlways == Spec => []ReleaseFaithful
<1>1. IInv => ReleaseFaithful
  <2> SUFFICES ASSUME IInv PROVE ReleaseFaithful
    OBVIOUS
  <2>1. output.batches \cap Unsafe = {} /\ output.runs \subseteq PlannedOf(output.batches)
    BY DEF IInv, Released
  <2>2. ASSUME pc = "done"
        PROVE  /\ copied.batches = mapped
               /\ copied.runs = PlannedOf(copied.batches)
               /\ copied.runs \subseteq output.runs \cap Complete
               /\ OneCaseSet(copied.batches)
               /\ output.counts = [batches |-> Cardinality(copied.batches),
                                   runs |-> Cardinality(PlannedOf(copied.batches)),
                                   kind |-> selection.kind]
    <3>1. copied.batches = mapped /\ copied.runs = PlannedOf(mapped)
      BY <2>2 DEF IInv, Progress
    <3>2. copied.runs \subseteq output.runs \cap Complete
          /\ OneCaseSet(mapped)
      BY <2>2, <3>1 DEF IInv, Progress, Checked, Copying
    <3>3. output.counts = [batches |-> Cardinality(copied.batches),
                           runs |-> Cardinality(copied.runs), kind |-> selection.kind]
      BY <2>2 DEF IInv, Counted
    <3> QED
      BY <3>1, <3>2, <3>3
  <2> QED
    BY <2>1, <2>2 DEF ReleaseFaithful, OneCaseSet
<1> QED
  BY <1>1, Invariance, PTL
=============================================================================
