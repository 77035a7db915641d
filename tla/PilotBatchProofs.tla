------------------------- MODULE PilotBatchProofs -------------------------
(***************************************************************************)
(* The batch keeps its promises for any number of processes, trials and    *)
(* files.  Exclusive creation makes the first file of a directory a claim  *)
(* on it: HeadRules and Owned say so, ResultsKept and ManifestKept carry   *)
(* it to what was recorded, and the refinement reads off them.             *)
(***************************************************************************)
EXTENDS PilotBatch, TLAPS

-----------------------------------------------------------------------------
(* The inductive invariant.                                                *)

Writing == {"mkdir", "create", "write", "record"}

\* Where a process is, what it writes and what it has recorded agree.
Placed ==
  \A p \in Procs :
    /\ Len(results[p]) <= NumTrials
    /\ pc[p] \in {"idle", "precheck"} => results[p] = <<>>
    /\ pc[p] \in {"trial"} \cup Writing => Len(results[p]) = index[p] - 1
    /\ pc[p] = "trial" => index[p] # Batch
    /\ pc[p] = "mkdir" => file[p] = 1
    /\ pc[p] \in Writing /\ index[p] = Batch => record[p] = results[p]
    /\ pc[p] \in Writing /\ index[p] # Batch => Len(record[p]) = 1

Own(p, state) == [by |-> p, content |-> record[p], state |-> state]

\* The files a process has passed are its own and closed, the one it is
\* writing is its own and open.
Owned ==
  \A p \in Procs :
    /\ pc[p] \in {"create", "write"} =>
         \A n \in Files(index[p]) : n < file[p] => store[index[p]][n] = Own(p, "closed")
    /\ pc[p] = "write" => store[index[p]][file[p]] = Own(p, "open")
    /\ pc[p] = "record" =>
         \A n \in Files(index[p]) : store[index[p]][n] = Own(p, "closed")

\* Who has the first file has the directory.
HeadRules ==
  \A d \in Places : \A n \in Files(d) :
    Exists(d, n) =>
      /\ Exists(d, 1)
      /\ store[d][n].by = store[d][1].by
      /\ store[d][n].content = store[d][1].content

\* A recorded outcome is that of a complete directory of the recorder's.
ResultsKept ==
  \A p \in Procs : \A i \in 1..Len(results[p]) : \A n \in Files(i) :
    store[i][n] = [by |-> p, content |-> <<results[p][i]>>, state |-> "closed"]

\* The batch's directory holds the outcomes its writer has recorded, of all
\* the trials.
ManifestKept ==
  \A n \in Files(Batch) :
    Exists(Batch, n) =>
      /\ store[Batch][n].content = results[store[Batch][n].by]
      /\ Len(store[Batch][n].content) = NumTrials

IInv == TypeOK /\ Placed /\ Owned /\ HeadRules /\ ResultsKept /\ ManifestKept

-----------------------------------------------------------------------------
(* The constants and the store.                                            *)

\* The places are numbered up to the batch's own.
LEMMA PlacesFacts ==
  /\ Batch \in Nat /\ Batch > 1 /\ NumTrials \in Nat /\ NumTrials > 0
  /\ Batch = NumTrials + 1
  /\ Places = 1..Batch
  /\ Batch \in Places /\ 1 \in Places
  /\ \A d \in Places : NumFiles[d] \in Nat /\ NumFiles[d] > 0 /\ 1 \in Files(d)
BY StoreAssumption, BatchAssumption DEF Batch, NumTrials, Places, Files

\* Writing a file changes that file only.
LEMMA PutFacts ==
  ASSUME StoreTypeOK, NEW d \in Places, NEW n \in Files(d), NEW f \in FileType, Put(d, n, f)
  PROVE  /\ StoreTypeOK'
         /\ store'[d][n] = f
         /\ \A e \in Places : \A m \in Files(e) :
              (e # d \/ m # n) => store'[e][m] = store[e][m]
<1>1. store' = [store EXCEPT ![d] = [store[d] EXCEPT ![n] = f]] /\ dirs' = dirs
  BY DEF Put
<1>2. DOMAIN store = Places /\ store[d] \in [Files(d) -> FileType \cup {NoFile}]
  BY DEF StoreTypeOK
<1>3. store'[d] = [store[d] EXCEPT ![n] = f] /\ \A e \in Places : e # d => store'[e] = store[e]
  BY <1>1, <1>2
<1>4. DOMAIN store' = Places
  BY <1>1, <1>2
<1>5. store'[d] \in [Files(d) -> FileType \cup {NoFile}]
  BY <1>2, <1>3
<1>6. \A e \in Places : Files(e)' = Files(e)
  BY DEF Files
<1>7. StoreTypeOK'
  BY <1>1, <1>3, <1>4, <1>5 DEF StoreTypeOK, Files, FileType, Places
<1>8. \A e \in Places : \A m \in Files(e) : (e # d \/ m # n) => store'[e][m] = store[e][m]
  BY <1>2, <1>3
<1> QED BY <1>2, <1>3, <1>7, <1>8

\* A file is there if it is a record.
LEMMA ExistsType ==
  ASSUME StoreTypeOK, NEW d \in Places, NEW n \in Files(d)
  PROVE  Exists(d, n) <=> store[d][n] \in FileType
BY StoreAssumption DEF StoreTypeOK, Exists

-----------------------------------------------------------------------------
(* The steps that write.                                                   *)

\* Creating a file makes it the writer's own and changes no other.
LEMMA CreateFacts ==
  ASSUME TypeOK, NEW p \in Procs, CreateFile(p)
  PROVE  /\ StoreTypeOK'
         /\ index[p] \in Places /\ file[p] \in Files(index[p])
         /\ ~Exists(index[p], file[p])
         /\ store'[index[p]][file[p]] = Own(p, "open")
         /\ Own(p, "open") \in FileType
         /\ \A e \in Places : \A m \in Files(e) :
              (e # index[p] \/ m # file[p]) => store'[e][m] = store[e][m]
<1>1. index[p] \in Places /\ file[p] \in Files(index[p]) /\ StoreTypeOK
  BY DEF TypeOK, CreateFile, Go
<1>2. Own(p, "open") \in FileType
  BY DEF Own, FileType, TypeOK
<1>3. Put(index[p], file[p], Own(p, "open")) /\ ~Exists(index[p], file[p])
  BY DEF CreateFile, Create, Own
<1> QED BY <1>1, <1>2, <1>3, PutFacts

\* Closing a file changes only that it is whole.
LEMMA WriteFacts ==
  ASSUME TypeOK, Owned, NEW p \in Procs, WriteFile(p)
  PROVE  /\ StoreTypeOK'
         /\ index[p] \in Places /\ file[p] \in Files(index[p])
         /\ store[index[p]][file[p]] = Own(p, "open")
         /\ store'[index[p]][file[p]] = Own(p, "closed")
         /\ Own(p, "closed") \in FileType /\ Own(p, "open") \in FileType
         /\ \A e \in Places : \A m \in Files(e) :
              (e # index[p] \/ m # file[p]) => store'[e][m] = store[e][m]
<1>0. pc[p] = "write"
  BY DEF WriteFile, Go
<1>1. index[p] \in Places /\ file[p] \in Files(index[p]) /\ StoreTypeOK
  BY <1>0 DEF TypeOK
<1>2. Own(p, "closed") \in FileType /\ Own(p, "open") \in FileType
  BY DEF Own, FileType, TypeOK
<1>3. store[index[p]][file[p]] = Own(p, "open")
  BY <1>0 DEF Owned
<1>4. [store[index[p]][file[p]] EXCEPT !.state = "closed"] = Own(p, "closed")
  <2>1. [Own(p, "open") EXCEPT !.state = "closed"] = Own(p, "closed")
    BY DEF Own
  <2> QED BY <1>3, <2>1
<1>5. Put(index[p], file[p], Own(p, "closed"))
  BY <1>4 DEF WriteFile, Close
<1>6. /\ StoreTypeOK'
      /\ store'[index[p]][file[p]] = Own(p, "closed")
      /\ \A e \in Places : \A m \in Files(e) :
           (e # index[p] \/ m # file[p]) => store'[e][m] = store[e][m]
  BY <1>1, <1>2, <1>5, PutFacts
<1> QED BY <1>1, <1>2, <1>3, <1>6

\* The steps other than these two leave the files alone.
LEMMA OtherFacts ==
  ASSUME NEW p \in Procs, Step(p), ~CreateFile(p), ~WriteFile(p)
  PROVE  store' = store
BY DEF Step, BatchStep, Begin, Precheck, RunTrial, MakePlace, MakeDir, FindFile, Record,
       WriteRaises, Crash, storeVars

\* A file stays the writer's, with what it tells; it changes only by its
\* writer's closing it, and one that appears is open and the stepper's.
LEMMA StoreStep ==
  ASSUME TypeOK, Owned, NEW p \in Procs, Step(p)
  PROVE  /\ \A d \in Places : \A n \in Files(d) : Exists(d, n) =>
              /\ store'[d][n] # NoFile
              /\ store'[d][n].by = store[d][n].by
              /\ store'[d][n].content = store[d][n].content
              /\ store[d][n].state = "closed" \/ store[d][n].by # p => store'[d][n] = store[d][n]
         /\ \A d \in Places : \A n \in Files(d) :
              ~Exists(d, n) /\ store'[d][n] # NoFile =>
                /\ CreateFile(p) /\ d = index[p] /\ n = file[p]
                /\ store'[d][n] = Own(p, "open")
<1>0. NoFile \notin FileType
  BY StoreAssumption
<1>1. CASE CreateFile(p)
  BY <1>0, <1>1, CreateFacts DEF Exists
<1>2. CASE WriteFile(p)
  <2>1. Own(p, "open").by = p /\ Own(p, "closed").by = p /\ Own(p, "open").state # "closed"
        /\ Own(p, "open").content = record[p] /\ Own(p, "closed").content = record[p]
    BY DEF Own
  <2>2. index[p] \in Places /\ file[p] \in Files(index[p])
        /\ store[index[p]][file[p]] = Own(p, "open")
        /\ store'[index[p]][file[p]] = Own(p, "closed")
        /\ Own(p, "closed") # NoFile /\ Own(p, "open") # NoFile
    BY <1>0, <1>2, WriteFacts
  <2>3. \A e \in Places : \A m \in Files(e) :
          (e # index[p] \/ m # file[p]) => store'[e][m] = store[e][m]
    BY <1>2, WriteFacts
  <2>4. ASSUME NEW d \in Places, NEW n \in Files(d), Exists(d, n)
        PROVE  /\ store'[d][n] # NoFile
               /\ store'[d][n].by = store[d][n].by
               /\ store'[d][n].content = store[d][n].content
               /\ store[d][n].state = "closed" \/ store[d][n].by # p => store'[d][n] = store[d][n]
    <3>1. CASE d = index[p] /\ n = file[p]
      BY <2>1, <2>2, <3>1
    <3>2. CASE d # index[p] \/ n # file[p]
      BY <2>3, <2>4, <3>2 DEF Exists
    <3> QED BY <3>1, <3>2
  <2>5. \A d \in Places : \A n \in Files(d) : ~Exists(d, n) => store'[d][n] = NoFile
    BY <2>2, <2>3 DEF Exists
  <2> QED BY <2>4, <2>5
<1>3. CASE ~CreateFile(p) /\ ~WriteFile(p)
  BY <1>3, OtherFacts DEF Exists
<1> QED BY <1>1, <1>2, <1>3

-----------------------------------------------------------------------------
(* TypeOK.                                                                 *)

LEMMA InitInv == Init => IInv
<1> SUFFICES ASSUME Init PROVE IInv
  OBVIOUS
<1>1. \A d \in Places : \A n \in Files(d) : ~Exists(d, n)
  BY DEF Init, StoreInit, Exists
<1>2. TypeOK
  <2>1. StoreTypeOK
    BY DEF Init, StoreInit, StoreTypeOK
  <2> QED BY <2>1, PlacesFacts DEF Init, TypeOK, Ended
<1>3. Placed
  <2> SUFFICES ASSUME NEW p \in Procs
               PROVE  /\ Len(results[p]) <= NumTrials
                      /\ results[p] = <<>> /\ pc[p] = "idle"
    BY DEF Placed, Writing
  <2> QED BY PlacesFacts DEF Init
<1>4. Owned /\ ResultsKept
  BY DEF Init, Owned, ResultsKept
<1>5. HeadRules /\ ManifestKept
  BY <1>1, PlacesFacts DEF HeadRules, ManifestKept
<1> QED BY <1>2, <1>3, <1>4, <1>5 DEF IInv

LEMMA TypeStep ==
  ASSUME IInv, NEW p \in Procs, Step(p)
  PROVE  TypeOK'
<1> USE DEF IInv
<1>0. /\ Batch \in Nat /\ NumTrials \in Nat /\ Batch = NumTrials + 1 /\ NumTrials > 0
      /\ Places = 1..Batch
      /\ \A d \in Places : Files(d) = 1..NumFiles[d] /\ NumFiles[d] \in Nat /\ 1 \in Files(d)
  BY PlacesFacts DEF Files
<1>s. StoreTypeOK /\ index[p] \in Places /\ file[p] \in Nat
      /\ record[p] \in Seq(Outcomes) /\ results[p] \in Seq(Outcomes)
      /\ (pc[p] \in {"mkdir", "create", "write"} => file[p] \in Files(index[p]))
  BY DEF TypeOK
<1>f. /\ file \in [Procs -> Nat]
      /\ pc \in [Procs -> {"idle", "precheck", "trial", "mkdir", "create", "write", "record"}
                            \cup Ended]
  BY DEF TypeOK
<1>d. UNCHANGED store /\ dirs' \in SUBSET Places => StoreTypeOK'
  <2> SUFFICES ASSUME UNCHANGED store, dirs' \in SUBSET Places PROVE StoreTypeOK'
    OBVIOUS
  <2>1. \A d \in Places : Files(d)' = Files(d)
    BY DEF Files
  <2>2. \A d \in Places : store'[d] \in [Files(d) -> FileType \cup {NoFile}]
    BY <1>s DEF StoreTypeOK
  <2>3. DOMAIN store' = Places
    BY <1>s DEF StoreTypeOK
  <2> QED BY <2>1, <2>2, <2>3 DEF StoreTypeOK
<1>1. CASE Begin(p)
  <2>1. StoreTypeOK'
    BY <1>1, <1>d, <1>s DEF Begin, storeVars, StoreTypeOK
  <2> QED BY <1>1, <2>1 DEF Begin, Go, Set, TypeOK, Ended, Files
<1>2. CASE Precheck(p)
  <2>1. StoreTypeOK'
    BY <1>2, <1>d, <1>s DEF Precheck, storeVars, StoreTypeOK
  <2>2. index' \in [Procs -> Places]
    BY <1>0, <1>2 DEF Precheck, Go, Set, TypeOK
  <2> QED BY <1>2, <2>1, <2>2 DEF Precheck, Go, Set, TypeOK, Ended, Files
<1>3. CASE RunTrial(p)
  <2>1. StoreTypeOK'
    BY <1>3, <1>d, <1>s DEF RunTrial, storeVars, StoreTypeOK
  <2> QED BY <1>0, <1>3, <2>1 DEF RunTrial, Go, Set, TypeOK, Ended, Files
<1>4. CASE MakePlace(p)
  <2>1. StoreTypeOK'
    BY <1>4, <1>d, <1>s DEF MakePlace, MakeDir, StoreTypeOK
  <2> QED BY <1>4, <2>1 DEF MakePlace, Go, Set, TypeOK, Ended, Files
<1>5. CASE CreateFile(p)
  <2>1. StoreTypeOK'
    BY <1>5, CreateFacts
  <2> QED BY <1>5, <2>1 DEF CreateFile, Go, Set, TypeOK, Ended, Files
<1>6. CASE FindFile(p)
  <2>1. StoreTypeOK'
    BY <1>6, <1>d, <1>s DEF FindFile, storeVars, StoreTypeOK
  <2> QED BY <1>6, <2>1 DEF FindFile, Go, Set, TypeOK, Ended, Files
<1>7. CASE WriteFile(p)
  <2>1. StoreTypeOK'
    BY <1>7, WriteFacts
  <2>2. pc[p] = "write" /\ pc' \in [Procs -> {"idle", "precheck", "trial", "mkdir", "create",
                                              "write", "record"} \cup Ended]
    BY <1>7 DEF WriteFile, Go, Set, TypeOK, Ended
  <2>3. file' \in [Procs -> Nat] /\ \A q \in Procs : q # p => file'[q] = file[q] /\ pc'[q] = pc[q]
    <3>1. file' = file \/ file' = Set(file, p, file[p] + 1)
      BY <1>7 DEF WriteFile
    <3>2. file' \in [Procs -> Nat]
      BY <3>1, <1>f DEF Set
    <3>3. \A q \in Procs : q # p => file'[q] = file[q]
      BY <3>1, <1>f DEF Set
    <3>4. \A q \in Procs : q # p => pc'[q] = pc[q]
      BY <1>7, <1>f DEF WriteFile, Go, Set
    <3> QED BY <3>2, <3>3, <3>4
  <2>4. pc'[p] = "create" => file'[p] \in 1..NumFiles[index[p]]
    <3>1. file[p] \in 1..NumFiles[index[p]]
      BY <1>0, <1>s, <2>2
    <3>2. pc'[p] = "create" => file[p] < NumFiles[index[p]] /\ file'[p] = file[p] + 1
      BY <1>7 DEF WriteFile, Go, Set, TypeOK
    <3> QED BY <1>0, <1>s, <3>1, <3>2
  <2>5. pc'[p] \in {"create", "record"} /\ UNCHANGED <<index, record, results>>
    BY <1>7 DEF WriteFile, Go, Set, TypeOK
  <2>6. \A q \in Procs : pc'[q] \in {"mkdir", "create", "write"} => file'[q] \in Files(index[q])
    BY <1>0, <1>s, <2>2, <2>3, <2>4, <2>5 DEF TypeOK
  <2> QED BY <2>1, <2>2, <2>3, <2>5, <2>6 DEF TypeOK, Files
<1>8. CASE Record(p)
  <2>1. StoreTypeOK'
    BY <1>8, <1>d, <1>s DEF Record, storeVars, StoreTypeOK
  <2>2. pc[p] = "record" /\ index[p] < Batch => Collected(p) \in Seq(Outcomes)
    <3> SUFFICES ASSUME pc[p] = "record", index[p] < Batch PROVE Collected(p) \in Seq(Outcomes)
      OBVIOUS
    <3>1. Len(record[p]) = 1
      BY <1>0, <1>s DEF Placed, Writing
    <3>2. record[p][1] \in Outcomes
      BY <1>s, <3>1
    <3> QED BY <1>s, <3>2 DEF Collected
  <2>3. \/ results' = results /\ record' = record
        \/ /\ Collected(p) \in Seq(Outcomes)
           /\ results' = Set(results, p, Collected(p))
           /\ record' = record \/ record' = Set(record, p, results'[p])
    BY <1>0, <1>8, <1>s, <2>2 DEF Record
  <2>5. results' \in [Procs -> Seq(Outcomes)]
    BY <2>3 DEF Set, TypeOK
  <2>6. record' \in [Procs -> Seq(Outcomes)]
    BY <2>3, <2>5 DEF Set, TypeOK
  <2>7. pc' \in [Procs -> {"idle", "precheck", "trial", "mkdir", "create", "write", "record"}
                           \cup Ended]
    BY <1>8 DEF Record, Set, TypeOK, Ended
  <2>8. file' \in [Procs -> Nat] /\ (pc'[p] = "mkdir" => file'[p] = 1)
        /\ pc'[p] \notin {"create", "write"}
    <3>1. pc'[p] = "mkdir" => file' = Set(file, p, 1)
      BY <1>8 DEF Record, Set, TypeOK
    <3>2. pc'[p] \notin {"create", "write"}
      BY <1>8 DEF Record, Set, TypeOK
    <3>3. file' = file \/ file' = Set(file, p, 1)
      BY <1>8 DEF Record
    <3> QED BY <3>1, <3>2, <3>3, <1>f DEF Set
  <2>9. \A q \in Procs : q # p => pc'[q] = pc[q] /\ file'[q] = file[q] /\ index'[q] = index[q]
    BY <1>8 DEF Record, Set, TypeOK
  <2>4. index' \in [Procs -> Places]
    BY <1>0, <1>8 DEF Record, Set, TypeOK
  <2>10. \A q \in Procs : pc'[q] \in {"mkdir", "create", "write"} => file'[q] \in Files(index'[q])
    BY <1>0, <1>s, <2>4, <2>8, <2>9 DEF TypeOK
  <2> QED BY <2>1, <2>4, <2>5, <2>6, <2>7, <2>8, <2>10 DEF TypeOK, Files
<1>9. CASE WriteRaises(p)
  <2>1. StoreTypeOK'
    BY <1>9, <1>d, <1>s DEF WriteRaises, storeVars, StoreTypeOK
  <2>2. record' \in [Procs -> Seq(Outcomes)]
    <3>1. <<"batch_error">> \in Seq(Outcomes)
      BY BatchAssumption
    <3> QED BY <1>9, <3>1 DEF WriteRaises, Set, TypeOK
  <2>3. /\ pc' \in [Procs -> {"idle", "precheck", "trial", "mkdir", "create", "write", "record"}
                              \cup Ended]
        /\ file' \in [Procs -> Nat]
        /\ UNCHANGED <<index, results>>
        /\ \A q \in Procs : q # p => pc'[q] = pc[q] /\ file'[q] = file[q]
        /\ pc'[p] \in {"mkdir", "failed"} /\ (pc'[p] = "mkdir" => file'[p] = 1)
    <3>1. \/ pc' = Set(pc, p, "mkdir") /\ file' = Set(file, p, 1)
          \/ pc' = Set(pc, p, "failed") /\ file' = file
      BY <1>9 DEF WriteRaises
    <3>2. UNCHANGED <<index, results>>
      BY <1>9 DEF WriteRaises
    <3>3. pc' \in [Procs -> {"idle", "precheck", "trial", "mkdir", "create", "write", "record"}
                              \cup Ended]
      BY <3>1, <1>f DEF Set, Ended
    <3>4. file' \in [Procs -> Nat] /\ (pc'[p] = "mkdir" => file'[p] = 1)
      BY <3>1, <1>f DEF Set
    <3>5. \A q \in Procs : q # p => pc'[q] = pc[q] /\ file'[q] = file[q]
      BY <3>1, <1>f DEF Set
    <3>6. pc'[p] \in {"mkdir", "failed"}
      BY <3>1, <1>f DEF Set
    <3> QED BY <3>2, <3>3, <3>4, <3>5, <3>6
  <2>4. \A q \in Procs : pc'[q] \in {"mkdir", "create", "write"} => file'[q] \in Files(index[q])
    BY <1>0, <1>s, <2>3 DEF TypeOK
  <2> QED BY <2>1, <2>2, <2>3, <2>4 DEF TypeOK, Files
<1>10. CASE Crash(p)
  <2>1. StoreTypeOK'
    BY <1>10, <1>d, <1>s DEF Crash, storeVars, StoreTypeOK
  <2> QED BY <1>10, <2>1 DEF Crash, Set, TypeOK, Ended, Files
<1> QED BY <1>1, <1>2, <1>3, <1>4, <1>5, <1>6, <1>7, <1>8, <1>9, <1>10 DEF Step, BatchStep

-----------------------------------------------------------------------------
(* The other parts of the invariant.                                       *)

\* A step of one process leaves the others where they are.
LEMMA OthersKept ==
  ASSUME TypeOK, NEW p \in Procs, Step(p), NEW q \in Procs, q # p
  PROVE  /\ pc'[q] = pc[q] /\ index'[q] = index[q] /\ file'[q] = file[q]
         /\ record'[q] = record[q] /\ results'[q] = results[q]
<1>t. /\ DOMAIN pc = Procs /\ DOMAIN index = Procs /\ DOMAIN file = Procs
      /\ DOMAIN record = Procs /\ DOMAIN results = Procs
  BY DEF TypeOK
<1>1. \A f, v : [f EXCEPT ![p] = v][q] = f[q]
  OBVIOUS
<1>2. CASE Begin(p)
  BY <1>t, <1>2 DEF Begin, Go, Set
<1>3. CASE Precheck(p)
  BY <1>t, <1>3 DEF Precheck, Go, Set
<1>4. CASE RunTrial(p)
  BY <1>t, <1>4 DEF RunTrial, Go, Set
<1>5. CASE MakePlace(p)
  BY <1>t, <1>5 DEF MakePlace, Go, Set
<1>6. CASE CreateFile(p)
  BY <1>t, <1>6 DEF CreateFile, Go, Set
<1>7. CASE FindFile(p)
  BY <1>t, <1>7 DEF FindFile, Go, Set
<1>8. CASE WriteFile(p)
  BY <1>t, <1>8 DEF WriteFile, Go, Set
<1>9. CASE Record(p)
  BY <1>t, <1>9 DEF Record, Set
<1>10. CASE WriteRaises(p)
  BY <1>t, <1>10 DEF WriteRaises, Set
<1>11. CASE Crash(p)
  BY <1>t, <1>11 DEF Crash, Set
<1> QED
  BY <1>2, <1>3, <1>4, <1>5, <1>6, <1>7, <1>8, <1>9, <1>10, <1>11 DEF Step, BatchStep

\* Only Record collects, one outcome, which is that of the trial it is at.
LEMMA ResultsStep ==
  ASSUME IInv, NEW p \in Procs, Step(p)
  PROVE  \/ results'[p] = results[p]
         \/ /\ Record(p) /\ pc[p] = "record" /\ index[p] \in 1..NumTrials
            /\ Len(results[p]) = index[p] - 1
            /\ record[p] \in Seq(Outcomes) /\ Len(record[p]) = 1
            /\ results'[p] = Append(results[p], record[p][1])
<1>t. results \in [Procs -> Seq(Outcomes)] /\ record[p] \in Seq(Outcomes)
      /\ index[p] \in 1..Batch
  BY PlacesFacts DEF IInv, TypeOK
<1>1. CASE Record(p) /\ index[p] < Batch
  <2>1. pc[p] = "record" /\ index[p] \in 1..NumTrials
    BY <1>1, <1>t, PlacesFacts DEF Record
  <2>2. Len(results[p]) = index[p] - 1 /\ Len(record[p]) = 1
    BY <2>1, PlacesFacts DEF IInv, Placed, Writing
  <2>3. results'[p] = results[p] \/ results'[p] = Append(results[p], record[p][1])
    BY <1>1, <1>t DEF Record, Set, Collected
  <2> QED BY <1>1, <1>t, <2>1, <2>2, <2>3
<1>2. CASE Record(p) /\ ~(index[p] < Batch)
  BY <1>2, <1>t, PlacesFacts DEF Record
<1>3. CASE ~Record(p)
  BY <1>3 DEF Step, BatchStep, Begin, Precheck, RunTrial, MakePlace, CreateFile, FindFile,
              WriteFile, WriteRaises, Crash
<1> QED BY <1>1, <1>2, <1>3

LEMMA PlacedStep ==
  ASSUME IInv, NEW p \in Procs, Step(p)
  PROVE  Placed'
<1>0. /\ Batch \in Nat /\ NumTrials \in Nat /\ Batch = NumTrials + 1 /\ NumTrials > 0
      /\ Places = 1..Batch
  BY PlacesFacts
<1>t. /\ pc \in [Procs -> {"idle", "precheck", "trial", "mkdir", "create", "write", "record"}
                            \cup Ended]
      /\ index \in [Procs -> 1..Batch] /\ file \in [Procs -> Nat]
      /\ record \in [Procs -> Seq(Outcomes)] /\ results \in [Procs -> Seq(Outcomes)]
  BY <1>0 DEF IInv, TypeOK
<1>p. /\ Len(results[p]) \in Nat /\ Len(results[p]) <= NumTrials
      /\ (pc[p] \in {"idle", "precheck"} => results[p] = <<>>)
      /\ (pc[p] \in {"trial", "mkdir", "create", "write", "record"} =>
            Len(results[p]) = index[p] - 1)
      /\ (pc[p] = "trial" => index[p] # Batch)
      /\ (pc[p] = "mkdir" => file[p] = 1)
      /\ (pc[p] \in {"mkdir", "create", "write", "record"} /\ index[p] = Batch =>
            record[p] = results[p])
      /\ (pc[p] \in {"mkdir", "create", "write", "record"} /\ index[p] # Batch =>
            Len(record[p]) = 1)
  BY <1>t DEF IInv, Placed, Writing
<1>r. record[p] \in Seq(Outcomes)
  BY <1>t
<1>e. index[p] \in Nat /\ index[p] > 0 /\ index[p] <= Batch
  BY <1>0, <1>t
<1> SUFFICES ASSUME NEW q \in Procs
             PROVE  /\ Len(results'[q]) <= NumTrials
                    /\ pc'[q] \in {"idle", "precheck"} => results'[q] = <<>>
                    /\ pc'[q] \in {"trial"} \cup Writing => Len(results'[q]) = index'[q] - 1
                    /\ pc'[q] = "trial" => index'[q] # Batch
                    /\ pc'[q] = "mkdir" => file'[q] = 1
                    /\ pc'[q] \in Writing /\ index'[q] = Batch => record'[q] = results'[q]
                    /\ pc'[q] \in Writing /\ index'[q] # Batch => Len(record'[q]) = 1
  BY DEF Placed, Writing, Batch, NumTrials
<1>1. CASE q # p
  BY <1>1, OthersKept DEF IInv, Placed
<1>2. CASE q = p /\ Begin(p)
  BY <1>2, <1>t, <1>p DEF Begin, Go, Set, Writing
<1>3. CASE q = p /\ Precheck(p)
  <2>1. pc[p] = "precheck" /\ UNCHANGED <<results, file, record>>
    BY <1>3 DEF Precheck, Go
  <2>2. pc'[p] \in {"precheck", "refused", "trial"} /\ (pc'[p] = "trial" => index'[p] = 1)
    BY <1>3, <1>t DEF Precheck, Go, Set
  <2>3. results[p] = <<>> /\ Len(results[p]) = 0
    BY <1>p, <2>1
  <2> QED BY <1>0, <1>3, <1>p, <2>1, <2>2, <2>3 DEF Writing
<1>4. CASE q = p /\ RunTrial(p)
  <2>1. pc[p] = "trial" /\ UNCHANGED <<results, index>> /\ pc'[p] = "mkdir" /\ file'[p] = 1
    BY <1>4, <1>t DEF RunTrial, Go, Set
  <2>2. Len(record'[p]) = 1
    BY <1>4, <1>t DEF RunTrial, Set
  <2> QED BY <1>4, <1>p, <2>1, <2>2 DEF Writing
<1>5. CASE q = p /\ MakePlace(p)
  BY <1>5, <1>t, <1>p DEF MakePlace, Go, Set, Writing
<1>6. CASE q = p /\ CreateFile(p)
  BY <1>6, <1>t, <1>p DEF CreateFile, Go, Set, Writing
<1>7. CASE q = p /\ FindFile(p)
  BY <1>7, <1>t, <1>p DEF FindFile, Go, Set, Writing
<1>8. CASE q = p /\ WriteFile(p)
  <2>1. pc[p] = "write" /\ pc'[p] \in {"create", "record"} /\ UNCHANGED <<index, record, results>>
    BY <1>8, <1>t DEF WriteFile, Go, Set
  <2> QED BY <1>8, <1>p, <2>1 DEF Writing
<1>9. CASE q = p /\ Record(p)
  <2>1. pc[p] = "record" /\ Len(results[p]) = index[p] - 1
    BY <1>9, <1>p DEF Record
  <2>2. CASE index[p] < NumTrials
    <3>1. pc'[p] = "trial" /\ index'[p] = index[p] + 1 /\ results'[p] = Collected(p)
      BY <1>0, <1>9, <1>e, <1>t, <2>2 DEF Record, Set
    <3>2. Len(record[p]) = 1
      BY <1>0, <1>e, <1>p, <2>1, <2>2
    <3>3. record[p][1] \in Outcomes
      BY <1>r, <3>2
    <3>4. Len(Collected(p)) = Len(results[p]) + 1
      BY <1>t, <3>3 DEF Collected
    <3> QED BY <1>0, <1>9, <1>e, <1>p, <2>1, <2>2, <3>1, <3>4 DEF Writing
  <2>3. CASE index[p] = NumTrials
    <3>1. /\ pc'[p] = "mkdir" /\ index'[p] = Batch /\ results'[p] = Collected(p)
          /\ record'[p] = results'[p] /\ file'[p] = 1
      BY <1>0, <1>9, <1>e, <1>t, <2>3 DEF Record, Set
    <3>2. Len(record[p]) = 1
      BY <1>0, <1>e, <1>p, <2>1, <2>3
    <3>3. record[p][1] \in Outcomes
      BY <1>r, <3>2
    <3>4. Len(Collected(p)) = Len(results[p]) + 1
      BY <1>t, <3>3 DEF Collected
    <3> QED BY <1>0, <1>9, <1>e, <1>p, <2>1, <2>3, <3>1, <3>4 DEF Writing
  <2>4. CASE index[p] = Batch
    <3>1. pc'[p] = "done" /\ results' = results
      BY <1>0, <1>9, <1>e, <1>t, <2>4 DEF Record, Set
    <3> QED BY <1>9, <1>p, <3>1 DEF Writing
  <2> QED BY <1>0, <1>e, <2>2, <2>3, <2>4
<1>10. CASE q = p /\ WriteRaises(p)
  <2>1. pc[p] \in Writing /\ UNCHANGED <<index, results>>
    BY <1>10 DEF WriteRaises, Writing
  <2>2. \/ pc'[p] = "failed"
        \/ /\ index[p] # Batch /\ pc'[p] = "mkdir" /\ file'[p] = 1
           /\ record'[p] = <<"batch_error">>
    BY <1>10, <1>t DEF WriteRaises, Set
  <2>3. Len(<<"batch_error">>) = 1
    OBVIOUS
  <2> QED BY <1>10, <1>p, <2>1, <2>2, <2>3 DEF Writing
<1>11. CASE q = p /\ Crash(p)
  BY <1>11, <1>t, <1>p DEF Crash, Set, Writing
<1> QED
  BY <1>1, <1>2, <1>3, <1>4, <1>5, <1>6, <1>7, <1>8, <1>9, <1>10, <1>11 DEF Step, BatchStep

\* What p has written it still owns after a step of its own or of another.
LEMMA OwnedStep ==
  ASSUME IInv, NEW p \in Procs, Step(p)
  PROVE  Owned'
<1>0. TypeOK /\ Owned /\ Placed /\ StoreTypeOK
  BY DEF IInv, TypeOK
<1>p. \A d \in Places : Files(d) = 1..NumFiles[d] /\ NumFiles[d] \in Nat
  BY PlacesFacts DEF Files
<1>t. /\ DOMAIN pc = Procs /\ DOMAIN index = Procs /\ DOMAIN file = Procs
      /\ DOMAIN record = Procs /\ file[p] \in Nat /\ index[p] \in Places
  BY <1>0 DEF TypeOK
<1> DEFINE Mine(q, n, s) ==
      store'[index'[q]][n] = [by |-> q, content |-> record'[q], state |-> s]
<1> SUFFICES ASSUME NEW q \in Procs
             PROVE  /\ pc'[q] \in {"create", "write"} =>
                         \A n \in Files(index'[q]) : n < file'[q] => Mine(q, n, "closed")
                    /\ pc'[q] = "write" => Mine(q, file'[q], "open")
                    /\ pc'[q] = "record" => \A n \in Files(index'[q]) : Mine(q, n, "closed")
  BY DEF Owned, Own, Files
<1>1. CASE q # p
  <2>1. /\ pc'[q] = pc[q] /\ index'[q] = index[q] /\ file'[q] = file[q]
        /\ record'[q] = record[q]
    BY <1>0, <1>1, OthersKept
  <2>2. index[q] \in Places /\ (pc[q] = "write" => file[q] \in Files(index[q]))
    BY <1>0 DEF TypeOK
  <2>3. ASSUME NEW n \in Files(index[q]), NEW s \in {"open", "closed"},
               store[index[q]][n] = Own(q, s)
        PROVE  Mine(q, n, s)
    <3>1. Own(q, s) \in FileType /\ Own(q, s).by = q
      BY <1>0 DEF Own, FileType, TypeOK
    <3>2. Exists(index[q], n) /\ store[index[q]][n].by # p
      BY <1>0, <1>1, <2>2, <2>3, <3>1, ExistsType
    <3>3. store'[index[q]][n] = store[index[q]][n]
      BY <1>0, <2>2, <3>2, StoreStep
    <3> QED BY <2>1, <2>3, <3>3 DEF Own
  <2> QED BY <1>0, <2>1, <2>2, <2>3 DEF Owned
<1>2. CASE q = p /\ MakePlace(p)
  <2>1. pc'[p] = "create" /\ file'[p] = 1 /\ index'[p] = index[p]
    BY <1>0, <1>2, <1>t DEF MakePlace, Go, Set, Placed
  <2> QED BY <1>2, <1>p, <1>t, <2>1
<1>3. CASE q = p /\ CreateFile(p)
  <2>1. /\ pc[p] = "create" /\ pc'[p] = "write"
        /\ index' = index /\ file' = file /\ record' = record
    BY <1>3, <1>t DEF CreateFile, Go, Set
  <2>2. Mine(p, file[p], "open")
    BY <1>0, <1>3, <2>1, CreateFacts DEF Own
  <2>3. \A n \in Files(index[p]) : n < file[p] => store'[index[p]][n] = store[index[p]][n]
    BY <1>0, <1>3, <1>p, <1>t, CreateFacts
  <2>4. \A n \in Files(index[p]) : n < file[p] => Mine(p, n, "closed")
    BY <1>0, <2>1, <2>3 DEF Owned, Own
  <2> QED BY <1>3, <2>1, <2>2, <2>4
<1>4. CASE q = p /\ WriteFile(p)
  <2>1. /\ pc[p] = "write" /\ index' = index /\ record' = record
        /\ \/ pc'[p] = "create" /\ file'[p] = file[p] + 1
           \/ pc'[p] = "record" /\ file[p] = NumFiles[index[p]]
    BY <1>4, <1>t DEF WriteFile, Go, Set
  <2>2. Mine(p, file[p], "closed")
    BY <1>0, <1>4, <2>1, WriteFacts DEF Own
  <2>3. \A n \in Files(index[p]) : n # file[p] => store'[index[p]][n] = store[index[p]][n]
    BY <1>0, <1>4, <1>t, WriteFacts
  <2>4. \A n \in Files(index[p]) : n < file[p] => Mine(p, n, "closed")
    <3>1. \A n \in Files(index[p]) : n < file[p] => store[index[p]][n] = Own(p, "closed")
      BY <1>0, <2>1 DEF Owned
    <3>2. \A n \in Files(index[p]) : n < file[p] => n # file[p]
      BY <1>p, <1>t
    <3> QED BY <2>1, <2>3, <3>1, <3>2 DEF Own
  <2>5. \A n \in Files(index[p]) : n <= file[p] => Mine(p, n, "closed")
    BY <1>p, <1>t, <2>2, <2>4
  <2> HIDE DEF Mine
  <2>6. CASE pc'[p] = "create" /\ file'[p] = file[p] + 1
    BY <1>4, <1>p, <1>t, <2>1, <2>5, <2>6
  <2>7. CASE pc'[p] = "record" /\ file[p] = NumFiles[index[p]]
    BY <1>4, <1>p, <1>t, <2>1, <2>5, <2>7
  <2> QED BY <2>1, <2>6, <2>7
<1>5. CASE q = p /\ ~MakePlace(p) /\ ~CreateFile(p) /\ ~WriteFile(p)
  <2>1. pc'[p] \notin {"create", "write", "record"}
    BY <1>5, <1>t DEF Step, BatchStep, Begin, Precheck, RunTrial, FindFile, Record, WriteRaises,
                      Crash, Go, Set
  <2> QED BY <1>5, <2>1
<1> QED BY <1>1, <1>2, <1>3, <1>4, <1>5

LEMMA HeadStep ==
  ASSUME IInv, NEW p \in Procs, Step(p)
  PROVE  HeadRules'
<1>0. TypeOK /\ Owned /\ HeadRules /\ StoreTypeOK
  BY DEF IInv, TypeOK
<1>p. \A d \in Places : Files(d) = 1..NumFiles[d] /\ NumFiles[d] \in Nat /\ 1 \in Files(d)
  BY PlacesFacts DEF Files
<1> SUFFICES ASSUME NEW d \in Places, NEW n \in Files(d), store'[d][n] # NoFile
             PROVE  /\ store'[d][1] # NoFile
                    /\ store'[d][n].by = store'[d][1].by
                    /\ store'[d][n].content = store'[d][1].content
  BY DEF HeadRules, Exists, Files, Places
<1>1. CASE Exists(d, n)
  <2>1. Exists(d, 1) /\ store[d][n].by = store[d][1].by
        /\ store[d][n].content = store[d][1].content
    BY <1>0, <1>1 DEF HeadRules
  <2> QED BY <1>0, <1>1, <1>p, <2>1, StoreStep
<1>2. CASE ~Exists(d, n) /\ n # 1
  <2>1. CreateFile(p) /\ d = index[p] /\ n = file[p] /\ store'[d][n] = Own(p, "open")
    BY <1>0, <1>2, StoreStep
  <2>2. pc[p] = "create" /\ 1 < file[p]
    BY <1>2, <1>p, <2>1 DEF CreateFile, Go
  <2>3. store[d][1] = Own(p, "closed")
    BY <1>0, <1>p, <2>1, <2>2 DEF Owned
  <2>4. Own(p, "closed") \in FileType /\ Own(p, "closed").by = Own(p, "open").by
        /\ Own(p, "closed").content = Own(p, "open").content
        /\ Own(p, "closed").state = "closed"
    BY <1>0 DEF Own, FileType, TypeOK
  <2>5. Exists(d, 1) /\ store'[d][1] = store[d][1]
    BY <1>0, <1>p, <2>3, <2>4, ExistsType, StoreStep
  <2> QED BY <2>1, <2>3, <2>4, <2>5 DEF Exists
<1>3. CASE n = 1
  BY <1>3
<1> QED BY <1>1, <1>2, <1>3

LEMMA ResultsKeptStep ==
  ASSUME IInv, NEW p \in Procs, Step(p)
  PROVE  ResultsKept'
<1>0. TypeOK /\ Owned /\ Placed /\ ResultsKept /\ StoreTypeOK
  BY DEF IInv, TypeOK
<1>t. results \in [Procs -> Seq(Outcomes)] /\ record \in [Procs -> Seq(Outcomes)]
  BY <1>0 DEF TypeOK
<1> DEFINE Kept(q, o) == [by |-> q, content |-> <<o>>, state |-> "closed"]
<1>1. ASSUME NEW q \in Procs, NEW i \in 1..Len(results[q]), NEW n \in Files(i)
      PROVE  store'[i][n] = Kept(q, results[q][i])
  <2>1. i \in Places
    BY <1>0, <1>t, PlacesFacts DEF Placed
  <2>2. store[i][n] = Kept(q, results[q][i])
    BY <1>0 DEF ResultsKept
  <2>3. Kept(q, results[q][i]) \in FileType /\ Kept(q, results[q][i]).state = "closed"
    BY <1>t DEF FileType
  <2> HIDE DEF Kept
  <2>4. Exists(i, n)
    BY <1>0, <2>1, <2>2, <2>3, ExistsType
  <2>5. store'[i][n] = store[i][n]
    BY <1>0, <2>1, <2>2, <2>3, <2>4, StoreStep
  <2> QED BY <2>2, <2>5
<1> SUFFICES ASSUME NEW q \in Procs, NEW i \in 1..Len(results'[q]), NEW n \in Files(i)
             PROVE  store'[i][n] = Kept(q, results'[q][i])
  BY DEF ResultsKept, Files
<1> HIDE DEF Kept
<1>2. CASE results'[q] = results[q]
  BY <1>1, <1>2
<1>3. CASE results'[q] # results[q]
  <2>1. q = p
    BY <1>0, <1>3, OthersKept
  <2>2. /\ Record(p) /\ pc[p] = "record" /\ index[p] \in 1..NumTrials
        /\ Len(results[p]) = index[p] - 1
        /\ record[p] \in Seq(Outcomes) /\ Len(record[p]) = 1
        /\ results'[p] = Append(results[p], record[p][1])
    BY <1>3, <2>1, ResultsStep
  <2>3. results[p] \in Seq(Outcomes) /\ record[p][1] \in Outcomes
    <3>1. results[p] \in Seq(Outcomes)
      BY <1>t
    <3> QED BY <2>2, <3>1
  <2>4. CASE i \in 1..Len(results[p])
    <3>1. results'[p][i] = results[p][i]
      BY <2>2, <2>3, <2>4
    <3> QED BY <1>1, <2>1, <2>4, <3>1
  <2>5. CASE i = index[p]
    <3>1. results'[p][i] = record[p][1]
      BY <2>2, <2>3, <2>5
    <3>2. store[i][n] = Own(p, "closed")
      BY <1>0, <2>2, <2>5 DEF Owned
    <3>3. record[p] = <<record[p][1]>>
      BY <2>2
    <3>4. store' = store
      BY <2>2, PlacesFacts DEF Record, storeVars
    <3> QED BY <2>1, <3>1, <3>2, <3>3, <3>4 DEF Own, Kept
  <2>6. Len(results'[p]) = index[p]
    BY <2>2, <2>3
  <2> QED BY <2>1, <2>2, <2>3, <2>4, <2>5, <2>6
<1> QED BY <1>2, <1>3

LEMMA ManifestStep ==
  ASSUME IInv, NEW p \in Procs, Step(p)
  PROVE  ManifestKept'
<1>0. TypeOK /\ Owned /\ Placed /\ ManifestKept /\ StoreTypeOK
  BY DEF IInv, TypeOK
<1>p. Batch \in Places /\ Batch \in Nat /\ NumTrials \in Nat /\ Batch = NumTrials + 1
  BY PlacesFacts
<1> SUFFICES ASSUME NEW n \in Files(Batch), store'[Batch][n] # NoFile
             PROVE  /\ store'[Batch][n].content = results'[store'[Batch][n].by]
                    /\ Len(store'[Batch][n].content) = NumTrials
  BY DEF ManifestKept, Exists, Files, Batch, NumTrials
<1>1. CASE Exists(Batch, n)
  <2>1. /\ store[Batch][n].content = results[store[Batch][n].by]
        /\ Len(store[Batch][n].content) = NumTrials
    BY <1>0, <1>1 DEF ManifestKept
  <2>2. store[Batch][n] \in FileType
    BY <1>0, <1>1, <1>p, ExistsType
  <2>3. store[Batch][n].by \in Procs
    BY <2>2 DEF FileType
  <2>4. /\ store'[Batch][n].by = store[Batch][n].by
        /\ store'[Batch][n].content = store[Batch][n].content
    BY <1>0, <1>1, <1>p, StoreStep
  <2>5. results'[store[Batch][n].by] = results[store[Batch][n].by]
    <3>1. CASE store[Batch][n].by # p
      BY <1>0, <2>3, <3>1, OthersKept
    <3>2. CASE store[Batch][n].by = p
      <4>1. Len(results[p]) = NumTrials
        BY <2>1, <3>2
      <4>2. results'[p] = results[p]
        BY <1>p, <4>1, ResultsStep
      <4> QED BY <3>2, <4>2
    <3> QED BY <3>1, <3>2
  <2> QED BY <2>1, <2>4, <2>5
<1>2. CASE ~Exists(Batch, n)
  <2>1. CreateFile(p) /\ Batch = index[p] /\ store'[Batch][n] = Own(p, "open")
    BY <1>0, <1>2, <1>p, StoreStep
  <2>2. pc[p] = "create" /\ results' = results
    BY <2>1 DEF CreateFile, Go
  <2>3. record[p] = results[p] /\ Len(results[p]) = NumTrials
    BY <1>0, <1>p, <2>1, <2>2 DEF Placed, Writing
  <2> QED BY <2>1, <2>2, <2>3 DEF Own
<1> QED BY <1>1, <1>2

-----------------------------------------------------------------------------
(* The theorems.                                                           *)

THEOREM Invariance == Spec => []IInv
<1>1. Init => IInv
  BY InitInv
<1>2. IInv /\ [Next]_vars => IInv'
  <2> SUFFICES ASSUME IInv, [Next]_vars PROVE IInv'
    OBVIOUS
  <2>1. ASSUME NEW p \in Procs, Step(p) PROVE IInv'
    BY <2>1, TypeStep, PlacedStep, OwnedStep, HeadStep, ResultsKeptStep, ManifestStep DEF IInv
  <2>2. CASE UNCHANGED vars
    BY <2>2 DEF vars, storeVars, procVars, IInv, TypeOK, StoreTypeOK, Placed, Owned, Own,
                HeadRules, ResultsKept, ManifestKept, Exists, Files
  <2> QED BY <2>1, <2>2 DEF Next
<1> QED BY <1>1, <1>2, PTL DEF Spec

\* The processes and the store keep their types.
THEOREM TypeCorrectness == Spec => []TypeOK
BY Invariance, PTL DEF IInv

\* Whatever overlaps or fails, no directory holds files of two writers or of
\* two outcomes: the holder of the first file has them all.
THEOREM DirsUnmixedAlways == Spec => []DirsUnmixed
<1>1. IInv => DirsUnmixed
  BY DEF IInv, HeadRules, DirsUnmixed
<1> QED BY <1>1, Invariance, PTL

\* Two processes with an outcome would both have the first trial's first file.
THEOREM OneSurvivorAlways == Spec => []OneSurvivor
<1>1. IInv => OneSurvivor
  <2> SUFFICES ASSUME IInv, NEW p \in Procs, NEW q \in Procs,
                      results[p] # <<>>, results[q] # <<>>
               PROVE  p = q
    BY DEF OneSurvivor
  <2>1. results[p] \in Seq(Outcomes) /\ results[q] \in Seq(Outcomes)
    BY DEF IInv, TypeOK
  <2>2. 1 \in 1..Len(results[p]) /\ 1 \in 1..Len(results[q])
    BY <2>1
  <2>3. 1 \in Files(1)
    BY PlacesFacts
  <2>4. \A r \in {p, q} :
          store[1][1] = [by |-> r, content |-> <<results[r][1]>>, state |-> "closed"]
    BY <2>2, <2>3 DEF IInv, ResultsKept
  <2>5. store[1][1].by = p /\ store[1][1].by = q
    BY <2>4
  <2> QED BY <2>5
<1> QED BY <1>1, Invariance, PTL

\* The manifest is its writer's results, and those are its directories.
LEMMA ManifestFacts ==
  ASSUME IInv, NEW n \in Files(Batch), Exists(Batch, n)
  PROVE  /\ store[Batch][n].content \in Seq(Outcomes)
         /\ Len(store[Batch][n].content) = NumTrials
         /\ \A i \in 1..NumTrials : \A m \in Files(i) :
              /\ Exists(i, m)
              /\ store[i][m] = [by |-> store[Batch][n].by,
                                content |-> <<store[Batch][n].content[i]>>, state |-> "closed"]
<1>1. StoreTypeOK /\ Batch \in Places /\ \A i \in 1..NumTrials : i \in Places
  BY PlacesFacts DEF IInv, TypeOK
<1>2. store[Batch][n] \in FileType
  BY <1>1, ExistsType
<1>3. store[Batch][n].by \in Procs /\ store[Batch][n].content \in Seq(Outcomes)
  BY <1>2 DEF FileType
<1>4. /\ store[Batch][n].content = results[store[Batch][n].by]
      /\ Len(store[Batch][n].content) = NumTrials
  BY DEF IInv, ManifestKept
<1>5. ASSUME NEW i \in 1..NumTrials, NEW m \in Files(i)
      PROVE  /\ Exists(i, m)
             /\ store[i][m] = [by |-> store[Batch][n].by,
                               content |-> <<store[Batch][n].content[i]>>, state |-> "closed"]
  <2>1. store[i][m] = [by |-> store[Batch][n].by,
                       content |-> <<store[Batch][n].content[i]>>, state |-> "closed"]
    BY <1>3, <1>4 DEF IInv, ResultsKept
  <2>2. store[Batch][n].content[i] \in Outcomes
    BY <1>3, <1>4
  <2>3. store[i][m] \in FileType
    BY <1>3, <2>1, <2>2 DEF FileType
  <2> QED BY <1>1, <2>1, <2>3, ExistsType
<1> QED BY <1>3, <1>4, <1>5

\* A manifest tells of every planned trial what its own complete directory
\* tells.
THEOREM ManifestFaithfulAlways == Spec => []ManifestFaithful
<1>1. IInv => ManifestFaithful
  <2> SUFFICES ASSUME IInv, Exists(Batch, 1)
               PROVE  /\ Len(store[Batch][1].content) = NumTrials
                      /\ \A i \in 1..NumTrials : \A n \in Files(i) :
                           /\ Exists(i, n)
                           /\ store[i][n] = [by |-> store[Batch][1].by,
                                             content |-> <<store[Batch][1].content[i]>>,
                                             state |-> "closed"]
    BY DEF ManifestFaithful
  <2>1. 1 \in Files(Batch)
    BY PlacesFacts
  <2> QED BY <2>1, ManifestFacts
<1> QED BY <1>1, Invariance, PTL

-----------------------------------------------------------------------------
(* The refinement.                                                         *)

\* What a run is for the contract depends on its files alone.
LEMMA RunKept ==
  ASSUME NEW i \in 1..NumTrials, \A n \in Files(i) : store'[i][n] = store[i][n]
  PROVE  RunOf(i)' = RunOf(i)
<1>1. 1 \in Files(i)
  BY PlacesFacts
<1> QED BY <1>1 DEF RunOf, Complete, Exists, Files

\* The same for the manifest.
LEMMA ManifestKeeps ==
  ASSUME store'[Batch][1] = store[Batch][1]
  PROVE  ManifestOf' = ManifestOf
BY DEF ManifestOf, Exists, Batch

\* A run of which one file is missing or open is not complete.
LEMMA RunOpen ==
  ASSUME NEW i \in 1..NumTrials, NEW n \in Files(i), Exists(i, n), ~Complete(i)
  PROVE  RunOf(i) = "open"
BY DEF RunOf

LEMMA InitRefines == Init => Contract!ContractInit
<1> SUFFICES ASSUME Init PROVE Contract!ContractInit
  OBVIOUS
<1>1. \A d \in Places : \A n \in Files(d) : ~Exists(d, n)
  BY DEF Init, StoreInit, Exists
<1>2. ASSUME NEW i \in 1..NumTrials PROVE RunOf(i) = "none"
  <2>1. 1 \in Files(i) /\ i \in Places
    BY PlacesFacts
  <2> QED BY <1>1, <2>1 DEF RunOf, Complete
<1>3. ManifestOf = <<>>
  BY <1>1, PlacesFacts DEF ManifestOf
<1> QED BY <1>2, <1>3 DEF Contract!ContractInit

LEMMA StepRefines ==
  ASSUME IInv, NEW p \in Procs, Step(p)
  PROVE  Contract!ContractNext \/ UNCHANGED Contract!contractVars
<1>0. TypeOK /\ StoreTypeOK /\ Owned /\ Placed /\ HeadRules
  BY DEF IInv, TypeOK
<1>p. /\ \A i \in 1..NumTrials : i \in Places /\ i # Batch
      /\ Places = 1..Batch /\ Batch = NumTrials + 1 /\ Batch \in Places /\ NumTrials \in Nat
      /\ \A d \in Places : Files(d) = 1..NumFiles[d] /\ NumFiles[d] \in Nat /\ 1 \in Files(d)
  BY PlacesFacts DEF Files
<1>t. record[p] \in Seq(Outcomes) /\ file[p] \in Nat /\ index[p] \in Places
  BY <1>0 DEF TypeOK
<1>n. NoFile \notin FileType /\ Own(p, "open") \in FileType /\ Own(p, "closed") \in FileType
  BY <1>0, StoreAssumption DEF Own, FileType, TypeOK
<1>o. /\ Own(p, "open").content = record[p] /\ Own(p, "open").state # "closed"
      /\ Own(p, "closed").content = record[p] /\ Own(p, "closed").state = "closed"
  BY DEF Own
<1> HIDE DEF Own
<1>u. ASSUME \A i \in 1..NumTrials : RunOf(i)' = RunOf(i), ManifestOf' = ManifestOf
      PROVE  UNCHANGED Contract!contractVars
  <2>1. [i \in 1..NumTrials |-> RunOf(i)]' = [i \in 1..NumTrials |-> RunOf(i)]
    BY <1>u DEF NumTrials, Batch
  <2> QED BY <1>u, <2>1 DEF Contract!contractVars
<1>1. CASE CreateFile(p)
  <2>d. PICK d \in Places : d = index[p]
    BY <1>t
  <2>1. /\ index[p] \in Places /\ file[p] \in Files(index[p])
        /\ ~Exists(index[p], file[p])
        /\ store'[index[p]][file[p]] = Own(p, "open")
    BY <1>0, <1>1, CreateFacts
  <2>2. \A e \in Places : \A m \in Files(e) :
          (e # index[p] \/ m # file[p]) => store'[e][m] = store[e][m]
    BY <1>0, <1>1, CreateFacts
  <2>3. \A i \in 1..NumTrials : i # d => RunOf(i)' = RunOf(i)
    BY <1>p, <2>2, <2>d, RunKept
  <2>4. ManifestOf' = ManifestOf
    <3>1. CASE index[p] = Batch /\ file[p] = 1
      BY <1>o, <2>1, <3>1 DEF ManifestOf, Exists, Batch
    <3>2. CASE ~(index[p] = Batch /\ file[p] = 1)
      BY <1>p, <2>2, <3>2, ManifestKeeps
    <3> QED BY <3>1, <3>2
  <2>5. CASE index[p] = Batch
    BY <2>d, <1>p, <1>u, <2>3, <2>4, <2>5
  <2>6. ASSUME index[p] # Batch
        PROVE  RunOf(d)' = "open"
    BY <2>d, <1>n, <1>o, <2>1 DEF RunOf, Complete, Exists, Files
  <2>7. CASE index[p] # Batch /\ file[p] = 1
    <3>1. index[p] \in 1..NumTrials
      BY <1>p, <1>t, <2>7
    <3>2. \A n \in Files(index[p]) : ~Exists(index[p], n)
      BY <1>0, <1>t, <2>1, <2>7 DEF HeadRules
    <3>3. RunOf(d) = "none"
      BY <2>d, <1>p, <1>t, <3>2 DEF RunOf, Complete
    <3>4. [i \in 1..NumTrials |-> RunOf(i)]' =
            [[i \in 1..NumTrials |-> RunOf(i)] EXCEPT ![d] = "open"]
      BY <2>3, <2>6, <2>7 DEF NumTrials, Batch
    <3>5. Contract!OpenRun(index[p])
      BY <2>d, <2>4, <3>1, <3>3, <3>4 DEF Contract!OpenRun
    <3> QED BY <3>1, <3>5 DEF Contract!ContractNext
  <2>8. CASE index[p] # Batch /\ file[p] # 1
    <3>1. index[p] \in 1..NumTrials /\ 1 < file[p] /\ pc[p] = "create"
      BY <1>1, <1>p, <1>t, <2>1, <2>8 DEF CreateFile, Go
    <3>2. store[index[p]][1] = Own(p, "closed")
      BY <1>0, <1>p, <1>t, <3>1 DEF Owned
    <3>3. Exists(index[p], 1) /\ ~Complete(index[p])
      BY <1>n, <2>1, <3>2 DEF Exists, Complete
    <3>4. RunOf(d) = "open"
      BY <2>d, <1>p, <1>t, <3>1, <3>3, RunOpen
    <3> QED BY <1>u, <2>3, <2>4, <2>6, <2>8, <3>4
  <2> QED BY <2>5, <2>7, <2>8
<1>2. CASE WriteFile(p)
  <2>d. PICK d \in Places : d = index[p]
    BY <1>t
  <2>0. pc[p] = "write"
    BY <1>2 DEF WriteFile, Go
  <2>1. /\ index[p] \in Places /\ file[p] \in Files(index[p])
        /\ store[index[p]][file[p]] = Own(p, "open")
        /\ store'[index[p]][file[p]] = Own(p, "closed")
    BY <1>0, <1>2, WriteFacts
  <2>2. \A e \in Places : \A m \in Files(e) :
          (e # index[p] \/ m # file[p]) => store'[e][m] = store[e][m]
    BY <1>0, <1>2, WriteFacts
  <2>3. \A i \in 1..NumTrials : i # d => RunOf(i)' = RunOf(i)
    BY <1>p, <2>2, <2>d, RunKept
  <2>4. ~(index[p] = Batch /\ file[p] = 1) => ManifestOf' = ManifestOf
    BY <1>p, <2>2, ManifestKeeps
  <2>5. CASE index[p] = Batch /\ file[p] # 1
    BY <2>d, <1>p, <1>u, <2>3, <2>4, <2>5
  <2>6. CASE index[p] = Batch /\ file[p] = 1
    <3>1. Exists(Batch, 1) /\ ManifestOf = <<>> /\ ManifestOf' = record[p]
      BY <1>n, <1>o, <2>1, <2>6 DEF ManifestOf, Exists, Batch
    <3>2. /\ store[Batch][1].content = record[p] /\ Len(record[p]) = NumTrials
          /\ \A i \in 1..NumTrials : \A m \in Files(i) :
               /\ Exists(i, m)
               /\ store[i][m] = [by |-> store[Batch][1].by,
                                 content |-> <<record[p][i]>>, state |-> "closed"]
      BY <1>o, <1>p, <2>1, <2>6, <3>1, ManifestFacts
    <3>3. ASSUME NEW i \in 1..NumTrials
          PROVE  RunOf(i) = record[p][i] /\ record[p][i] \in Outcomes
      <4>1. Complete(i) /\ store[i][1].content[1] = record[p][i]
        <5>1. 1 \in Files(i)
          BY <1>p
        <5> DEFINE Entry == [by |-> store[Batch][1].by, content |-> <<record[p][i]>>,
                             state |-> "closed"]
        <5>2. \A m \in Files(i) : Exists(i, m) /\ store[i][m] = Entry
          BY <3>2
        <5>3. Entry.content[1] = record[p][i] /\ Entry.state = "closed"
          OBVIOUS
        <5> HIDE DEF Entry
        <5> QED BY <5>1, <5>2, <5>3 DEF Complete
      <4>2. record[p][i] \in Outcomes
        BY <1>t, <3>2
      <4> QED BY <4>1, <4>2 DEF RunOf
    <3>4. record[p] = [i \in 1..NumTrials |-> [j \in 1..NumTrials |-> RunOf(j)][i]]
      BY <1>t, <3>2, <3>3
    <3>5. [i \in 1..NumTrials |-> RunOf(i)]' = [i \in 1..NumTrials |-> RunOf(i)]
      BY <2>d, <1>p, <2>3, <2>6 DEF NumTrials, Batch
    <3>6. Contract!PublishManifest
      BY <3>1, <3>3, <3>4, <3>5 DEF Contract!PublishManifest
    <3> QED BY <3>6 DEF Contract!ContractNext
  <2>7. CASE index[p] # Batch
    <3>1. index[p] \in 1..NumTrials
      BY <1>p, <1>t, <2>7
    <3>2. Exists(index[p], file[p]) /\ ~Complete(index[p])
      BY <1>n, <1>o, <2>1 DEF Exists, Complete
    <3>3. RunOf(d) = "open"
      BY <2>d, <2>1, <3>1, <3>2, RunOpen
    <3>4. Len(record[p]) = 1 /\ record[p][1] \in Outcomes
      <4>1. Len(record[p]) = 1
        BY <1>0, <2>0, <2>7 DEF Placed, Writing
      <4> QED BY <1>t, <4>1
    <3>5. store'[index[p]][1].content = record[p]
      <4>1. Exists(index[p], 1) /\ store[index[p]][1].content = record[p]
        BY <1>0, <1>o, <1>t, <2>1, <3>2 DEF HeadRules
      <4> QED BY <1>0, <1>p, <1>t, <4>1, StoreStep
    <3>6. store'[index[p]][file[p]] # NoFile
      BY <1>n, <2>1
    <3>7. CASE Complete(d)'
      <4>1. RunOf(d)' = record[p][1]
        BY <2>d, <3>5, <3>7 DEF RunOf
      <4>2. [i \in 1..NumTrials |-> RunOf(i)]' =
              [[i \in 1..NumTrials |-> RunOf(i)] EXCEPT ![d] = record[p][1]]
        BY <2>3, <4>1 DEF NumTrials, Batch
      <4>3. Contract!SettleRun(index[p], record[p][1])
        BY <2>d, <2>4, <2>7, <3>1, <3>3, <4>2 DEF Contract!SettleRun
      <4> QED BY <3>1, <3>4, <4>3 DEF Contract!ContractNext
    <3>8. CASE ~Complete(d)'
      <4>1. RunOf(d)' = "open"
        BY <2>d, <2>1, <3>6, <3>8 DEF RunOf, Exists, Files
      <4> QED BY <1>u, <2>3, <2>4, <2>7, <3>3, <4>1
    <3> QED BY <3>7, <3>8
  <2> QED BY <2>5, <2>6, <2>7
<1>3. CASE ~CreateFile(p) /\ ~WriteFile(p)
  <2>1. store' = store
    BY <1>3, OtherFacts
  <2>2. ManifestOf' = ManifestOf /\ \A i \in 1..NumTrials : RunOf(i)' = RunOf(i)
    BY <2>1, RunKept, ManifestKeeps
  <2> QED BY <1>u, <2>2
<1> QED BY <1>1, <1>2, <1>3

\* Every behaviour of the batches is one of the contract: a run is opened
\* once and settled once, and the manifest is published when all are.
THEOREM ImplementsBatchAlways == Spec => ImplementsBatch
<1>1. Init => Contract!ContractInit
  BY InitRefines
<1>2. IInv /\ [Next]_vars => [Contract!ContractNext]_(Contract!contractVars)
  <2>1. ASSUME IInv, NEW p \in Procs, Step(p)
        PROVE  [Contract!ContractNext]_(Contract!contractVars)
    BY <2>1, StepRefines
  <2>2. ASSUME UNCHANGED vars PROVE UNCHANGED Contract!contractVars
    <3>1. store' = store
      BY <2>2 DEF vars, storeVars
    <3>2. ManifestOf' = ManifestOf /\ \A i \in 1..NumTrials : RunOf(i)' = RunOf(i)
      BY <3>1, RunKept, ManifestKeeps
    <3>3. [i \in 1..NumTrials |-> RunOf(i)]' = [i \in 1..NumTrials |-> RunOf(i)]
      BY <3>2 DEF NumTrials, Batch
    <3> QED BY <3>2, <3>3 DEF Contract!contractVars
  <2> QED BY <2>1, <2>2 DEF Next
<1> QED BY <1>1, <1>2, Invariance, PTL DEF Spec, ImplementsBatch, Contract!ContractSpec
=============================================================================
