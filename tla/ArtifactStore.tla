--------------------------- MODULE ArtifactStore ---------------------------
(***************************************************************************)
(* Write-once artifacts (cursor_eval/artifacts.py): a directory of files   *)
(* that are created exclusively, written one after the other in a fixed    *)
(* order, and closed by immutable.complete, the last of them.  A writer    *)
(* that fails or dies leaves what it has written.                          *)
(***************************************************************************)
EXTENDS Naturals, Sequences

CONSTANTS
  Procs,     \* the processes that write
  NumFiles,  \* how many files each directory gets, by its place
  Outcomes,  \* what a file tells is a sequence of these
  NoFile

Places == DOMAIN NumFiles

FileType == [by : Procs, content : Seq(Outcomes), state : {"open", "closed"}]

ASSUME StoreAssumption ==
  /\ NumFiles \in Seq(Nat \ {0})
  /\ NoFile \notin FileType

VARIABLES
  dirs,  \* the directories that exist
  store  \* their files, by their place in the order of writing

storeVars == <<dirs, store>>

Files(d) == 1..NumFiles[d]

Exists(d, n) == store[d][n] # NoFile

Complete(d) == \A n \in Files(d) : Exists(d, n) /\ store[d][n].state = "closed"

StoreInit ==
  /\ dirs = {}
  /\ store = [d \in Places |-> [n \in Files(d) |-> NoFile]]

\* run_dir.mkdir(parents=True, exist_ok=True)
MakeDir(d) ==
  /\ dirs' = dirs \cup {d}
  /\ UNCHANGED store

Put(d, n, file) ==
  /\ store' = [store EXCEPT ![d][n] = file]
  /\ UNCHANGED dirs

\* Slip: an existing file is truncated.
CreateAnyway(p, d, n, c) == Put(d, n, [by |-> p, content |-> c, state |-> "open"])

\* write_once opens with O_CREAT and O_EXCL.
Create(p, d, n, c) ==
  /\ ~Exists(d, n)
  /\ Put(d, n, [by |-> p, content |-> c, state |-> "open"])

\* It has written and closed the file.
Close(d, n) == Put(d, n, [store[d][n] EXCEPT !.state = "closed"])

StoreTypeOK ==
  /\ dirs \in SUBSET Places
  /\ DOMAIN store = Places
  /\ \A d \in Places : store[d] \in [Files(d) -> FileType \cup {NoFile}]
=============================================================================
