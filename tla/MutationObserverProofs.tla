----------------------- MODULE MutationObserverProofs -----------------------
(***************************************************************************)
(* What holds of the observer for any number of paths, contents and        *)
(* writes.  A manifest is taken file by file while the agent writes, so    *)
(* what is read of one lies between two states of the workspace: what the  *)
(* invariant keeps of it is that a file read differs from the baseline     *)
(* only if the agent wrote it, and that once the agent is gone the files   *)
(* read are those of the workspace (Scanned).  The log leads from the      *)
(* baseline to the last sample because a comparison tells each path once   *)
(* (Describes).                                                            *)
(***************************************************************************)
EXTENDS MutationObserver, NaturalsInduction, WellFoundedInduction, TLAPS

-----------------------------------------------------------------------------
(* The inductive invariant.                                                *)

Held == Contents \cup {Absent}
Threads == {"poll", "stop"}
EventType == [path : Paths, action : {"created", "deleted", "modified"},
              before : Held, after : Held]
ScanType == [at : {"idle", "list", "check", "read", "stat", "done", "failed"},
             todo : SUBSET Paths, seen : Manifests]

Typed ==
  /\ files \in Manifests /\ baseline \in Manifests /\ previous \in Manifests
  /\ events \in Seq(EventType)
  /\ scan \in [Threads -> ScanType]
  /\ poll \in {"sample", "last", "wait", "ended", "died"}
  /\ stop \in {"clear", "set"}
  /\ caller \in {"running", "join", "final", "returned", "raised"}
  /\ agent \in {"active", "gone"}
  /\ written \subseteq Paths
  /\ quiet \in BOOLEAN

\* Only a path the agent has written differs from the baseline.
Traced(m) == \A p \in Paths : m[p] # baseline[p] => p \in written

\* The paths a manifest has not read yet.
Unread(s) ==
  IF s.at \in {"idle", "list"} THEN Paths
  ELSE IF s.at = "stat" THEN s.todo \ {Min(s.todo)} ELSE s.todo

\* A thread whose manifest began when the agent was gone for good.
Settled(w) == quiet /\ (w = "stop" \/ poll = "last")

\* What a manifest that is being taken has read.
Scanned(w) ==
  scan[w].at # "failed" =>
    /\ scan[w].at \in {"check", "read", "stat"} => scan[w].todo # {}
    /\ scan[w].at = "done" => scan[w].todo = {}
    /\ \A p \in Unread(scan[w]) : scan[w].seen[p] = Absent
    /\ \A p \in Paths \ Unread(scan[w]) :
         /\ scan[w].seen[p] # baseline[p] => p \in written
         /\ Settled(w) => scan[w].seen[p] = files[p]

\* How the two threads and the agent follow each other.
Phases ==
  /\ quiet => agent = "gone"
  /\ caller = "running" => stop = "clear" /\ ~quiet /\ scan["stop"].at = "idle"
  /\ poll \in {"last", "ended"} => stop = "set"
  /\ caller \in {"final", "returned"} => poll \in {"ended", "died"}
  /\ quiet /\ poll = "ended" => previous = files
  /\ summary.kind = "summary" => caller = "returned"

\* The log leads from the baseline to a manifest.
Leads(base, log, m) ==
  /\ \A i \in 1..Len(log) :
       /\ log[i].before = LeftWith(base, log, log[i].path, i - 1)
       /\ log[i].after # log[i].before
  /\ \A p \in Paths : LeftWith(base, log, p, Len(log)) = m[p]

Logged == Leads(baseline, events, previous) /\ Touched(events) \subseteq written

IInv ==
  /\ Typed
  /\ Traced(files) /\ Traced(previous)
  /\ \A w \in Threads : Scanned(w)
  /\ Phases
  /\ Logged
  /\ SummaryExplained

USE ObserverAssumption

-----------------------------------------------------------------------------
(* Least and greatest elements.                                            *)

\* A set of naturals has a least element.
LEMMA LeastNat ==
  ASSUME NEW S \in SUBSET Nat, S # {}
  PROVE  \E m \in S : \A k \in S : m <= k
<1>1. PICK m \in S : \A k \in S : ~ (<<k, m>> \in OpToRel(<, Nat))
  BY NatLessThanWellFounded, WFMin
<1>2. \A k \in S : ~ (k < m)
  BY <1>1 DEF OpToRel
<1> QED
  BY <1>2

\* Min chooses an element.
LEMMA MinIn ==
  ASSUME NEW S \in SUBSET Nat, S # {}
  PROVE  Min(S) \in S
<1>1. \E m \in S : \A k \in S : m <= k
  BY LeastNat
<1> QED
  BY <1>1 DEF Min

\* Max chooses an element of a bounded set.
LEMMA MaxIn ==
  ASSUME NEW n \in Nat, NEW S \in SUBSET (1..n), S # {}
  PROVE  Max(S) \in S
<1> DEFINE T == {k \in Nat : n - k \in S}
<1>1. PICK x \in S : TRUE
  OBVIOUS
<1>2. n - x \in Nat /\ n - (n - x) = x
  OBVIOUS
<1>3. n - x \in T
  BY <1>2
<1>4. PICK m \in T : \A k \in T : m <= k
  BY <1>3, LeastNat
<1>5. ASSUME NEW y \in S PROVE n - m >= y
  <2>1. n - y \in Nat /\ n - (n - y) = y
    BY <1>5
  <2>2. m <= n - y
    BY <1>4, <2>1
  <2> QED
    BY <1>4, <2>1, <2>2
<1>6. n - m \in S
  BY <1>4
<1> QED
  BY <1>5, <1>6 DEF Max

\* The greatest element is Max.
LEMMA MaxIs ==
  ASSUME NEW n \in Nat, NEW S \in SUBSET (1..n), NEW k \in S, \A y \in S : y <= k
  PROVE  Max(S) = k
<1>1. \E m \in S : \A y \in S : m >= y
  OBVIOUS
<1>2. Max(S) \in S /\ \A y \in S : Max(S) >= y
  BY <1>1 DEF Max
<1>3. \A a, b \in 1..n : a <= b /\ b <= a => a = b
  OBVIOUS
<1>4. k \in 1..n /\ Max(S) \in 1..n /\ Max(S) <= k /\ k <= Max(S)
  <2>1. \A a, b \in 1..n : a >= b => b <= a
    OBVIOUS
  <2> QED
    BY <1>2, <2>1
<1> QED
  BY <1>3, <1>4

-----------------------------------------------------------------------------
(* The comparison of two manifests.                                        *)

EventOf(old, new, p) ==
  [path |-> p, action |-> Kind(old[p], new[p]), before |-> old[p], after |-> new[p]]

\* The entry f has for a path, after those before it.
Extended(old, new, f, p) ==
  IF old[p] = new[p] THEN f[p-1] ELSE Append(f[p-1], EventOf(old, new, p))

\* f is the function Differences computes, up to path n.
UpTo(old, new, n, f) ==
  f = [p \in 0..n |-> IF p = 0 THEN <<>> ELSE Extended(old, new, f, p)]

\* The function of the paths' events exists.
LEMMA UpToExists ==
  ASSUME NEW old, NEW new, NEW n \in Nat
  PROVE  \E f : UpTo(old, new, n, f)
<1> DEFINE S == {m \in Nat : ~ \E f : UpTo(old, new, m, f)}
<1>1. SUFFICES ASSUME S # {} PROVE FALSE
  OBVIOUS
<1>2. PICK m \in S : \A k \in S : m <= k
  BY <1>1, LeastNat
<1>3. CASE m = 0
  <2> DEFINE f == [p \in 0..0 |-> <<>>]
  <2>1. UpTo(old, new, 0, f)
    BY DEF UpTo
  <2> QED
    BY <1>2, <1>3, <2>1
<1>4. CASE m # 0
  <2>1. m \in Nat /\ m - 1 \in Nat /\ ~(m <= m - 1)
    BY <1>4
  <2>2. PICK f : UpTo(old, new, m - 1, f)
    BY <1>2, <2>1
  <2> DEFINE g == [p \in 0..m |-> IF p = m THEN Extended(old, new, f, m) ELSE f[p]]
  <2>3. /\ \A p \in 0..m : p # m => p \in 0..m-1 /\ (p # 0 => p - 1 \in 0..m-1)
        /\ m - 1 \in 0..m-1
    BY <2>1
  <2>4. g[m] = Extended(old, new, f, m) /\ \A p \in 0..m-1 : g[p] = f[p]
    BY <2>1
  <2>5. ASSUME NEW p \in 0..m PROVE g[p] = IF p = 0 THEN <<>> ELSE Extended(old, new, g, p)
    <3> HIDE DEF g
    <3>1. p # 0 => Extended(old, new, g, p) = Extended(old, new, f, p)
      BY <2>3, <2>4 DEF Extended
    <3>2. CASE p = m
      BY <1>4, <2>4, <3>1, <3>2
    <3>3. CASE p # m
      <4>1. f[p] = IF p = 0 THEN <<>> ELSE Extended(old, new, f, p)
        BY <2>2, <2>3, <3>3 DEF UpTo
      <4> QED
        BY <2>3, <2>4, <3>1, <3>3, <4>1
    <3> QED
      BY <3>2, <3>3
  <2>6. UpTo(old, new, m, g)
    <3>1. g = [p \in 0..m |-> g[p]]
      OBVIOUS
    <3> HIDE DEF g
    <3> QED
      BY <2>5, <3>1 DEF UpTo
  <2> QED
    BY <1>2, <2>6
<1> QED
  BY <1>3, <1>4

\* Differences is the last value of that function.
LEMMA DifferencesUpTo ==
  ASSUME NEW old, NEW new
  PROVE  \E f : UpTo(old, new, NumPaths, f) /\ Differences(old, new) = f[NumPaths]
<1>1. \E f : UpTo(old, new, NumPaths, f)
  BY UpToExists
<1> QED
  BY <1>1 DEF Differences, UpTo, Extended, EventOf

\* d tells what differs in the first n paths, each path once.
Describes(old, new, d, n) ==
  /\ d \in Seq(EventType)
  /\ \A j \in 1..Len(d) :
       /\ d[j].path \in 1..n
       /\ d[j].before = old[d[j].path] /\ d[j].after = new[d[j].path]
       /\ d[j].before # d[j].after
  /\ \A j, k \in 1..Len(d) : d[j].path = d[k].path => j = k
  /\ \A p \in 1..n : old[p] # new[p] => \E j \in 1..Len(d) : d[j].path = p

\* The next path is told if it differs.
LEMMA DescribesNext ==
  ASSUME NEW old \in Manifests, NEW new \in Manifests, NEW n \in 1..NumPaths, NEW d,
         Describes(old, new, d, n - 1)
  PROVE  Describes(old, new, IF old[n] = new[n] THEN d ELSE Append(d, EventOf(old, new, n)), n)
<1>1. /\ n - 1 \in Nat /\ n \in Nat /\ n \in Paths /\ ~(n <= n - 1)
      /\ \A p \in 1..n : p # n => p \in 1..n-1
      /\ \A p \in 1..n-1 : p \in 1..n /\ p # n
  BY DEF Paths
<1>2. CASE old[n] = new[n]
  BY <1>1, <1>2 DEF Describes
<1>3. CASE old[n] # new[n]
  <2> DEFINE e == EventOf(old, new, n)
             l == Len(d)
  <2>1. e.path = n /\ e.before = old[n] /\ e.after = new[n] /\ e \in EventType
    BY <1>1 DEF EventOf, EventType, Kind, Manifests, Held
  <2>2. d \in Seq(EventType) /\ l \in Nat
    BY DEF Describes
  <2> HIDE DEF e, EventType
  <2>3. /\ Append(d, e) \in Seq(EventType) /\ Len(Append(d, e)) = l + 1
        /\ Append(d, e)[l + 1] = e
        /\ \A j \in 1..l : Append(d, e)[j] = d[j]
    BY <2>1, <2>2 DEF l
  <2> DEFINE g == Append(d, e)
  <2> HIDE DEF g, l
  <2>4. /\ \A j \in 1..l+1 : j # l + 1 => j \in 1..l
        /\ \A j \in 1..l : j \in 1..l+1
        /\ l + 1 \in 1..l+1
    BY <2>2
  <2>5. /\ g \in Seq(EventType) /\ Len(g) = l + 1 /\ g[l + 1] = e
        /\ \A j \in 1..l : g[j] = d[j]
    BY <2>3 DEF g
  <2>6. /\ \A j \in 1..l :
             /\ d[j].path \in 1..n-1
             /\ d[j].before = old[d[j].path] /\ d[j].after = new[d[j].path]
             /\ d[j].before # d[j].after
        /\ \A j, k \in 1..l : d[j].path = d[k].path => j = k
        /\ \A p \in 1..n-1 : old[p] # new[p] => \E j \in 1..l : d[j].path = p
    BY DEF Describes, l
  <2>7. ASSUME NEW j \in 1..l+1
        PROVE /\ g[j].path \in 1..n
              /\ g[j].before = old[g[j].path] /\ g[j].after = new[g[j].path]
              /\ g[j].before # g[j].after
    <3>1. CASE j = l + 1
      BY <1>1, <1>3, <2>1, <2>5, <3>1
    <3>2. CASE j # l + 1
      BY <1>1, <2>4, <2>5, <2>6, <3>2
    <3> QED
      BY <3>1, <3>2
  <2>8. ASSUME NEW j \in 1..l+1, NEW k \in 1..l+1, g[j].path = g[k].path PROVE j = k
    <3>1. CASE j = l + 1 /\ k # l + 1
      BY <1>1, <2>1, <2>4, <2>5, <2>6, <2>8, <3>1
    <3>2. CASE j # l + 1 /\ k = l + 1
      BY <1>1, <2>1, <2>4, <2>5, <2>6, <2>8, <3>2
    <3>3. CASE j # l + 1 /\ k # l + 1
      BY <2>4, <2>5, <2>6, <2>8, <3>3
    <3> QED
      BY <3>1, <3>2, <3>3
  <2>9. ASSUME NEW p \in 1..n, old[p] # new[p] PROVE \E j \in 1..l+1 : g[j].path = p
    <3>1. CASE p = n
      BY <2>1, <2>4, <2>5, <3>1
    <3>2. CASE p # n
      <4>1. PICK j \in 1..l : d[j].path = p
        BY <1>1, <2>6, <2>9, <3>2
      <4> QED
        BY <2>4, <2>5, <4>1
    <3> QED
      BY <3>1, <3>2
  <2>10. Describes(old, new, g, n)
    BY <2>5, <2>7, <2>8, <2>9 DEF Describes
  <2> QED
    BY <1>3, <2>10 DEF g, e
<1> QED
  BY <1>2, <1>3

\* A comparison tells what differs, each path once.
LEMMA DifferencesDescribe ==
  ASSUME NEW old \in Manifests, NEW new \in Manifests
  PROVE  Describes(old, new, Differences(old, new), NumPaths)
<1>1. PICK f : UpTo(old, new, NumPaths, f) /\ Differences(old, new) = f[NumPaths]
  BY DifferencesUpTo
<1> DEFINE S == {n \in Nat : n <= NumPaths /\ ~ Describes(old, new, f[n], n)}
<1>2. S = {}
  <2>1. SUFFICES ASSUME S # {} PROVE FALSE
    OBVIOUS
  <2>2. PICK n \in S : \A k \in S : n <= k
    BY <2>1, LeastNat
  <2>3. n \in 0..NumPaths
    BY <2>2
  <2>4. f[n] = IF n = 0 THEN <<>> ELSE Extended(old, new, f, n)
    BY <1>1, <2>3 DEF UpTo
  <2>5. CASE n = 0
    <3>1. f[n] = <<>> /\ Len(<<>>) = 0 /\ <<>> \in Seq(EventType)
      BY <2>4, <2>5
    <3>2. 1..0 = {}
      OBVIOUS
    <3> QED
      BY <2>2, <2>5, <3>1, <3>2 DEF Describes
  <2>6. CASE n # 0
    <3>1. n - 1 \in Nat /\ n - 1 <= NumPaths /\ ~(n <= n - 1) /\ n \in 1..NumPaths
      BY <2>3, <2>6
    <3>2. Describes(old, new, f[n-1], n - 1)
      BY <2>2, <3>1
    <3>3. Describes(old, new,
            IF old[n] = new[n] THEN f[n-1] ELSE Append(f[n-1], EventOf(old, new, n)), n)
      BY <3>1, <3>2, DescribesNext
    <3> QED
      BY <2>2, <2>4, <2>6, <3>3 DEF Extended
  <2> QED
    BY <2>5, <2>6
<1>3. Describes(old, new, f[NumPaths], NumPaths)
  BY <1>2
<1> QED
  BY <1>1, <1>3

-----------------------------------------------------------------------------
(* What a log leaves a path with.                                          *)

About(log, p, n) == {i \in 1..n : log[i].path = p}

\* Events about other paths leave a path with what it had.
LEMMA LeftThrough ==
  ASSUME NEW base, NEW log, NEW p, NEW n \in Nat, NEW m \in Nat, n <= m,
         \A i \in 1..m : log[i].path = p => i <= n
  PROVE  LeftWith(base, log, p, m) = LeftWith(base, log, p, n)
<1>1. About(log, p, m) = About(log, p, n)
  BY DEF About
<1> QED
  BY <1>1 DEF LeftWith, About

\* The last event about a path leaves it with what the event says.
LEMMA LeftByLast ==
  ASSUME NEW base, NEW log, NEW p, NEW n \in Nat, NEW k \in 1..n, log[k].path = p,
         \A i \in 1..n : log[i].path = p => i <= k
  PROVE  LeftWith(base, log, p, n) = log[k].after
<1> DEFINE S == About(log, p, n)
<1>1. S \subseteq 1..n /\ k \in S /\ \A i \in S : i <= k
  BY DEF About
<1> HIDE DEF S
<1>2. Max(S) = k
  BY <1>1, MaxIs
<1> QED
  BY <1>1, <1>2 DEF LeftWith, S, About

\* Later events change nothing of what the first ones leave.
LEMMA LeftPrefix ==
  ASSUME NEW base, NEW log, NEW more, NEW p, NEW n \in Nat, \A i \in 1..n : more[i] = log[i]
  PROVE  LeftWith(base, more, p, n) = LeftWith(base, log, p, n)
<1> DEFINE S == About(log, p, n)
<1>1. S \subseteq 1..n /\ About(more, p, n) = S
  BY DEF About
<1>2. S # {} => Max(S) \in 1..n
  <2> HIDE DEF S
  <2> QED
    BY <1>1, MaxIn
<1> QED
  BY <1>1, <1>2 DEF LeftWith, About

\* A log that leads to one manifest, and then tells what differs from it
\* in the next, leads to that one.
LEMMA LeadsOn ==
  ASSUME NEW base \in Manifests, NEW old \in Manifests, NEW new \in Manifests,
         NEW log \in Seq(EventType), Leads(base, log, old),
         NEW d, Describes(old, new, d, NumPaths)
  PROVE  Leads(base, log \o d, new)
<1> DEFINE n == Len(log)
           l == Len(d)
           all == log \o d
<1>1. n \in Nat /\ l \in Nat /\ d \in Seq(EventType)
  BY DEF Describes
<1>2. /\ Len(all) = n + l
      /\ \A i \in 1..n : all[i] = log[i]
      /\ \A j \in 1..l : all[n + j] = d[j]
  <2> HIDE DEF EventType
  <2> QED
    BY <1>1
<1>3. /\ \A j \in 1..l :
           /\ d[j].path \in Paths
           /\ d[j].before = old[d[j].path] /\ d[j].after = new[d[j].path]
           /\ d[j].before # d[j].after
      /\ \A j, k \in 1..l : d[j].path = d[k].path => j = k
      /\ \A p \in Paths : old[p] # new[p] => \E j \in 1..l : d[j].path = p
  BY DEF Describes, Paths
<1> HIDE DEF all, n, l
<1>4. /\ \A i \in 1..n+l : i \notin 1..n => i - n \in 1..l /\ i = n + (i - n)
      /\ \A i \in 1..n : i \in 1..n+l /\ i - 1 \in Nat /\ (\A k \in 1..i-1 : k \in 1..n)
      /\ \A j \in 1..l : n + j \in 1..n+l /\ (n + j) - 1 \in Nat /\ n <= (n + j) - 1
      /\ n + l \in Nat /\ n <= n + l
  BY <1>1
<1>5. \A p \in Paths : LeftWith(base, all, p, n) = old[p]
  BY <1>1, <1>2, LeftPrefix DEF Leads, n
<1>6. ASSUME NEW i \in 1..n+l
      PROVE  /\ all[i].before = LeftWith(base, all, all[i].path, i - 1)
             /\ all[i].after # all[i].before
  <2>1. CASE i \in 1..n
    <3>1. all[i] = log[i] /\ i - 1 \in Nat /\ \A k \in 1..i-1 : all[k] = log[k]
      BY <1>2, <1>4, <2>1
    <3>2. LeftWith(base, all, all[i].path, i - 1) = LeftWith(base, log, all[i].path, i - 1)
      BY <3>1, LeftPrefix
    <3> QED
      BY <2>1, <3>1, <3>2 DEF Leads, n
  <2>2. CASE i \notin 1..n
    <3>1. PICK j \in 1..l : i = n + j
      BY <1>4, <2>2
    <3>2. all[i] = d[j] /\ d[j].path \in Paths
      BY <1>2, <1>3, <3>1
    <3>3. ASSUME NEW k \in 1..i-1, all[k].path = d[j].path PROVE k <= n
      <4>1. SUFFICES ASSUME ~(k <= n) PROVE FALSE
        OBVIOUS
      <4>2. k \in 1..n+l /\ k \notin 1..n /\ k # i
        BY <1>1, <3>1, <4>1
      <4>3. PICK m \in 1..l : k = n + m
        BY <1>4, <4>2
      <4>4. all[k] = d[m] /\ m # j
        BY <1>2, <3>1, <4>2, <4>3
      <4> QED
        BY <1>3, <3>3, <4>4
    <3>4. i - 1 \in Nat /\ n <= i - 1
      BY <1>4, <3>1
    <3>5. LeftWith(base, all, d[j].path, i - 1) = LeftWith(base, all, d[j].path, n)
      BY <1>1, <3>3, <3>4, LeftThrough
    <3> QED
      BY <1>3, <1>5, <3>2, <3>5
  <2> QED
    BY <2>1, <2>2
<1>7. ASSUME NEW p \in Paths PROVE LeftWith(base, all, p, n + l) = new[p]
  <2>1. CASE \E j \in 1..l : d[j].path = p
    <3>1. PICK j \in 1..l : d[j].path = p
      BY <2>1
    <3>2. all[n + j] = d[j] /\ n + j \in 1..n+l
      BY <1>2, <1>4
    <3>3. ASSUME NEW k \in 1..n+l, all[k].path = p PROVE k <= n + j
      <4>1. CASE k \in 1..n
        BY <1>1, <4>1
      <4>2. CASE k \notin 1..n
        <5>1. PICK m \in 1..l : k = n + m
          BY <1>4, <4>2
        <5>2. m = j
          BY <1>2, <1>3, <3>1, <3>3, <5>1
        <5> QED
          BY <1>1, <5>1, <5>2
      <4> QED
        BY <4>1, <4>2
    <3>4. LeftWith(base, all, p, n + l) = all[n + j].after
      BY <1>4, <3>1, <3>2, <3>3, LeftByLast
    <3> QED
      BY <1>3, <3>1, <3>2, <3>4
  <2>2. CASE ~ \E j \in 1..l : d[j].path = p
    <3>1. ASSUME NEW k \in 1..n+l, all[k].path = p PROVE k <= n
      <4>1. CASE k \in 1..n
        BY <1>1, <4>1
      <4>2. CASE k \notin 1..n
        <5>1. PICK m \in 1..l : k = n + m
          BY <1>4, <4>2
        <5> QED
          BY <1>2, <2>2, <3>1, <5>1
      <4> QED
        BY <4>1, <4>2
    <3>2. LeftWith(base, all, p, n + l) = LeftWith(base, all, p, n)
      BY <1>1, <1>4, <3>1, LeftThrough
    <3> QED
      BY <1>3, <1>5, <2>2, <3>2
  <2> QED
    BY <2>1, <2>2
<1> QED
  BY <1>2, <1>6, <1>7 DEF Leads, all

-----------------------------------------------------------------------------
(* The manifests.                                                          *)

\* A manifest that begins has read nothing.
LEMMA FreshScan ==
  ASSUME NEW w \in Threads, scan'[w] \in {NoScan, Listing}
  PROVE  Scanned(w)'
BY DEF Scanned, Unread, NoScan, Listing, Nothing

\* A manifest is as good as it was when nothing it is about has changed.
LEMMA SameScan ==
  ASSUME NEW w \in Threads, Scanned(w), scan'[w] = scan[w], UNCHANGED <<files, baseline, written>>,
         Settled(w)' => Settled(w)
  PROVE  Scanned(w)'
BY DEF Scanned

\* The next file of a manifest that has some left.
LEMMA NextFile ==
  ASSUME NEW todo \in SUBSET Paths, todo # {}
  PROVE  Min(todo) \in todo
<1>1. todo \in SUBSET Nat
  BY DEF Paths
<1> QED
  BY <1>1, MinIn

\* What a step of a manifest reads is what the workspace then holds.
LEMMA ScanStepScans ==
  ASSUME IInv, NEW w \in Threads, ScanStep(w)
  PROVE  Scanned(w)' /\ scan'[w] \in ScanType
<1> DEFINE s == scan[w]
           t == scan'[w]
           p == Min(s.todo)
<1>1. /\ files \in Manifests /\ s \in ScanType /\ scan \in [Threads -> ScanType]
      /\ Scanned(w) /\ Traced(files)
  BY DEF IInv, Typed
<1>2. /\ s.at \in {"list", "check", "read", "stat"}
      /\ UNCHANGED <<files, baseline, written, quiet, poll>>
      /\ t = CASE s.at = "list" -> Continue(s, Present(files))
               [] s.at = "check" /\ files[p] = Absent -> Continue(s, s.todo \ {p})
               [] s.at = "check" /\ files[p] # Absent -> [s EXCEPT !.at = "read"]
               [] s.at = "read" /\ files[p] # Absent ->
                    [s EXCEPT !.at = "stat", !.seen[p] = files[p]]
               [] s.at = "stat" /\ files[p] # Absent -> Continue(s, s.todo \ {p})
               [] OTHER -> [s EXCEPT !.at = "failed"]
  BY <1>1 DEF ScanStep, observerVars, callerVars, agentVars
<1>3. s.at # "list" => s.todo # {} /\ p \in s.todo /\ p \in Paths
  BY <1>1, <1>2, NextFile DEF Scanned, ScanType
<1>4. Settled(w)' = Settled(w)
  BY <1>2 DEF Settled
<1> HIDE DEF s, t, p
<1> DEFINE Good(u) ==
      /\ t \in ScanType
      /\ t.at \in {"check", "read", "stat"} => t.todo # {}
      /\ t.at = "done" => t.todo = {}
      /\ t.at # "failed" => Unread(t) = u
      /\ \A q \in u : t.seen[q] = Absent
      /\ \A q \in Paths \ u : (t.seen[q] # baseline[q] => q \in written)
                              /\ (Settled(w) => t.seen[q] = files[q])
<1>5. ASSUME NEW u, Good(u) PROVE Scanned(w)' /\ t \in ScanType
  BY <1>2, <1>4, <1>5 DEF Scanned, t
<1> HIDE DEF Good
<1>6. /\ s \in ScanType /\ s.at # "failed"
      /\ \A q \in Unread(s) : s.seen[q] = Absent
      /\ \A q \in Paths \ Unread(s) : (s.seen[q] # baseline[q] => q \in written)
                                      /\ (Settled(w) => s.seen[q] = files[q])
  BY <1>1, <1>2 DEF Scanned, s
<1>7. ASSUME NEW todo \in SUBSET Paths
      PROVE  LET c == Continue(s, todo)
             IN  /\ c \in ScanType /\ c.seen = s.seen /\ Unread(c) = todo
                 /\ c.at \in {"check", "done"} /\ c.todo = todo /\ (c.at = "done" <=> todo = {})
  BY <1>6 DEF Continue, ScanType, Unread
<1>8. CASE s.at = "list"
  <2>1. Present(files) \in SUBSET Paths /\ t = Continue(s, Present(files)) /\ Unread(s) = Paths
    BY <1>2, <1>8 DEF Present, Unread
  <2>2. \A q \in Paths : s.seen[q] = Absent
    BY <1>6, <2>1
  <2>3. \A q \in Paths \ Present(files) : files[q] = Absent
    BY DEF Present
  <2>4. Good(Present(files))
    BY <1>1, <1>7, <2>1, <2>2, <2>3 DEF Good, Traced
  <2> QED
    BY <1>5, <2>4 DEF t
<1>9. CASE s.at = "check" /\ files[p] = Absent
  <2>1. s.todo \ {p} \in SUBSET Paths /\ t = Continue(s, s.todo \ {p}) /\ Unread(s) = s.todo
    BY <1>2, <1>6, <1>9 DEF Unread, ScanType
  <2>2. s.seen[p] = Absent /\ p \in Paths
    BY <1>3, <1>6, <1>9, <2>1
  <2>3. s.seen[p] # baseline[p] => p \in written
    BY <1>1, <1>9, <2>2 DEF Traced
  <2>4. Good(s.todo \ {p})
    BY <1>6, <1>7, <1>9, <2>1, <2>2, <2>3 DEF Good
  <2> QED
    BY <1>5, <2>4 DEF t
<1>10. CASE s.at = "check" /\ files[p] # Absent
  <2>1. t = [s EXCEPT !.at = "read"] /\ Unread(s) = s.todo
    BY <1>2, <1>10 DEF Unread
  <2>2. t \in ScanType /\ t.at = "read" /\ t.todo = s.todo /\ t.seen = s.seen /\ Unread(t) = s.todo
    BY <1>6, <2>1 DEF ScanType, Unread
  <2>3. Good(s.todo)
    BY <1>3, <1>6, <1>10, <2>1, <2>2 DEF Good
  <2> QED
    BY <1>5, <2>3 DEF t
<1>11. CASE s.at = "read" /\ files[p] # Absent
  <2>1. t = [s EXCEPT !.at = "stat", !.seen[p] = files[p]] /\ Unread(s) = s.todo
    BY <1>2, <1>11 DEF Unread
  <2>2. p \in Paths /\ s.todo # {} /\ files[p] \in Held /\ s.seen \in Manifests
    BY <1>1, <1>3, <1>6, <1>11 DEF Manifests, Held, ScanType
  <2>3. [s.seen EXCEPT ![p] = files[p]] \in Manifests
    BY <2>2 DEF Manifests, Held
  <2>4. /\ t \in ScanType /\ t.at = "stat" /\ t.todo = s.todo
        /\ t.seen = [s.seen EXCEPT ![p] = files[p]]
    BY <1>6, <2>1, <2>3 DEF ScanType
  <2>5. t.seen[p] = files[p] /\ \A q \in Paths : q # p => t.seen[q] = s.seen[q]
    BY <2>2, <2>4 DEF Manifests
  <2>6. Unread(t) = s.todo \ {p} /\ s.todo \in SUBSET Paths
    BY <1>6, <2>4 DEF Unread, p, ScanType
  <2>7. files[p] # baseline[p] => p \in written
    BY <1>1, <2>2 DEF Traced
  <2>8. Good(s.todo \ {p})
    BY <1>6, <2>1, <2>2, <2>4, <2>5, <2>6, <2>7 DEF Good
  <2> QED
    BY <1>5, <2>8 DEF t
<1>12. CASE s.at = "stat" /\ files[p] # Absent
  <2>1. /\ t = Continue(s, s.todo \ {p}) /\ Unread(s) = s.todo \ {p}
        /\ s.todo \ {p} \in SUBSET Paths
    BY <1>2, <1>6, <1>12 DEF Unread, p, ScanType
  <2>2. Good(s.todo \ {p})
    BY <1>6, <1>7, <2>1 DEF Good
  <2> QED
    BY <1>5, <2>2 DEF t
<1>13. CASE s.at \in {"read", "stat"} /\ files[p] = Absent
  <2>1. t = [s EXCEPT !.at = "failed"]
    BY <1>2, <1>13
  <2>2. t \in ScanType /\ t.at = "failed"
    BY <1>6, <2>1 DEF ScanType
  <2> QED
    BY <2>2 DEF Scanned, t
<1> QED
  BY <1>2, <1>8, <1>9, <1>10, <1>11, <1>12, <1>13

\* A step of a manifest keeps the invariant.
LEMMA ScanStepKeeps ==
  ASSUME IInv, NEW w \in Threads, ScanStep(w)
  PROVE  IInv'
<1>1. /\ UNCHANGED <<observerVars, callerVars, agentVars>>
      /\ scan[w].at # "idle" /\ scan \in [Threads -> ScanType]
      /\ \E t : scan' = [scan EXCEPT ![w] = t]
  BY DEF ScanStep, IInv, Typed
<1>2. Scanned(w)' /\ scan'[w] \in ScanType
  BY ScanStepScans
<1>3. scan' \in [Threads -> ScanType] /\ \A v \in Threads : v # w => scan'[v] = scan[v]
  BY <1>1, <1>2
<1>4. Typed'
  BY <1>1, <1>3 DEF IInv, Typed, observerVars, callerVars, agentVars
<1>5. \A v \in Threads : Scanned(v)'
  <2>1. ASSUME NEW v \in Threads, v # w PROVE Scanned(v)'
    <3>1. scan'[v] = scan[v] /\ Scanned(v)
      BY <1>3, <2>1 DEF IInv
    <3> QED
      BY <1>1, <3>1, SameScan DEF Settled, observerVars, callerVars, agentVars
  <2> QED
    BY <1>2, <2>1
<1>6. Phases'
  <2>1. caller = "running" => w # "stop"
    BY <1>1 DEF IInv, Phases
  <2> QED
    BY <1>1, <1>3, <2>1 DEF IInv, Phases, observerVars, callerVars, agentVars, Threads
<1>7. Traced(files)' /\ Traced(previous)' /\ Logged' /\ SummaryExplained'
  BY <1>1 DEF IInv, Traced, Logged, SummaryExplained, observerVars, callerVars, agentVars
<1> QED
  BY <1>4, <1>5, <1>6, <1>7 DEF IInv

-----------------------------------------------------------------------------
(* The polling thread.                                                     *)

\* A sample continues the log to the manifest it has taken.
LEMMA SampleLogs ==
  ASSUME IInv, NEW new \in Manifests, Traced(new),
         events' = events \o Differences(previous, new), previous' = new,
         UNCHANGED <<baseline, written>>
  PROVE  events' \in Seq(EventType) /\ Logged'
<1> DEFINE d == Differences(previous, new)
<1>1. /\ baseline \in Manifests /\ previous \in Manifests /\ events \in Seq(EventType)
      /\ Traced(previous) /\ Logged
  BY DEF IInv, Typed
<1>2. Describes(previous, new, d, NumPaths) /\ events' = events \o d
  BY <1>1, DifferencesDescribe
<1> HIDE DEF d
<1>3. Leads(baseline, events', new)
  BY <1>1, <1>2, LeadsOn DEF Logged
<1>4. /\ events' \in Seq(EventType) /\ Len(events') = Len(events) + Len(d)
      /\ d \in Seq(EventType)
      /\ \A i \in 1..Len(events') :
           events'[i] = IF i <= Len(events) THEN events[i] ELSE d[i - Len(events)]
  <2>1. d \in Seq(EventType)
    BY <1>2 DEF Describes
  <2> HIDE DEF EventType
  <2> QED
    BY <1>1, <1>2, <2>1
<1>5. ASSUME NEW i \in 1..Len(events') PROVE events'[i].path \in written
  <2>1. CASE i <= Len(events)
    <3>1. i \in DOMAIN events
      BY <1>1, <1>4, <2>1
    <3> QED
      BY <1>1, <1>4, <2>1, <3>1 DEF Logged, Touched
  <2>2. CASE ~(i <= Len(events))
    <3>1. i - Len(events) \in 1..Len(d)
      BY <1>1, <1>4, <2>2
    <3>2. PICK j \in 1..Len(d) : events'[i] = d[j]
      BY <1>4, <2>2, <3>1
    <3>3. d[j].path \in Paths /\ previous[d[j].path] # new[d[j].path]
      BY <1>2 DEF Describes, Paths
    <3> QED
      BY <1>1, <3>2, <3>3 DEF Traced
  <2> QED
    BY <2>1, <2>2
<1>6. DOMAIN (events') = 1..Len(events')
  BY <1>4
<1> QED
  BY <1>3, <1>4, <1>5, <1>6 DEF Logged, Touched

\* A complete manifest is of written paths, and of the workspace if the agent was gone.
LEMMA DoneScan ==
  ASSUME IInv, NEW w \in Threads, scan[w].at = "done"
  PROVE  /\ scan[w].seen \in Manifests /\ Traced(scan[w].seen)
         /\ Settled(w) => scan[w].seen = files
<1>1. /\ scan[w].seen \in Manifests /\ files \in Manifests /\ Scanned(w)
  BY DEF IInv, Typed, ScanType
<1>2. Unread(scan[w]) = {}
  BY <1>1 DEF Scanned, Unread
<1>3. \A p \in Paths : /\ scan[w].seen[p] # baseline[p] => p \in written
                       /\ Settled(w) => scan[w].seen[p] = files[p]
  BY <1>1, <1>2 DEF Scanned
<1> QED
  BY <1>1, <1>3 DEF Traced, Manifests

\* A sample keeps the invariant.
LEMMA SampleKeeps ==
  ASSUME IInv, Sample
  PROVE  IInv'
<1> DEFINE new == scan["poll"].seen
<1>1. /\ poll \in {"sample", "last"} /\ scan["poll"].at = "done"
      /\ events' = events \o Differences(previous, new)
      /\ previous' = new
      /\ poll' = IF poll = "last" THEN "ended" ELSE "wait"
      /\ scan' = [scan EXCEPT !["poll"] = NoScan]
      /\ UNCHANGED <<baseline, callerVars, agentVars>>
  BY DEF Sample
<1>2. "poll" \in Threads /\ scan \in [Threads -> ScanType] /\ NoScan \in ScanType
  BY DEF Threads, IInv, Typed, NoScan, ScanType, Nothing, Manifests
<1>3. new \in Manifests /\ Traced(new) /\ (Settled("poll") => new = files)
  BY <1>1, <1>2, DoneScan
<1> HIDE DEF new
<1>4. scan' \in [Threads -> ScanType] /\ scan'["poll"] = NoScan /\ scan'["stop"] = scan["stop"]
  BY <1>1, <1>2 DEF Threads
<1>5. events' \in Seq(EventType) /\ Logged'
  BY <1>1, <1>3, SampleLogs DEF callerVars, agentVars
<1>6. Typed'
  BY <1>1, <1>3, <1>4, <1>5 DEF IInv, Typed, callerVars, agentVars
<1>7. Traced(files)' /\ Traced(previous)'
  BY <1>1, <1>3 DEF IInv, Traced, agentVars
<1>8. \A w \in Threads : Scanned(w)'
  <2>1. Scanned("poll")'
    BY <1>2, <1>4, FreshScan
  <2>2. Scanned("stop")'
    <3>1. Scanned("stop") /\ "stop" \in Threads
      BY DEF IInv, Threads
    <3> QED
      BY <1>1, <1>4, <3>1, SameScan DEF Settled, callerVars, agentVars
  <2> QED
    BY <2>1, <2>2 DEF Threads
<1>9. Phases'
  BY <1>1, <1>3, <1>4 DEF IInv, Phases, Settled, callerVars, agentVars
<1>10. SummaryExplained'
  <2>1. summary.kind # "summary"
    BY <1>1 DEF IInv, Phases
  <2> QED
    BY <1>1, <2>1 DEF SummaryExplained, callerVars
<1> QED
  BY <1>5, <1>6, <1>7, <1>8, <1>9, <1>10 DEF IInv

\* A step that moves the polling thread and leaves the log alone.
LEMMA PollMoves ==
  ASSUME IInv, NEW t \in {NoScan, Listing}, scan' = [scan EXCEPT !["poll"] = t],
         poll' \in {"sample", "last", "died"},
         poll' = "died" \/ (poll = "wait" /\ (poll' = "last" => stop = "set")),
         UNCHANGED <<baseline, previous, events, callerVars, agentVars>>
  PROVE  IInv'
<1>1. "poll" \in Threads /\ scan \in [Threads -> ScanType] /\ t \in ScanType
  BY DEF Threads, IInv, Typed, NoScan, Listing, ScanType, Nothing, Manifests
<1>2. scan' \in [Threads -> ScanType] /\ scan'["poll"] = t /\ scan'["stop"] = scan["stop"]
  BY <1>1 DEF Threads
<1>3. Typed'
  BY <1>2 DEF IInv, Typed, callerVars, agentVars
<1>4. \A w \in Threads : Scanned(w)'
  <2>1. Scanned("poll")'
    BY <1>1, <1>2, FreshScan
  <2>2. Scanned("stop")'
    <3>1. Scanned("stop") /\ "stop" \in Threads
      BY DEF IInv, Threads
    <3> QED
      BY <1>2, <3>1, SameScan DEF Settled, callerVars, agentVars
  <2> QED
    BY <2>1, <2>2 DEF Threads
<1>5. Phases'
  BY <1>2 DEF IInv, Phases, callerVars, agentVars
<1>6. Traced(files)' /\ Traced(previous)' /\ Logged'
  BY DEF IInv, Traced, Logged, callerVars, agentVars
<1>7. SummaryExplained'
  BY DEF IInv, Phases, SummaryExplained, callerVars, agentVars
<1> QED
  BY <1>3, <1>4, <1>5, <1>6, <1>7 DEF IInv

\* Neither waking nor an exception touches the log.
LEMMA WakeKeeps ==
  ASSUME IInv, Wake \/ SampleRaises
  PROVE  IInv'
<1>1. CASE Wake
  <2>1. /\ poll = "wait" /\ poll' \in {"sample", "last"} /\ (poll' = "last" => stop = "set")
        /\ scan' = [scan EXCEPT !["poll"] = Listing]
        /\ UNCHANGED <<baseline, previous, events, callerVars, agentVars>>
    BY <1>1 DEF Wake
  <2> QED
    BY <2>1, PollMoves
<1>2. CASE SampleRaises
  BY <1>2, PollMoves DEF SampleRaises
<1> QED
  BY <1>1, <1>2

-----------------------------------------------------------------------------
(* The caller of stop.                                                     *)

\* A step of the caller before its summary.
LEMMA CallerMoves ==
  ASSUME IInv, NEW t \in {scan["stop"], NoScan, Listing}, scan' = [scan EXCEPT !["stop"] = t],
         UNCHANGED <<observerVars, summary, agentVars>>,
         caller \in {"running", "join", "final"}, caller' \in {"join", "final", "raised"},
         caller' = "final" => poll \in {"ended", "died"},
         \/ stop' = "set" /\ quiet' = (agent = "gone") /\ caller = "running"
         \/ UNCHANGED <<stop, quiet>>
  PROVE  IInv'
<1>1. "stop" \in Threads /\ scan \in [Threads -> ScanType] /\ t \in ScanType
  BY DEF Threads, IInv, Typed, NoScan, Listing, ScanType, Nothing, Manifests
<1>2. scan' \in [Threads -> ScanType] /\ scan'["stop"] = t /\ scan'["poll"] = scan["poll"]
  BY <1>1 DEF Threads
<1>3. Typed'
  BY <1>2 DEF IInv, Typed, observerVars, agentVars
<1>4. poll \in {"last", "ended"} => UNCHANGED quiet
  BY DEF IInv, Phases
<1>5. Scanned("poll")'
  <2>1. Scanned("poll") /\ "poll" \in Threads
    BY DEF IInv, Threads
  <2>2. Settled("poll")' => Settled("poll")
    BY <1>4 DEF Settled, observerVars
  <2> QED
    BY <1>2, <2>1, <2>2, SameScan DEF observerVars, agentVars
<1>6. Scanned("stop")'
  <2>1. CASE t \in {NoScan, Listing}
    BY <1>1, <1>2, <2>1, FreshScan
  <2>2. CASE t = scan["stop"]
    <3>1. CASE UNCHANGED quiet
      BY <1>1, <1>2, <2>2, <3>1, SameScan DEF IInv, Settled, observerVars, agentVars
    <3>2. CASE ~ UNCHANGED quiet
      <4>1. scan'["stop"].at = "idle" /\ Scanned("stop")
        BY <1>1, <1>2, <2>2, <3>2 DEF IInv, Phases
      <4> QED
        BY <1>2, <2>2, <4>1 DEF Scanned, Unread
    <3> QED
      BY <3>1, <3>2
  <2> QED
    BY <2>1, <2>2
<1>7. \A w \in Threads : Scanned(w)'
  BY <1>5, <1>6 DEF Threads
<1>8. Phases'
  <2>1. UNCHANGED <<poll, previous, files, agent, summary>> /\ Phases
    BY DEF IInv, observerVars, agentVars
  <2>2. CASE UNCHANGED <<stop, quiet>>
    BY <2>1, <2>2 DEF Phases
  <2>3. CASE stop' = "set" /\ quiet' = (agent = "gone") /\ caller = "running"
    <3>1. (quiet' => agent' = "gone") /\ (poll' \in {"last", "ended"} => stop' = "set")
      BY <2>1, <2>3
    <3>2. ~(quiet' /\ poll' = "ended")
      BY <2>1, <2>3 DEF Phases
    <3>3. caller' # "running" /\ (caller' \in {"final", "returned"} => poll' \in {"ended", "died"})
      BY <2>1
    <3>4. summary'.kind # "summary"
      BY <2>1, <2>3 DEF Phases
    <3> QED
      BY <3>1, <3>2, <3>3, <3>4 DEF Phases
  <2> QED
    BY <2>2, <2>3
<1>9. Traced(files)' /\ Traced(previous)' /\ Logged'
  BY DEF IInv, Traced, Logged, observerVars, agentVars
<1>10. SummaryExplained'
  BY DEF IInv, Phases, SummaryExplained
<1> QED
  BY <1>3, <1>7, <1>8, <1>9, <1>10 DEF IInv

\* Telling the thread to stop and waiting for it.
LEMMA JoinKeeps ==
  ASSUME IInv, StopCalled \/ Joined \/ JoinTimesOut
  PROVE  IInv'
<1>1. scan = [scan EXCEPT !["stop"] = scan["stop"]]
  BY DEF IInv, Typed
<1>2. CASE StopCalled
  BY <1>1, <1>2, CallerMoves DEF StopCalled
<1>3. CASE Joined
  BY <1>3, CallerMoves DEF Joined
<1>4. CASE JoinTimesOut
  BY <1>1, <1>4, CallerMoves DEF JoinTimesOut
<1> QED
  BY <1>2, <1>3, <1>4

\* What a complete manifest of the caller says of the log.
LEMMA SummaryTrue ==
  ASSUME IInv, caller = "final", scan["stop"].at = "done",
         NEW final, final = scan["stop"].seen
  PROVE  LET s == SummaryOf(final)
         IN  /\ s.touched \cup s.changed \subseteq written
             /\ s.touched \subseteq s.changed \cup s.reverted
             /\ s.transient \subseteq s.reverted
             /\ quiet /\ poll # "died" =>
                  s.changed = s.touched \ s.reverted /\ s.final = previous
<1> DEFINE touched == Touched(events)
           changed == {p \in Paths : baseline[p] # final[p]}
           reverted == {p \in touched : baseline[p] = final[p]}
           transient == {p \in touched : baseline[p] = Absent /\ final[p] = Absent}
           s == SummaryOf(final)
<1>1. /\ s.touched = touched /\ s.changed = changed /\ s.reverted = reverted
      /\ s.transient = transient /\ s.final = final
  BY DEF SummaryOf
<1>2. /\ final \in Manifests /\ Traced(final) /\ (quiet => final = files)
  BY DoneScan DEF Threads, Settled
<1>3. touched \subseteq written /\ written \subseteq Paths
  BY DEF IInv, Typed, Logged
<1>4. changed \subseteq written
  BY <1>2 DEF Traced
<1>5. touched \subseteq changed \cup reverted
  BY <1>3
<1>6. transient \subseteq reverted
  OBVIOUS
<1>7. ASSUME quiet, poll # "died" PROVE changed = touched \ reverted /\ final = previous
  <2>1. final = previous
    BY <1>2, <1>7 DEF IInv, Phases
  <2>2. ASSUME NEW p \in Paths, p \notin touched PROVE baseline[p] = previous[p]
    <3>1. DOMAIN events = 1..Len(events)
      BY DEF IInv, Typed
    <3>2. {i \in 1..Len(events) : events[i].path = p} = {}
      BY <2>2, <3>1 DEF Touched
    <3> QED
      BY <3>2 DEF IInv, Logged, Leads, LeftWith
  <2>3. changed \subseteq touched
    BY <2>1, <2>2
  <2> QED
    BY <1>3, <2>1, <2>3
<1> HIDE DEF s
<1> QED
  BY <1>1, <1>3, <1>4, <1>5, <1>6, <1>7 DEF s

\* What stop returns, or raises.
LEMMA StopReturnsKeeps ==
  ASSUME IInv, StopReturns
  PROVE  IInv'
<1>1. /\ caller = "final" /\ scan' = [scan EXCEPT !["stop"] = NoScan]
      /\ UNCHANGED <<observerVars, stop, quiet, agentVars>>
  BY DEF StopReturns
<1>2. \/ /\ scan["stop"].at = "done"
         /\ summary' = SummaryOf(scan["stop"].seen)
         /\ caller' = "returned"
      \/ /\ caller' = "raised"
         /\ UNCHANGED summary
  BY DEF StopReturns
<1>3. CASE caller' = "raised" /\ UNCHANGED summary
  BY <1>1, <1>3, CallerMoves
<1>4. CASE /\ scan["stop"].at = "done"
           /\ summary' = SummaryOf(scan["stop"].seen)
           /\ caller' = "returned"
  <2>1. /\ "stop" \in Threads /\ scan \in [Threads -> ScanType] /\ NoScan \in ScanType
    BY DEF Threads, IInv, Typed, NoScan, ScanType, Nothing, Manifests
  <2>2. scan' \in [Threads -> ScanType] /\ scan'["stop"] = NoScan /\ scan'["poll"] = scan["poll"]
    BY <1>1, <2>1 DEF Threads
  <2>3. Typed'
    BY <1>1, <1>4, <2>2 DEF IInv, Typed, observerVars, agentVars
  <2>4. Scanned("stop")'
    BY <2>1, <2>2, FreshScan
  <2>5. Scanned("poll")'
    <3>1. Scanned("poll") /\ "poll" \in Threads
      BY DEF IInv, Threads
    <3> QED
      BY <1>1, <2>2, <3>1, SameScan DEF Settled, observerVars, agentVars
  <2>6. \A w \in Threads : Scanned(w)'
    BY <2>4, <2>5 DEF Threads
  <2>7. Phases'
    BY <1>1, <1>4, <2>2 DEF IInv, Phases, observerVars, agentVars
  <2>8. Traced(files)' /\ Traced(previous)' /\ Logged'
    BY <1>1 DEF IInv, Traced, Logged, observerVars, agentVars
  <2>9. SummaryExplained'
    BY <1>1, <1>4, SummaryTrue DEF SummaryExplained, observerVars, agentVars
  <2> QED
    BY <2>3, <2>6, <2>7, <2>8, <2>9 DEF IInv
<1> QED
  BY <1>2, <1>3, <1>4

-----------------------------------------------------------------------------
(* The agent.                                                              *)

\* The agent changes files only while it is there.
LEMMA AgentKeeps ==
  ASSUME IInv, Change \/ Leave
  PROVE  IInv'
<1>1. UNCHANGED <<observerVars, scan, callerVars>> /\ agent = "active" /\ ~quiet
  BY DEF IInv, Phases, Typed, Change, Leave
<1>2. /\ files' \in Manifests /\ written \subseteq written' /\ written' \subseteq Paths
      /\ agent' \in {"active", "gone"}
      /\ Traced(files)'
  <2>1. CASE Leave
    BY <2>1 DEF IInv, Typed, Traced, Leave, observerVars
  <2>2. CASE Change
    <3>1. PICK p \in Paths, c \in Held :
             files' = [files EXCEPT ![p] = c] /\ written' = written \cup {p}
      BY <2>2 DEF Change, Held
    <3>2. files \in [Paths -> Held] /\ Traced(files)
      BY DEF IInv, Typed, Manifests, Held
    <3>3. files' \in [Paths -> Held] /\ \A q \in Paths : q # p => files'[q] = files[q]
      BY <3>1, <3>2
    <3>4. Traced(files)'
      BY <1>1, <3>1, <3>2, <3>3 DEF Traced, observerVars
    <3> QED
      BY <2>2, <3>1, <3>3, <3>4 DEF IInv, Typed, Manifests, Held, Change
  <2> QED
    BY <2>1, <2>2
<1>3. Typed'
  BY <1>1, <1>2 DEF IInv, Typed, observerVars, callerVars
<1>4. \A w \in Threads : Scanned(w)'
  BY <1>1, <1>2 DEF IInv, Scanned, Settled, observerVars, callerVars
<1>5. Phases'
  BY <1>1 DEF IInv, Phases, observerVars, callerVars
<1>6. Traced(previous)' /\ Logged'
  BY <1>1, <1>2 DEF IInv, Traced, Logged, observerVars
<1>7. SummaryExplained'
  BY <1>1, <1>2 DEF IInv, SummaryExplained, observerVars, callerVars
<1> QED
  BY <1>2, <1>3, <1>4, <1>5, <1>6, <1>7 DEF IInv

-----------------------------------------------------------------------------

\* The invariant holds when the observer has taken its baseline.
LEMMA InitIInv == Init => IInv
<1> SUFFICES ASSUME Init PROVE IInv
  OBVIOUS
<1>1. /\ files \in Manifests /\ baseline = files /\ previous = files /\ events = <<>>
      /\ scan = [w \in {"poll", "stop"} |-> NoScan]
  BY DEF Init
<1>2. Typed
  <2>1. NoScan \in ScanType /\ events \in Seq(EventType)
    BY <1>1 DEF NoScan, ScanType, Nothing, Manifests
  <2> QED
    BY <1>1, <2>1 DEF Init, Typed, Threads
<1>3. Traced(files) /\ Traced(previous)
  BY <1>1 DEF Traced
<1>4. \A w \in Threads : Scanned(w)
  BY <1>1 DEF Threads, Scanned, Unread, NoScan, Nothing
<1>5. Phases
  BY <1>1 DEF Init, Phases, NoScan, NoSummary
<1>6. Logged
  <2>1. Len(events) = 0 /\ DOMAIN events = {} /\ 1..0 = {}
    BY <1>1
  <2>2. \A p \in Paths : LeftWith(baseline, events, p, 0) = baseline[p]
    BY <2>1 DEF LeftWith
  <2> QED
    BY <1>1, <2>1, <2>2 DEF Logged, Leads, Touched
<1>7. SummaryExplained
  BY DEF Init, SummaryExplained, NoSummary
<1> QED
  BY <1>2, <1>3, <1>4, <1>5, <1>6, <1>7 DEF IInv

\* A step that changes nothing.
LEMMA StutterKeeps ==
  ASSUME IInv, UNCHANGED vars
  PROVE  IInv'
BY DEF vars, observerVars, callerVars, agentVars, IInv, Typed, Traced, Scanned, Settled,
       Phases, Logged, SummaryExplained

\* The invariant is inductive.
LEMMA NextIInv == IInv /\ [Next]_vars => IInv'
BY StutterKeeps, ScanStepKeeps, SampleKeeps, WakeKeeps, JoinKeeps, StopReturnsKeeps, AgentKeeps
   DEF Next, Threads

\* The invariant holds for any paths, contents and writes.
THEOREM Invariance == Spec => []IInv
BY InitIInv, NextIInv, PTL DEF Spec

(* EventsLeadToLastSample for any number of paths and samples: however the *)
(* agent's writes fall between the reads of a manifest, the log is a       *)
(* gapless account from the baseline to the last sample, and of paths the  *)
(* agent has written only.                                                 *)
THEOREM EventsLeadAlways == Spec => []EventsLeadToLastSample
<1>1. IInv => EventsLeadToLastSample
  BY DEF IInv, Logged, Leads, EventsLeadToLastSample
<1> QED
  BY <1>1, Invariance, PTL

(* SummaryExplained for any number of paths and samples: what stop returns *)
(* of a workspace the agent had left is explained by its own log.          *)
THEOREM SummaryExplainedAlways == Spec => []SummaryExplained
<1>1. IInv => SummaryExplained
  BY DEF IInv
<1> QED
  BY <1>1, Invariance, PTL
=============================================================================
