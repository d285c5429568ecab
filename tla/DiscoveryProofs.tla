-------------------------- MODULE DiscoveryProofs --------------------------
(***************************************************************************)
(* Proofs about Discovery, for every bound, every set of metrics and every *)
(* number of nights without growth that ends a search.  With every         *)
(* accident: types, and that no search is over before its rows are         *)
(* written.  For processes that come one at a time and complete the rows   *)
(* they write: that the count of nights is real and that a search which is *)
(* over stays over; both are false otherwise (Divergences in the README).  *)
(***************************************************************************)
EXTENDS Discovery, FiniteSetTheorems, TLAPS

-----------------------------------------------------------------------------
(***************************************************************************)
(* Types.                                                                  *)
(***************************************************************************)
\* No row counts more nights than the K that end the search, because nobody starts
\* from a row that is over; a search by hand has nothing to complete.
Counted ==
    /\ latest.status # "converged" => latest.k < K
    /\ \A w \in Who : proc[w].at # "idle" /\ w # "hand" =>
         proc[w].seen.status # "converged" /\ proc[w].seen.k < K
    /\ \A w \in Who : proc[w].at = "complete" => w # "hand"

TypeInv == TypeOK /\ Counted

LEMMA IdleIs == Idle \in Procs /\ Idle.at = "idle" /\ NoRow \in Row
BY BoundAssumption DEF Idle, Procs, Seed, Row, Size

LEMMA RowIs ==
  ASSUME NEW r \in Row
  PROVE  /\ r.size \in Size /\ r.k \in 0 .. K /\ r.count \in Seed
         /\ r.size \in Int /\ r.k \in Int /\ r.count \in Int
BY BoundAssumption DEF Row, NoRow, Seed, Size

LEMMA FrontSize ==
  ASSUME NEW T \in SUBSET Seed
  PROVE  Cardinality(Frontier(T)) \in Size
<1>1. Frontier(T) \subseteq 0 .. MaxSeeds
  BY DEF Frontier, Seed
<1>2. IsFiniteSet(0 .. MaxSeeds) /\ Cardinality(0 .. MaxSeeds) = MaxSeeds + 1
  BY BoundAssumption, FS_Interval
<1>3. Cardinality(Frontier(T)) \in Nat /\ Cardinality(Frontier(T)) <= MaxSeeds + 1
  BY <1>1, <1>2, FS_Subset, FS_CardinalityType
<1> QED
  BY <1>3, BoundAssumption DEF Size

LEMMA JudgedIs ==
  ASSUME NEW p \in Procs, p.seen.k < K
  PROVE  /\ Judged(p) \in Row /\ Judged(p).size = p.size /\ Judged(p).count = p.seed
         /\ Judged(p).k = IF p.seen = NoRow \/ p.size > p.seen.size THEN 0 ELSE p.seen.k + 1
         /\ Judged(p).status = IF Judged(p).k >= K THEN "converged" ELSE "budget_exhausted"
         /\ Judged(p) # NoRow
<1>1. p.seen.k \in 0 .. K /\ p.seed \in Seed /\ p.size \in Size /\ p.seen.k \in Int
  BY RowIs DEF Procs
<1>2. PICK k \in 0 .. K : k = IF p.seen = NoRow \/ Grew(p) THEN 0 ELSE p.seen.k + 1
  BY <1>1, BoundAssumption
<1>3. Judged(p) = [size |-> p.size, k |-> k, count |-> p.seed,
                   status |-> IF k >= K THEN "converged" ELSE "budget_exhausted"]
  BY <1>2 DEF Judged
<1>4. Judged(p) \in Row /\ Judged(p) # NoRow
  BY <1>1, <1>3 DEF Row, NoRow
<1> QED
  BY <1>2, <1>3, <1>4 DEF Grew

LEMMA BareIs ==
  ASSUME NEW size \in Size
  PROVE  /\ Bare(size) \in Row /\ Bare(size) # NoRow /\ Bare(size).k = 0 /\ Bare(size).count = 0
         /\ Bare(size).status = "budget_exhausted"
BY BoundAssumption DEF Bare, Row, Seed, NoRow

LEMMA TypeInit == Init => TypeInv
<1> SUFFICES ASSUME Init PROVE TypeInv
  OBVIOUS
<1>1. TypeOK
  BY IdleIs, BoundAssumption DEF Init, TypeOK
<1>2. Counted
  BY IdleIs, BoundAssumption DEF Init, Counted, NoRow
<1> QED
  BY <1>1, <1>2 DEF TypeInv

LEMMA TypeStep == TypeInv /\ [Next]_vars => TypeInv'
<1> SUFFICES ASSUME TypeInv, [Next]_vars PROVE TypeInv'
  OBVIOUS
<1>0. TypeOK /\ Counted /\ proc \in [Who -> Procs]
  BY DEF TypeInv, TypeOK
<1>1. CASE NextNight
  BY <1>0, <1>1 DEF NextNight, TypeInv, TypeOK, Counted
<1>2. CASE Refreeze
  <2>1. NoRow.k < K
    BY BoundAssumption DEF NoRow
  <2>2. Counted'
    BY <1>2, <2>1, IdleIs DEF Refreeze, Counted
  <2>3. TypeOK'
    BY <1>0, <1>2, IdleIs, BoundAssumption DEF Refreeze, TypeOK
  <2> QED
    BY <2>2, <2>3 DEF TypeInv
<1>3. ASSUME NEW w \in Who, Begin(w) PROVE TypeInv'
  <2>1. PICK s : s = IF w = "hand" THEN 0 ELSE SeedAfter(latest)
    OBVIOUS
  <2>2. s \in Seed
    BY <1>0, <1>3, <2>1, RowIs, BoundAssumption DEF Begin, SeedAfter, Seed, TypeOK
  <2>3. proc' = [proc EXCEPT ![w] = [at |-> "search", seed |-> s, seen |-> latest, size |-> 0]]
    BY <1>3, <2>1 DEF Begin
  <2>4. proc' \in [Who -> Procs]
    BY <1>0, <2>2, <2>3, BoundAssumption DEF Procs, TypeOK, Size
  <2>5. TypeOK'
    BY <1>0, <1>3, <2>4 DEF Begin, TypeOK
  <2>6. w # "hand" => latest.status # "converged"
    BY <1>3 DEF Begin, Over
  <2>7. Counted'
    BY <1>0, <1>3, <2>3, <2>6 DEF Counted, Begin
  <2> QED
    BY <2>5, <2>7 DEF TypeInv
<1>4. ASSUME NEW w \in Who, Evaluate(w) PROVE TypeInv'
  <2>1. proc' = [proc EXCEPT ![w].at = "judge"] /\ proc[w].at # "idle"
        /\ UNCHANGED <<yield, latest, author, rows, stale, fired>>
    BY <1>4 DEF Evaluate
  <2>2. proc' \in [Who -> Procs]
    BY <1>0, <2>1 DEF Procs
  <2>3. trials' \subseteq Seed
    BY <1>0, <1>4 DEF Evaluate, Kept, Procs, TypeOK
  <2>4. Counted'
    BY <1>0, <2>1 DEF Counted, Procs
  <2>5. TypeOK'
    BY <1>0, <2>1, <2>2, <2>3 DEF TypeOK
  <2> QED
    BY <2>4, <2>5 DEF TypeInv
<1>5. ASSUME NEW w \in Who, Judge(w) PROVE TypeInv'
  <2>1. PICK size \in Size : size = Cardinality(Frontier(trials))
    BY <1>0, FrontSize DEF TypeOK
  <2>2. proc' = [proc EXCEPT ![w].at = "write", ![w].size = size] /\ proc[w].at # "idle"
        /\ UNCHANGED <<yield, trials, latest, author, rows, stale, fired>>
    BY <1>5, <2>1 DEF Judge
  <2>3. proc' \in [Who -> Procs]
    BY <1>0, <2>2 DEF Procs
  <2>4. Counted'
    BY <1>0, <2>2 DEF Counted, Procs
  <2>5. TypeOK'
    BY <1>0, <2>2, <2>3 DEF TypeOK
  <2> QED
    BY <2>4, <2>5 DEF TypeInv
<1>6. ASSUME NEW w \in Who, WriteRow(w) PROVE TypeInv'
  <2>1. proc[w].at # "idle" /\ latest' = Bare(proc[w].size) /\ author' = w
        /\ UNCHANGED <<yield, trials, fired>> /\ stale' = FALSE
    BY <1>6 DEF WriteRow
  <2>2. proc' \in [Who -> Procs]
    BY <1>0, <1>6, IdleIs DEF WriteRow, Procs
  <2>3. latest' \in Row /\ latest'.k < K
    BY <1>0, <2>1, BareIs, BoundAssumption DEF Procs
  <2>4. rows' \in 0 .. K + 1
    BY <1>0, <1>6, BoundAssumption DEF WriteRow, TypeOK
  <2>5. \A v \in Who : proc'[v].at # "idle" => proc[v].at # "idle" /\ proc'[v].seen = proc[v].seen
    BY <1>0, <1>6, <2>1, IdleIs DEF WriteRow, Procs
  <2>6. \A v \in Who : proc'[v].at = "complete" => v # "hand"
    BY <1>0, <1>6, IdleIs DEF WriteRow, Counted
  <2>7. Counted'
    BY <1>0, <2>3, <2>5, <2>6 DEF Counted
  <2>8. TypeOK'
    BY <1>0, <2>1, <2>2, <2>3, <2>4 DEF TypeOK
  <2> QED
    BY <2>7, <2>8 DEF TypeInv
<1>7. ASSUME NEW w \in Who, Complete(w) PROVE TypeInv'
  <2>1. proc' = [proc EXCEPT ![w] = Idle] /\ proc[w].at # "idle" /\ proc[w] \in Procs
        /\ UNCHANGED <<yield, trials, author, rows, stale, fired>>
    BY <1>0, <1>7 DEF Complete
  <2>2. proc[w].seen.k < K
    BY <1>0, <1>7, <2>1 DEF Counted, Complete
  <2>3. latest' = latest \/ latest' = Judged(proc[w])
    BY <1>7 DEF Complete
  <2>4. latest' \in Row /\ (latest'.status # "converged" => latest'.k < K)
    <3>1. CASE latest' = latest
      BY <1>0, <3>1 DEF TypeOK, Counted
    <3>2. CASE latest' = Judged(proc[w])
      <4>1. Judged(proc[w]) \in Row /\ Judged(proc[w]).k \in Int
        BY <2>1, <2>2, JudgedIs, RowIs
      <4>2. Judged(proc[w]).status # "converged" => ~(Judged(proc[w]).k >= K)
        BY <2>1, <2>2, JudgedIs
      <4> QED
        BY <3>2, <4>1, <4>2, BoundAssumption
    <3> QED
      BY <2>3, <3>1, <3>2
  <2>5. Counted'
    BY <1>0, <2>1, <2>4, IdleIs DEF Counted
  <2>6. TypeOK'
    BY <1>0, <2>1, <2>4, IdleIs DEF TypeOK
  <2> QED
    BY <2>5, <2>6 DEF TypeInv
<1>8. ASSUME NEW w \in Who, Die(w) PROVE TypeInv'
  BY <1>0, <1>8, IdleIs DEF Die, Counted, TypeOK, TypeInv
<1>9. CASE UNCHANGED vars
  BY <1>0, <1>9 DEF vars, Counted, TypeInv, TypeOK
<1> QED
  BY <1>1, <1>2, <1>3, <1>4, <1>5, <1>6, <1>7, <1>8, <1>9 DEF Next

\* Every variable keeps its type: no row counts beyond K and no front is larger than
\* the seeds drawn, whoever runs, however many at once and wherever they die.
THEOREM TypeCorrect == Spec => []TypeOK
<1>1. TypeInv => TypeOK
  BY DEF TypeInv
<1> QED
  BY <1>1, TypeInit, TypeStep, PTL DEF Spec

-----------------------------------------------------------------------------
(***************************************************************************)
(* A row counts no more nights without growth than there are rows before   *)
(* it, and so does what a process at work has read.                        *)
(***************************************************************************)
Ledger ==
    /\ latest # NoRow => latest.k + 1 <= rows
    /\ latest.status = "converged" => latest.k = K
    /\ \A w \in Who : proc[w].at # "idle" /\ proc[w].seen # NoRow =>
         proc[w].seen.k + 1 <= rows
    /\ \A w \in Who : proc[w].at = "complete" =>
         IF proc[w].seen = NoRow THEN 1 <= rows ELSE proc[w].seen.k + 2 <= rows

LedgerInv == TypeInv /\ Ledger

LEMMA LedgerInit == Init => LedgerInv
<1> SUFFICES ASSUME Init PROVE LedgerInv
  OBVIOUS
<1>1. latest = NoRow /\ latest.status = "none" /\ \A w \in Who : proc[w].at = "idle"
  BY IdleIs DEF Init, NoRow
<1> QED
  BY <1>1, TypeInit DEF LedgerInv, Ledger

LEMMA LedgerStep == LedgerInv /\ [Next]_vars => LedgerInv'
<1> SUFFICES ASSUME LedgerInv, [Next]_vars PROVE Ledger'
  BY TypeStep DEF LedgerInv
<1>0. TypeOK /\ Counted /\ Ledger /\ proc \in [Who -> Procs] /\ latest \in Row /\ rows \in 0 .. K + 1
  BY DEF LedgerInv, TypeInv, TypeOK
<1>1. CASE NextNight
  BY <1>0, <1>1 DEF NextNight, Ledger
<1>2. CASE Refreeze
  <2>1. latest' = NoRow /\ latest'.status = "none" /\ \A w \in Who : proc'[w].at = "idle"
    BY <1>2, IdleIs DEF Refreeze, NoRow
  <2> QED
    BY <2>1 DEF Ledger
<1>3. ASSUME NEW w \in Who, Begin(w) PROVE Ledger'
  <2>1. UNCHANGED <<latest, rows>>
    BY <1>3 DEF Begin
  <2>2. proc'[w].at = "search" /\ proc'[w].seen = latest /\ \A v \in Who \ {w} : proc'[v] = proc[v]
    BY <1>0, <1>3 DEF Begin
  <2> QED
    BY <1>0, <2>1, <2>2 DEF Ledger
<1>4. ASSUME NEW w \in Who, Evaluate(w) \/ Judge(w) PROVE Ledger'
  <2>1. UNCHANGED <<latest, rows>> /\ proc[w].at # "idle"
    BY <1>4 DEF Evaluate, Judge
  <2>2. \A v \in Who : proc'[v].seen = proc[v].seen
    BY <1>0, <1>4 DEF Evaluate, Judge, Procs
  <2>3. \A v \in Who \ {w} : proc'[v] = proc[v]
    BY <1>0, <1>4 DEF Evaluate, Judge
  <2>4. proc'[w].at # "complete"
    BY <1>0, <1>4 DEF Evaluate, Judge, Procs
  <2> QED
    BY <1>0, <2>1, <2>2, <2>3, <2>4 DEF Ledger
<1>5. ASSUME NEW w \in Who, WriteRow(w) PROVE Ledger'
  <2>1. proc[w].at = "write" /\ latest' = Bare(proc[w].size)
        /\ rows' = IF rows > K THEN rows ELSE rows + 1
    BY <1>5 DEF WriteRow
  <2>2. rows' >= rows /\ rows' >= 1
    BY <1>0, <2>1, BoundAssumption
  <2>3. latest'.k = 0 /\ latest'.status = "budget_exhausted"
    BY <1>0, <2>1, BareIs DEF Procs
  <2>4. \A v \in Who \ {w} : proc'[v] = proc[v]
    BY <1>0, <1>5 DEF WriteRow
  <2>5. CASE w = "hand"
    <3>1. proc'[w].at = "idle"
      BY <1>0, <1>5, <2>5, IdleIs DEF WriteRow
    <3>2. \A v \in Who : proc'[v].at # "idle" => proc'[v] = proc[v] /\ proc[v].seen.k \in Int
      BY <1>0, <2>4, <3>1, RowIs DEF Procs
    <3>3. rows \in Int /\ rows' \in Int
      BY <1>0, <2>1
    <3> QED
      BY <1>0, <2>2, <2>3, <3>2, <3>3 DEF Ledger
  <2>6. CASE w # "hand"
    <3>1. proc'[w].seen = proc[w].seen
      BY <1>0, <1>5, <2>6 DEF WriteRow, Procs
    <3>2. proc[w].seen.k < K /\ proc[w].seen.k \in 0 .. K
      BY <1>0, <2>1, <2>6, RowIs DEF Counted, Procs
    <3>3. proc[w].seen # NoRow => proc[w].seen.k + 2 <= rows'
      <4>1. proc[w].seen # NoRow => proc[w].seen.k + 1 <= rows
        BY <1>0, <2>1 DEF Ledger
      <4> QED
        BY <1>0, <2>1, <3>2, <4>1, BoundAssumption
    <3>4. \A v \in Who \ {w} : proc'[v] = proc[v] /\ proc[v].seen.k \in Int
      BY <1>0, <2>4, RowIs DEF Procs
    <3>5. rows \in Int /\ rows' \in Int
      BY <1>0, <2>1
    <3>6. \A v \in Who : proc'[v].at # "idle" /\ proc'[v].seen # NoRow =>
            proc'[v].seen.k + 1 <= rows'
      <4>1. ASSUME NEW v \in Who \ {w}, proc'[v].at # "idle", proc'[v].seen # NoRow
            PROVE  proc'[v].seen.k + 1 <= rows'
        BY <1>0, <2>2, <3>4, <3>5, <4>1 DEF Ledger
      <4> QED
        BY <3>1, <3>2, <3>3, <3>5, <4>1
    <3>7. \A v \in Who : proc'[v].at = "complete" =>
            IF proc'[v].seen = NoRow THEN 1 <= rows' ELSE proc'[v].seen.k + 2 <= rows'
      <4>1. ASSUME NEW v \in Who \ {w}, proc'[v].at = "complete"
            PROVE  IF proc'[v].seen = NoRow THEN 1 <= rows' ELSE proc'[v].seen.k + 2 <= rows'
        BY <1>0, <2>2, <3>4, <3>5, <4>1 DEF Ledger
      <4> QED
        BY <2>2, <3>1, <3>3, <4>1
    <3> QED
      BY <2>2, <2>3, <3>6, <3>7 DEF Ledger
  <2> QED
    BY <2>5, <2>6
<1>6. ASSUME NEW w \in Who, Complete(w) PROVE Ledger'
  <2>1. rows' = rows /\ proc[w].at = "complete" /\ proc[w] \in Procs
    BY <1>0, <1>6 DEF Complete
  <2>2. \A v \in Who : proc'[v].at # "idle" => proc'[v] = proc[v]
    BY <1>0, <1>6, IdleIs DEF Complete
  <2>3. (latest # NoRow => latest.k + 1 <= rows)' /\ (latest.status = "converged" => latest.k = K)'
    <3>1. CASE latest' = latest
      BY <1>0, <2>1, <3>1 DEF Ledger
    <3>2. CASE latest' = Judged(proc[w])
      <4>1. proc[w].seen.k < K /\ proc[w].seen.k \in Int
        BY <1>0, <2>1, RowIs DEF Counted, Procs
      <4>2. IF proc[w].seen = NoRow THEN 1 <= rows ELSE proc[w].seen.k + 2 <= rows
        BY <1>0, <2>1 DEF Ledger
      <4>3. /\ Judged(proc[w]).k = IF proc[w].seen = NoRow \/ proc[w].size > proc[w].seen.size
                                   THEN 0 ELSE proc[w].seen.k + 1
            /\ Judged(proc[w]).k \in 0 .. K
            /\ Judged(proc[w]).status = "converged" => Judged(proc[w]).k >= K
        BY <2>1, <4>1, JudgedIs, RowIs
      <4>4. proc[w].seen # NoRow => proc[w].seen.k >= 0
        BY <2>1, RowIs DEF Procs
      <4>5. Judged(proc[w]).k + 1 <= rows
        BY <1>0, <4>1, <4>2, <4>3, <4>4
      <4>6. Judged(proc[w]).status = "converged" => Judged(proc[w]).k = K
        BY <4>3, BoundAssumption
      <4> QED
        BY <2>1, <3>2, <4>5, <4>6
    <3> QED
      BY <1>6, <3>1, <3>2 DEF Complete
  <2> QED
    BY <1>0, <2>1, <2>2, <2>3 DEF Ledger
<1>7. ASSUME NEW w \in Who, Die(w) PROVE Ledger'
  <2>1. UNCHANGED <<latest, rows>> /\ \A v \in Who : proc'[v].at # "idle" => proc'[v] = proc[v]
    BY <1>0, <1>7, IdleIs DEF Die
  <2> QED
    BY <1>0, <2>1 DEF Ledger
<1>8. CASE UNCHANGED vars
  BY <1>0, <1>8 DEF vars, Ledger
<1> QED
  BY <1>1, <1>2, <1>3, <1>4, <1>5, <1>6, <1>7, <1>8 DEF Next

\* No search is over before one row to compare with and K more were written for this
\* snapshot: with any number of processes at once, by hand or not, dying anywhere.
THEOREM OverTakesRows == Spec => []NotOverBefore
<1>1. LedgerInv => NotOverBefore
  <2> SUFFICES ASSUME LedgerInv, latest.status = "converged" PROVE rows = K + 1
    BY DEF NotOverBefore
  <2>1. latest # NoRow
    BY DEF NoRow
  <2>2. latest.k = K /\ latest.k + 1 <= rows /\ rows \in 0 .. K + 1
    BY <2>1 DEF LedgerInv, Ledger, TypeInv, TypeOK
  <2> QED
    BY <2>2, BoundAssumption
<1> QED
  BY <1>1, LedgerInit, LedgerStep, PTL DEF Spec

-----------------------------------------------------------------------------
(***************************************************************************)
(* One process of the server's at a time, which completes the row it has   *)
(* written.  Groups that cannot be evaluated and processes that die before *)
(* their row may come.                                                     *)
(***************************************************************************)
OneByOne == "hand" \notin Who /\ Faults \subseteq {"eval"}

Alone == \A u, w \in Who : proc[u].at # "idle" /\ proc[w].at # "idle" => u = w

\* What a row says is so, and the trials are those of its nights and perhaps the next.
Sound(row) ==
    /\ \A s \in trials : 1 <= s /\ s <= row.count + 1
    /\ row # NoRow => row.count >= 1 /\ row.size = SizeUpTo(row.count)
    /\ row.k > 0 => row.k < row.count
    /\ \A m \in row.count - row.k + 1 .. row.count : SizeUpTo(m) <= SizeUpTo(m - 1)

\* The row a process has read, which is the last one until it writes its own.
Read(w) == proc[w].seed = proc[w].seen.count + 1 /\ proc[w].seen.status # "converged"

Front == Cardinality(Frontier(trials))

Begun ==
    /\ (\A w \in Who : proc[w].at # "complete") => Sound(latest)
    /\ \A w \in Who : proc[w].at \in {"search", "judge", "write"} =>
         Read(w) /\ proc[w].seen = latest
    /\ \A w \in Who : proc[w].at \in {"write", "complete"} => proc[w].size = Front
    /\ \A w \in Who : proc[w].at = "complete" =>
         Read(w) /\ Sound(proc[w].seen) /\ author = w /\ latest = Bare(proc[w].size)

SearchInv == TypeInv /\ Alone /\ Begun

\* The two are functions of the store alone.
LEMMA SameStore ==
  ASSUME UNCHANGED <<yield, trials>>
  PROVE  Front' = Front /\ \A row : Sound(row)' = Sound(row)
BY DEF Front, Sound, SizeUpTo, Frontier, Dominates

\* The trial of the next seed says nothing of the seeds before.
LEMMA SoundGrows ==
  ASSUME NEW row \in Row, Sound(row), trials \subseteq Seed, yield' = yield,
         trials' \subseteq trials \cup {row.count + 1}
  PROVE  trials \subseteq trials' => Sound(row)'
<1> SUFFICES ASSUME trials \subseteq trials' PROVE Sound(row)'
  OBVIOUS
<1>0. /\ row.count \in Int /\ row.count >= 0 /\ row.k \in Int /\ row.k >= 0
      /\ \A s \in trials : s \in Int
  BY RowIs DEF Seed
<1>1. \A s \in trials' : 1 <= s /\ s <= row.count + 1
  BY <1>0 DEF Sound
<1>2. ASSUME NEW m \in Int, m <= row.count
      PROVE  SizeUpTo(m)' = SizeUpTo(m)
  <2>1. {s \in trials : s <= m}' = {s \in trials : s <= m}
    BY <1>0, <1>2
  <2> QED
    BY <2>1 DEF SizeUpTo, Frontier, Dominates
<1>3. row # NoRow => row.count >= 1 /\ row.size = SizeUpTo(row.count)'
  BY <1>0, <1>2 DEF Sound
<1>4. \A m \in row.count - row.k + 1 .. row.count : SizeUpTo(m)' <= SizeUpTo(m - 1)'
  BY <1>0, <1>2 DEF Sound
<1> QED
  BY <1>1, <1>3, <1>4 DEF Sound

LEMMA SearchInit == Init => SearchInv
<1> SUFFICES ASSUME Init PROVE SearchInv
  OBVIOUS
<1>1. \A w \in Who : proc[w].at = "idle"
  BY IdleIs DEF Init
<1>2. latest = NoRow /\ latest.k = 0 /\ latest.count = 0 /\ trials = {}
  BY DEF Init, NoRow
<1>3. Sound(latest)
  BY <1>2 DEF Sound
<1> QED
  BY <1>1, <1>3, TypeInit DEF SearchInv, Alone, Begun

\* A step that leaves the store alone, and every process unless it goes.
LEMMA Rests ==
  ASSUME SearchInv, UNCHANGED <<yield, trials, latest, author>>, proc' \in [Who -> Procs],
         \A w \in Who : proc'[w] = proc[w] \/ (proc[w].at # "complete" /\ proc'[w].at = "idle")
  PROVE  Alone' /\ Begun'
<1>1. Front' = Front /\ \A row : Sound(row)' = Sound(row)
  BY SameStore
<1>2. \A w \in Who : proc'[w].at # "idle" => proc'[w] = proc[w]
  OBVIOUS
<1>3. Alone'
  BY <1>2 DEF SearchInv, Alone
<1>4. (\A w \in Who : proc'[w].at # "complete") => Sound(latest)'
  BY <1>1 DEF SearchInv, Begun
<1>5. \A w \in Who : proc'[w].at # "idle" /\ Read(w) => Read(w)'
  BY <1>2 DEF Read
<1> QED
  BY <1>1, <1>2, <1>3, <1>4, <1>5 DEF SearchInv, Begun

LEMMA Begins ==
  ASSUME OneByOne, SearchInv, NEW w \in Who, Begin(w)
  PROVE  Alone' /\ Begun'
<1>0. proc \in [Who -> Procs] /\ w # "hand" /\ \A v \in Who : proc[v].at = "idle"
  BY DEF SearchInv, TypeInv, TypeOK, OneByOne, Begin, AllIdle
<1>1. /\ UNCHANGED <<yield, trials, latest, author>> /\ latest.status # "converged"
      /\ proc' = [proc EXCEPT ![w] = [at |-> "search", seed |-> SeedAfter(latest),
                                      seen |-> latest, size |-> 0]]
  BY <1>0 DEF Begin, Over
<1>2. /\ \A v \in Who \ {w} : proc'[v].at = "idle"
      /\ proc'[w].at = "search" /\ proc'[w].seen = latest /\ proc'[w].seed = latest.count + 1
  BY <1>0, <1>1 DEF SeedAfter
<1>3. Sound(latest)'
  <2>1. \A v \in Who : proc[v].at # "complete"
    BY <1>0
  <2>2. Sound(latest)
    BY <2>1 DEF SearchInv, Begun
  <2>3. \A row : Sound(row)' = Sound(row)
    BY <1>1, SameStore
  <2> QED
    BY <1>1, <2>2, <2>3
<1>4. Alone'
  BY <1>2 DEF Alone
<1> QED
  BY <1>1, <1>2, <1>3, <1>4 DEF Begun, Read

\* A step of a process at work before its row: the others are idle, the last row is
\* the one it read, and stays.
LEMMA Works ==
  ASSUME SearchInv, NEW w \in Who, proc[w].at \in {"search", "judge"},
         UNCHANGED <<yield, latest>>, proc' \in [Who -> Procs], Sound(latest)',
         \A v \in Who \ {w} : proc'[v] = proc[v],
         proc'[w].seed = proc[w].seed, proc'[w].seen = proc[w].seen,
         \/ proc'[w].at = "judge"
         \/ proc'[w].at = "write" /\ proc'[w].size = Front'
  PROVE  Alone' /\ Begun'
<1>1. \A v \in Who \ {w} : proc[v].at = "idle" /\ proc'[v].at = "idle"
  BY DEF SearchInv, Alone
<1>2. Alone'
  BY <1>1 DEF Alone
<1>3. Read(w)' /\ proc'[w].seen = latest'
  BY DEF SearchInv, Begun, Read
<1> QED
  BY <1>1, <1>2, <1>3 DEF Begun

LEMMA Evaluates ==
  ASSUME OneByOne, SearchInv, NEW w \in Who, Evaluate(w)
  PROVE  Alone' /\ Begun'
<1>0. /\ proc \in [Who -> Procs] /\ trials \subseteq Seed /\ latest \in Row
  BY DEF SearchInv, TypeInv, TypeOK
<1>1. /\ proc' = [proc EXCEPT ![w].at = "judge"] /\ proc[w].at = "search"
      /\ UNCHANGED <<yield, latest>> /\ trials \subseteq trials'
      /\ trials' \subseteq trials \cup {proc[w].seed}
  BY DEF Evaluate, Kept
<1>2. /\ \A v \in Who \ {w} : proc'[v] = proc[v]
      /\ proc'[w].at = "judge" /\ proc'[w].seed = proc[w].seed /\ proc'[w].seen = proc[w].seen
      /\ proc' \in [Who -> Procs]
  BY <1>0, <1>1 DEF Procs
<1>3. proc[w].seed = latest.count + 1
  BY <1>1 DEF SearchInv, Begun, Read
<1>4. Sound(latest)
  <2>1. \A v \in Who : proc[v].at # "complete"
    BY <1>1 DEF SearchInv, Alone
  <2> QED
    BY <2>1 DEF SearchInv, Begun
<1>5. Sound(latest)'
  BY <1>0, <1>1, <1>3, <1>4, SoundGrows
<1> QED
  BY <1>1, <1>2, <1>5, Works

LEMMA Judges ==
  ASSUME OneByOne, SearchInv, NEW w \in Who, Judge(w)
  PROVE  Alone' /\ Begun'
<1>0. proc \in [Who -> Procs] /\ trials \subseteq Seed
  BY DEF SearchInv, TypeInv, TypeOK
<1>1. /\ proc' = [proc EXCEPT ![w].at = "write", ![w].size = Front] /\ proc[w].at = "judge"
      /\ UNCHANGED <<yield, trials, latest>>
  BY DEF Judge, Front
<1>2. Front \in Size /\ Front' = Front /\ \A row : Sound(row)' = Sound(row)
  BY <1>0, <1>1, FrontSize, SameStore DEF Front
<1>3. /\ \A v \in Who \ {w} : proc'[v] = proc[v]
      /\ proc'[w].at = "write" /\ proc'[w].seed = proc[w].seed /\ proc'[w].seen = proc[w].seen
      /\ proc'[w].size = Front /\ proc' \in [Who -> Procs]
  BY <1>0, <1>1, <1>2 DEF Procs
<1>4. Sound(latest)
  <2>1. \A v \in Who : proc[v].at # "complete"
    BY <1>1 DEF SearchInv, Alone
  <2> QED
    BY <2>1 DEF SearchInv, Begun
<1> QED
  BY <1>1, <1>2, <1>3, <1>4, Works

LEMMA Writes ==
  ASSUME OneByOne, SearchInv, NEW w \in Who, WriteRow(w)
  PROVE  Alone' /\ Begun' /\ latest.status # "converged"
<1>0. /\ proc \in [Who -> Procs] /\ w # "hand"
  BY DEF SearchInv, TypeInv, TypeOK, OneByOne
<1>1. /\ proc' = [proc EXCEPT ![w].at = "complete"] /\ proc[w].at = "write"
      /\ latest' = Bare(proc[w].size) /\ author' = w /\ UNCHANGED <<yield, trials>>
  BY <1>0 DEF WriteRow
<1>2. /\ \A v \in Who \ {w} : proc'[v].at = "idle"
      /\ proc'[w].at = "complete" /\ proc'[w].seed = proc[w].seed
      /\ proc'[w].seen = proc[w].seen /\ proc'[w].size = proc[w].size
  BY <1>0, <1>1 DEF Procs, SearchInv, Alone
<1>3. Read(w) /\ proc[w].seen = latest /\ proc[w].size = Front
  BY <1>1 DEF SearchInv, Begun
<1>4. Sound(latest)
  <2>1. \A v \in Who : proc[v].at # "complete"
    BY <1>1 DEF SearchInv, Alone
  <2> QED
    BY <2>1 DEF SearchInv, Begun
<1>5. Front' = Front /\ \A row : Sound(row)' = Sound(row)
  BY <1>1, SameStore
<1>6. Alone'
  BY <1>2 DEF Alone
<1>7. Read(w)' /\ Sound(proc[w].seen)' /\ proc'[w].size = Front'
  <2>1. PICK row : row = proc[w].seen
    OBVIOUS
  <2>2. Sound(row)'
    BY <1>3, <1>4, <1>5, <2>1
  <2>3. Sound(proc[w].seen)'
    BY <1>2, <2>1, <2>2
  <2> QED
    BY <1>2, <1>3, <1>5, <2>3 DEF Read
<1>8. Begun'
  BY <1>1, <1>2, <1>7 DEF Begun
<1> QED
  BY <1>3, <1>6, <1>8 DEF Read

\* The night is complete: its row says what its seed and the count before it say.
LEMMA Completes ==
  ASSUME OneByOne, SearchInv, NEW w \in Who, Complete(w)
  PROVE  Alone' /\ Begun' /\ latest.status # "converged"
<1>0. /\ proc \in [Who -> Procs] /\ trials \subseteq Seed /\ proc[w] \in Procs /\ w # "hand"
      /\ proc[w].at = "complete" /\ proc[w].seen.k < K
  BY DEF SearchInv, TypeInv, TypeOK, Counted, OneByOne, Complete
<1>1. PICK row \in Row : row = proc[w].seen
  BY <1>0 DEF Procs
<1>2. /\ Sound(row) /\ proc[w].seed = row.count + 1 /\ author = w /\ proc[w].size = Front
      /\ latest = Bare(proc[w].size)
  BY <1>0, <1>1 DEF SearchInv, Begun, Read
<1>3. /\ latest' = Judged(proc[w]) /\ proc' = [proc EXCEPT ![w] = Idle] /\ UNCHANGED <<yield, trials>>
  BY <1>2 DEF Complete
<1>n. PICK n \in Int : n = row.count /\ n >= 0
  BY RowIs DEF Seed
<1>k. PICK k \in Int : k = row.k /\ k >= 0
  BY RowIs
<1>s. PICK size \in Int : size = Front
  BY <1>0, FrontSize, BoundAssumption DEF Size, Front
<1>4. /\ latest'.size = size /\ latest'.count = n + 1 /\ latest' # NoRow
      /\ latest'.k = IF row = NoRow \/ size > row.size THEN 0 ELSE k + 1
  BY <1>0, <1>1, <1>2, <1>3, <1>n, <1>k, <1>s, JudgedIs
<1>5. size = SizeUpTo(n + 1)
  <2>1. \A s \in trials : s <= n + 1
    BY <1>2, <1>n DEF Sound
  <2>2. {s \in trials : s <= n + 1} = trials
    BY <2>1
  <2> QED
    BY <1>s, <2>2 DEF SizeUpTo, Front
<1>6. /\ row # NoRow => n >= 1 /\ row.size = SizeUpTo(n)
      /\ k > 0 => k < n
      /\ \A m \in n - k + 1 .. n : SizeUpTo(m) <= SizeUpTo(m - 1)
  BY <1>2, <1>n, <1>k DEF Sound
<1>7. \A m \in n + 1 - latest'.k + 1 .. n + 1 : SizeUpTo(m) <= SizeUpTo(m - 1)
  <2>1. CASE row = NoRow \/ size > row.size
    <3>1. latest'.k = 0
      BY <1>4, <2>1
    <3> QED
      BY <3>1
  <2>2. CASE row # NoRow /\ ~(size > row.size)
    <3>1. latest'.k = k + 1
      BY <1>4, <2>2
    <3>2. SizeUpTo(n + 1) <= SizeUpTo(n)
      BY <1>1, <1>5, <1>6, <2>2, RowIs
    <3> SUFFICES ASSUME NEW m \in n + 1 - latest'.k + 1 .. n + 1
                 PROVE  SizeUpTo(m) <= SizeUpTo(m - 1)
      OBVIOUS
    <3>3. m \in n - k + 1 .. n \/ m = n + 1
      BY <3>1
    <3>4. CASE m = n + 1
      <4>1. m - 1 = n
        BY <3>4
      <4> QED
        BY <3>2, <3>4, <4>1
    <3>5. CASE m \in n - k + 1 .. n
      BY <1>6, <3>5
    <3> QED
      BY <3>3, <3>4, <3>5
  <2> QED
    BY <2>1, <2>2
<1>8. Sound(latest)'
  <2>1. \A m : SizeUpTo(m)' = SizeUpTo(m)
    BY <1>3 DEF SizeUpTo, Frontier, Dominates
  <2>2. \A s \in trials' : 1 <= s /\ s <= n + 1 + 1
    <3>1. \A s \in trials : s \in Int /\ 1 <= s /\ s <= n + 1
      BY <1>0, <1>2, <1>n DEF Sound, Seed
    <3> QED
      BY <1>3, <3>1
  <2>3. n + 1 >= 1 /\ size = SizeUpTo(n + 1)'
    BY <1>n, <1>5, <2>1
  <2>4. latest'.k > 0 => latest'.k < n + 1
    <3>1. latest'.k = 0 \/ (row # NoRow /\ latest'.k = k + 1)
      BY <1>4
    <3> QED
      BY <1>6, <1>k, <3>1
  <2>5. \A m \in n + 1 - latest'.k + 1 .. n + 1 : SizeUpTo(m)' <= SizeUpTo(m - 1)'
    BY <1>7, <2>1
  <2> QED
    BY <1>4, <2>2, <2>3, <2>4, <2>5 DEF Sound
<1>9. \A v \in Who : proc'[v].at = "idle"
  BY <1>0, <1>3, IdleIs DEF SearchInv, Alone
<1>10. latest.status # "converged"
  BY <1>0, <1>2, BareIs DEF Procs
<1> QED
  BY <1>8, <1>9, <1>10 DEF Alone, Begun

LEMMA SearchStep == OneByOne /\ SearchInv /\ [Next]_vars => SearchInv'
<1> SUFFICES ASSUME OneByOne, SearchInv, [Next]_vars PROVE Alone' /\ Begun'
  BY TypeStep DEF SearchInv
<1>0. proc \in [Who -> Procs] /\ Idle \in Procs
  BY IdleIs DEF SearchInv, TypeInv, TypeOK
<1>1. CASE NextNight
  <2>1. UNCHANGED <<yield, trials, latest, author, proc>>
    BY <1>1 DEF NextNight
  <2> QED
    BY <1>0, <2>1, Rests
<1>2. CASE Refreeze
  <2>1. \A w \in Who : proc'[w].at = "idle"
    BY <1>2, IdleIs DEF Refreeze
  <2>2. Sound(latest)'
    BY <1>2 DEF Refreeze, Sound, NoRow
  <2> QED
    BY <2>1, <2>2 DEF Alone, Begun
<1>3. ASSUME NEW w \in Who, Die(w) PROVE Alone' /\ Begun'
  <2>1. UNCHANGED <<yield, trials, latest, author>> /\ proc' = [proc EXCEPT ![w] = Idle]
        /\ proc[w].at # "complete"
    BY <1>3 DEF Die, OneByOne
  <2>2. \A v \in Who : proc'[v] = proc[v] \/ (proc[v].at # "complete" /\ proc'[v].at = "idle")
    BY <1>0, <2>1, IdleIs
  <2> QED
    BY <1>0, <2>1, <2>2, Rests
<1>4. CASE UNCHANGED vars
  <2>1. UNCHANGED <<yield, trials, latest, author, proc>>
    BY <1>4 DEF vars
  <2> QED
    BY <1>0, <2>1, Rests
<1> QED
  BY <1>1, <1>2, <1>3, <1>4, Begins, Evaluates, Judges, Writes, Completes DEF Next

\* Each night of the count that ends a search drew a seed of its own and did not make
\* the front larger, over processes that died before their row, nights that were
\* repeated and groups that could not be evaluated; for processes that come one at a
\* time and complete the rows they write.
THEOREM StagnationCounts ==
  ASSUME OneByOne
  PROVE  Spec => []StagnationIsReal
<1>1. SearchInv => StagnationIsReal
  <2> SUFFICES ASSUME SearchInv PROVE StagnationIsReal
    OBVIOUS
  <2>1. CASE \A w \in Who : proc[w].at # "complete"
    BY <2>1 DEF SearchInv, Begun, Sound, StagnationIsReal
  <2>2. CASE \E w \in Who : proc[w].at = "complete"
    <3>1. latest.k = 0 /\ latest.count = 0
      BY <2>2, BareIs DEF SearchInv, Begun, TypeInv, TypeOK, Procs
    <3> QED
      BY <3>1 DEF StagnationIsReal
  <2> QED
    BY <2>1, <2>2
<1>2. SearchInv /\ [Next]_vars => SearchInv'
  BY SearchStep
<1> QED
  BY <1>1, <1>2, SearchInit, PTL DEF Spec

\* A search that is over stays over until the data moves: nobody begins, and the
\* process at work has written its row before.  Under the same assumption.
THEOREM OverStays ==
  ASSUME OneByOne
  PROVE  Spec => ConvergedStays
<1>1. SearchInv /\ [Next]_vars => SearchInv'
  BY SearchStep
<1>2. ASSUME SearchInv, [Next]_vars
      PROVE  latest.status = "converged" => latest'.status = "converged" \/ latest' = NoRow
  <2>1. CASE Refreeze
    BY <2>1 DEF Refreeze
  <2>2. ASSUME NEW w \in Who, WriteRow(w) \/ Complete(w)
        PROVE  latest.status # "converged"
    BY <1>2, <2>2, Writes, Completes
  <2>3. CASE latest' = latest
    BY <2>3
  <2> QED
    BY <1>2, <2>1, <2>2, <2>3 DEF Next, vars, NextNight, Begin, Evaluate, Judge, Die
<1>3. SearchInv /\ [Next]_vars
        => [latest.status = "converged" => latest'.status = "converged" \/ latest' = NoRow]_vars
  BY <1>2
<1> QED
  BY <1>1, <1>3, SearchInit, PTL DEF Spec, ConvergedStays
=============================================================================
