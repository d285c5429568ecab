----------------------------- MODULE Discovery -----------------------------
(***************************************************************************)
(* The nightly search for parameters: discovery/daemon.run_daemon_cycle    *)
(* over discovery/runner.run_search and discovery/store, started by the    *)
(* server at 02:00, and by the server's own start when nights were missed. *)
(*                                                                         *)
(* A night evaluates one group of parameters, drawn from a seed that the   *)
(* last row of search_run determines, keeps the trial, and counts the      *)
(* nights in a row on which the Pareto front has not grown; after K of     *)
(* them the search of this snapshot of the data is over.  (The low-power   *)
(* schedule: a group a round, no TPE stage.)  The processes are detached   *)
(* and each may die.  In Faults are the less common accidents:             *)
(*   eval     the evaluation of a group raises, or its worker is gone;     *)
(*   torn     a process dies between its row and the completion of it;     *)
(*   overlap  a process starts while another is at work: nothing in the    *)
(*            code keeps the catch-up of a start and the run of 02:00      *)
(*            apart.                                                       *)
(***************************************************************************)
EXTENDS Integers, FiniteSets

CONSTANTS
    Who,      \* processes: "cron", "catchup", and "hand" for `discovery run`
    Faults,   \* which of the accidents happen
    Metric,   \* inner metrics: pairs of a return and a drawdown
    K,        \* nights without growth until the search is over
    MaxSeeds  \* bound: seeds of a snapshot

ASSUME BoundAssumption == K \in Nat \ {0} /\ MaxSeeds \in Nat

Seed == 0 .. MaxSeeds  \* 0: the default of `discovery run`
Drawn == IF "hand" \in Who THEN Seed ELSE Seed \ {0}
NoMetric == [ann |-> 0, dd |-> 0]  \* no trade, or an error
NoRow == [size |-> 0, k |-> 0, count |-> 0, status |-> "none"]

VARIABLES
    yield,  \* what the group of each seed is worth on this snapshot
    trials, \* table trial: the seeds whose group was kept
    latest, \* table search_run: the last row of this snapshot
    author, \* whose row that is
    rows,   \* how many there are, up to K + 1
    stale,  \* a night has begun since a row was stamped
    fired,  \* who was started this night
    proc    \* the processes: where each is, its seed, the row it read, the front it found

vars == <<yield, trials, latest, author, rows, stale, fired, proc>>

Size == 0 .. MaxSeeds + 1
Row == [size : Size, k : 0 .. K, count : Seed,
        status : {"budget_exhausted", "converged"}] \cup {NoRow}
Procs == [at : {"idle", "search", "judge", "write", "complete"}, seed : Seed,
          seen : Row, size : Size]
Idle == [at |-> "idle", seed |-> 0, seen |-> NoRow, size |-> 0]

TypeOK ==
    /\ yield \in [Drawn -> Metric \cup {NoMetric}] /\ trials \subseteq Seed
    /\ latest \in Row /\ author \in Who \cup {"none"} /\ rows \in 0 .. K + 1
    /\ stale \in BOOLEAN /\ fired \subseteq Who /\ proc \in [Who -> Procs]

Init ==
    /\ yield \in [Drawn -> Metric \cup {NoMetric}] /\ trials = {}
    /\ latest = NoRow /\ author = "none" /\ rows = 0
    /\ stale = TRUE /\ fired = {} /\ proc = [w \in Who |-> Idle]

(***************************************************************************)
(* pareto_frontier: the trials that none dominates; equal ones all count.  *)
(***************************************************************************)
Dominates(a, b) == a.ann >= b.ann /\ a.dd <= b.dd /\ a # b

Frontier(S) == {s \in S : \A r \in S : ~Dominates(yield[r], yield[s])}

Kept(S) == {s \in S : yield[s] # NoMetric}

AllIdle == \A w \in Who : proc[w].at = "idle"

\* A search has its hours; every night begins with none at work.
NextNight ==
    /\ AllIdle /\ fired' = {} /\ stale' = TRUE
    /\ UNCHANGED <<yield, trials, latest, author, rows, proc>>

\* The data moved: another snapshot_hash, under which nothing is known.  A process
\* at work goes on with the rows of the old one, which nobody reads any more.
Refreeze ==
    /\ latest # NoRow
    /\ yield' \in [Drawn -> Metric \cup {NoMetric}] /\ trials' = {} /\ latest' = NoRow
    /\ author' = "none" /\ rows' = 0 /\ proc' = [w \in Who |-> Idle]
    /\ UNCHANGED <<stale, fired>>

(***************************************************************************)
(* The server's start compares the last stamp with 02:00 of the day before.*)
(* The stamp is in UTC, the 02:00 in the time of the host: eight hours east*)
(* of Greenwich the row of the night before counts as missing, at Greenwich*)
(* only one of an earlier night.  A catch-up may come in either case.      *)
(***************************************************************************)
MissedLastRun == stale

\* Variant: the search goes on whatever the last row says.
NeverOver(row) == FALSE

Over(row) == row.status = "converged"

\* Variant: the seed moves with the nights that brought nothing.
SeedOfStreak(row) == row.k + 1

\* seed = 42 + run_count
SeedAfter(row) == row.count + 1

Begin(w) ==
    /\ AllIdle \/ "overlap" \in Faults
    /\ proc[w].at = "idle" /\ w \notin fired /\ fired' = fired \cup {w}
    /\ w = "catchup" => MissedLastRun
    /\ w # "hand" => ~Over(latest) /\ SeedAfter(latest) <= MaxSeeds
    /\ proc' = [proc EXCEPT ![w] =
           [at |-> "search", seed |-> IF w = "hand" THEN 0 ELSE SeedAfter(latest),
            seen |-> latest, size |-> 0]]
    /\ UNCHANGED <<yield, trials, latest, author, rows, stale>>

\* A group whose trial is there already is skipped; a degenerate one, and one whose
\* evaluation fails, is not kept, and its seed is spent all the same.
Evaluate(w) ==
    /\ proc[w].at = "search" /\ proc' = [proc EXCEPT ![w].at = "judge"]
    /\ \/ trials' = trials \cup Kept({proc[w].seed})
       \/ "eval" \in Faults /\ UNCHANGED trials
    /\ UNCHANGED <<yield, latest, author, rows, stale, fired>>

\* The front is read, and the champion is replayed before the row is written.
Judge(w) ==
    /\ proc[w].at = "judge"
    /\ proc' = [proc EXCEPT ![w].at = "write", ![w].size = Cardinality(Frontier(trials))]
    /\ UNCHANGED <<yield, trials, latest, author, rows, stale, fired>>

(***************************************************************************)
(* write_search_run, which closes run_search, and write_daemon_state, with *)
(* which the daemon completes that row; the second is missing in a search  *)
(* made by hand.                                                           *)
(***************************************************************************)
Bare(size) == [size |-> size, k |-> 0, count |-> 0, status |-> "budget_exhausted"]

WriteRow(w) ==
    /\ proc[w].at = "write"
    /\ proc' = [proc EXCEPT ![w] = IF w = "hand" THEN Idle ELSE [@ EXCEPT !.at = "complete"]]
    /\ latest' = Bare(proc[w].size) /\ author' = w
    /\ rows' = IF rows > K THEN rows ELSE rows + 1
    /\ stale' = FALSE
    /\ UNCHANGED <<yield, trials, fired>>

Grew(p) == p.size > p.seen.size

\* Variant: the first night of a snapshot counts as one without growth.
JudgedFromZero(p) ==
    LET k == IF Grew(p) THEN 0 ELSE p.seen.k + 1 IN
    [size |-> p.size, k |-> k, count |-> p.seed,
     status |-> IF k >= K THEN "converged" ELSE "budget_exhausted"]

Judged(p) ==
    LET k == IF p.seen = NoRow \/ Grew(p) THEN 0 ELSE p.seen.k + 1 IN
    [size |-> p.size, k |-> k, count |-> p.seed,
     status |-> IF k >= K THEN "converged" ELSE "budget_exhausted"]

\* The UPDATE finds its own row, whether that is still the last one or not.
Complete(w) ==
    /\ proc[w].at = "complete" /\ proc' = [proc EXCEPT ![w] = Idle]
    /\ latest' = IF author = w THEN Judged(proc[w]) ELSE latest
    /\ UNCHANGED <<yield, trials, author, rows, stale, fired>>

Die(w) ==
    /\ proc[w].at # "idle" /\ (proc[w].at = "complete" => "torn" \in Faults)
    /\ proc' = [proc EXCEPT ![w] = Idle]
    /\ UNCHANGED <<yield, trials, latest, author, rows, stale, fired>>

Next ==
    \/ NextNight \/ Refreeze
    \/ \E w \in Who :
           Begin(w) \/ Evaluate(w) \/ Judge(w) \/ WriteRow(w) \/ Complete(w) \/ Die(w)

Spec == Init /\ [][Next]_vars

-----------------------------------------------------------------------------
SizeUpTo(n) == Cardinality(Frontier({s \in trials : s <= n}))

\* The count of nights without growth is what it says, over nights that died and
\* were repeated and groups that could not be evaluated: the k nights drew k seeds
\* of their own, and the trials of none of them made the front larger.  (Otherwise
\* the search stops although a night had found something.)
StagnationIsReal ==
    LET n == latest.count  k == latest.k IN
    /\ k > 0 => k < n
    /\ \A m \in n - k + 1 .. n : SizeUpTo(m) <= SizeUpTo(m - 1)

\* A search that is over stays over until the data moves: no process that was
\* started before writes another row for it.
ConvergedStays ==
    [][latest.status = "converged" => latest'.status = "converged" \/ latest' = NoRow]_vars

\* A search is not over before K + 1 rows of this snapshot were written: one to
\* compare with and K without growth, whoever wrote them, however many were at work
\* at once, died half way or began from a row that was not complete.
NotOverBefore == latest.status = "converged" => rows = K + 1
=============================================================================
