-------------------------------- MODULE Lake --------------------------------
(***************************************************************************)
(* The daily lake, a_shares_daily.parquet, and the two programs that       *)
(* rewrite it: sync_daily_incremental, which appends the days published    *)
(* since the last one, and repair_gaps --auto, which fills holes.          *)
(*                                                                         *)
(* Each reads the whole file, works on its copy for minutes and replaces   *)
(* the file in the end.  Prices are kept forward adjusted: a row holds the *)
(* raw price times its day's adjustment factor over a later factor, the    *)
(* basis of the row.  A row is abstracted to its basis, 0 for no row; the  *)
(* rows of a symbol form one price series only while their bases agree.    *)
(*                                                                         *)
(* Both take an empty page for the end of a day's rows.  In Faults:        *)
(*   page       a page of a fetch raises;                                  *)
(*   recompute  the history of a symbol cannot be fetched;                 *)
(*   halt       a company does not trade on a day;                         *)
(*   exlost     ... not even on its ex-date, or its row is cut off;        *)
(*   noadj      a sync has not the factors of d0 and of the calendar day:  *)
(*              that one is no trading day, or a page was empty;           *)
(*   thin       pages of a repair come back empty;                         *)
(*   down       the server is killed;                                      *)
(*   overlap    the server that starts syncs while others are at work.     *)
(***************************************************************************)
EXTENDS Integers, FiniteSets, FiniteSetsExt

CONSTANTS
    Sym,      \* each a share of the market that nine tenths of a day cannot miss
    Firm,     \* ... but for these: single companies, which may halt or go ex
    MaxDay,   \* bound: trading days
    MaxCuts,  \* bound: days whose rows arrive cut short
    Faults    \* which of the above happen

ASSUME LakeAssumption ==
    /\ IsFiniteSet(Sym) /\ Firm \subseteq Sym
    /\ MaxDay \in Nat /\ MaxDay >= 2 /\ MaxCuts \in Nat
    /\ Faults \subseteq
         {"page", "recompute", "halt", "exlost", "noadj", "thin", "down", "overlap"}

VARIABLES
    today,      \* the trading day whose evening it is
    out,        \* Tushare has published it
    ex,         \* per symbol the day on which its factor changes, 0 for not yet
    src,        \* per day the symbols that trade
    cuts,
    lake,       \* the file: per day and symbol the basis, 0 for no row
    pending,    \* pending_recompute.json
    unfillable, \* .repair_unfillable.json, as pairs of day and symbol
    sync,       \* the run of sync_daily_incremental
    repair      \* the run of repair_gaps --auto

lakeVars == <<today, out, ex, src, cuts, lake, pending, unfillable, sync, repair>>

Day    == 1 .. MaxDay
NoPrice == 3    \* the basis of a row whose factor is missing: its prices are NaN
Table  == [Day -> [Sym -> 0 .. NoPrice]]
Factor(s, d) == IF ex[s] # 0 /\ d >= ex[s] THEN 2 ELSE 1    \* adj_factor

Rows(t, d)   == {s \in Sym : t[d][s] # 0}
LastDay(t)   == Max({d \in Day : Rows(t, d) # {}})           \* d0

Idle(empty)  == [at |-> "idle", new |-> empty, failed |-> {}, ok |-> TRUE]
Resting(empty) == [at |-> "idle", new |-> empty, tried |-> {}, got |-> empty]
NoTable == [d \in Day |-> [s \in Sym |-> 0]]

LakeTypeOK ==
    /\ today \in Day /\ out \in BOOLEAN /\ ex \in [Sym -> 0 .. MaxDay]
    /\ src \in [Day -> SUBSET Sym] /\ cuts \in 0 .. MaxCuts
    /\ lake \in Table /\ pending \subseteq Sym /\ unfillable \subseteq Day \X Sym
    /\ sync \in [at : {"idle", "asked", "fetch", "save", "write"}, new : Table,
                 failed : SUBSET Sym, ok : BOOLEAN]
    /\ repair \in [at : {"idle", "fetch", "mark", "write"}, new : Table,
                   tried : SUBSET Day, got : Table]
    /\ \A d \in Day : d > today => Rows(lake, d) = {} /\ Rows(sync.new, d) = {}

\* Two days of history; the second may have arrived cut short.
LakeInit ==
    /\ today = 2 /\ out = TRUE /\ ex = [s \in Sym |-> 0] /\ src = [d \in Day |-> Sym]
    /\ pending = {} /\ unfillable = {}
    /\ \E hole \in SUBSET Sym :
         /\ hole # Sym /\ cuts = (IF hole = {} THEN 0 ELSE 1) /\ cuts <= MaxCuts
         /\ lake = [d \in Day |-> [s \in Sym |-> IF d = 1 \/ (d = 2 /\ s \notin hole)
                                                 THEN 1 ELSE 0]]
    /\ sync = Idle(NoTable) /\ repair = Resting(NoTable)

(***************************************************************************)
(* The market and Tushare.                                                 *)
(***************************************************************************)
Dawn ==
    /\ today < MaxDay /\ today' = today + 1 /\ out' = FALSE
    /\ \E X \in SUBSET {s \in Firm : ex[s] = 0}, H \in SUBSET Firm :
         /\ "halt" \in Faults \/ H = {}
         /\ "exlost" \in Faults \/ X \cap H = {}
         /\ ex' = [s \in Sym |-> IF s \in X THEN today + 1 ELSE ex[s]]
         /\ src' = [src EXCEPT ![today + 1] = Sym \ H]
    /\ UNCHANGED <<cuts, lake, pending, unfillable, sync, repair>>

Publish ==
    /\ ~out /\ out' = TRUE
    /\ UNCHANGED <<today, ex, src, cuts, lake, pending, unfillable, sync, repair>>

(***************************************************************************)
(* sync_daily_incremental.                                                 *)
(***************************************************************************)
SyncDone(ok) == sync' = [Idle(NoTable) EXCEPT !.ok = ok]

SyncRead ==
    /\ sync.at = "asked"
    /\ IF LastDay(lake) = today
       THEN SyncDone(TRUE)                       \* nothing to sync, however little it has
       ELSE sync' = [sync EXCEPT !.at = "fetch", !.new = lake]
    /\ UNCHANGED <<today, out, ex, src, cuts, lake, pending, unfillable, repair>>

\* A page that fails raises; rows without a factor raise too: nothing is written.
SyncFails ==
    /\ sync.at = "fetch" /\ "page" \in Faults /\ SyncDone(FALSE)
    /\ UNCHANGED <<today, out, ex, src, cuts, lake, pending, unfillable, repair>>

\* An answer without rows ends the run well.
SyncEmpty ==
    /\ sync.at = "fetch" /\ ~out /\ LastDay(sync.new) = today - 1 /\ SyncDone(TRUE)
    /\ UNCHANGED <<today, out, ex, src, cuts, lake, pending, unfillable, repair>>

Known(d) == IF d = today /\ ~out THEN {} ELSE src[d]      \* what Tushare has of a day

\* An empty page is taken for the last one: the day may come cut short.
Cut(lost) ==
    \/ lost = {}
    \/ /\ cuts < MaxCuts /\ out /\ lost # src[today] /\ lost \subseteq src[today]
       /\ "exlost" \in Faults \/ \A s \in lost : ex[s] # today

Traded(s, D) == {d \in D : s \in Known(d)}

\* The new rows, on the basis of the symbol's last day among them.
Appended(t, window, lost) ==
    [d \in Day |-> [s \in Sym |->
        IF d \in window /\ s \in Known(d) /\ ~(d = today /\ s \in lost)
        THEN Factor(s, Max(Traded(s, window) \ (IF s \in lost THEN {today} ELSE {})))
        ELSE t[d][s]]]

\* Variant: the history is asked for without an end.
HistoryUnbounded(s) == Traded(s, Day)

History(s) == Traded(s, 1 .. today)

\* _recompute_symbol: the whole history of the symbol on one basis.
Recomputed(t, done) ==
    [d \in Day |-> [s \in Sym |->
        IF s \notin done THEN t[d][s]
        ELSE IF d \in History(s) THEN Factor(s, Max(History(s))) ELSE 0]]

\* Variant: the first of the new days stands for d0.
DividedSince(window, lost, seen) ==
    {s \in seen : /\ Factor(s, Min(window)) # Factor(s, today)
                  /\ Traded(s, window) \ (IF s \in lost THEN {today} ELSE {}) # {}}

\* div_syms: the symbol has a new row, and its factors of d0 and of the calendar day
\* are there and differ.
Divided(window, lost, seen) ==
    {s \in seen : /\ Factor(s, Min(window) - 1) # Factor(s, today)
                  /\ Traded(s, window) \ (IF s \in lost THEN {today} ELSE {}) # {}}

ToRecompute(window, lost, seen) == Divided(window, lost, seen) \cup pending  \* div_effective

SyncFetch ==
    /\ sync.at = "fetch"
    /\ LET window == LastDay(sync.new) + 1 .. today IN
       /\ \E d \in window : Known(d) # {}
       /\ \E lost \in SUBSET Sym, seen \in SUBSET Sym :
            /\ Cut(lost) /\ cuts' = cuts + (IF lost = {} THEN 0 ELSE 1)
            /\ "noadj" \in Faults \/ seen = Sym
            /\ LET redo == ToRecompute(window, lost, seen) IN
               \E failed \in SUBSET redo :
                 /\ "recompute" \in Faults \/ failed = {}
                 /\ sync' = [sync EXCEPT
                      !.at = IF redo = {} THEN "write" ELSE "save",
                      !.new = Recomputed(Appended(sync.new, window, lost), redo \ failed),
                      !.failed = failed]
    /\ UNCHANGED <<today, out, ex, src, lake, pending, unfillable, repair>>

\* Variant: a symbol is tried again once.
SidecarOnce == sync.failed \ pending

Sidecar == sync.failed

\* The sidecar is written before the lake.
SyncSave ==
    /\ sync.at = "save" /\ pending' = Sidecar /\ sync' = [sync EXCEPT !.at = "write"]
    /\ UNCHANGED <<today, out, ex, src, cuts, lake, unfillable, repair>>

\* safe_overwrite: a day or two of thousands pass its guard on the number of rows.
SyncWrite ==
    /\ sync.at = "write" /\ lake' = sync.new /\ SyncDone(TRUE)
    /\ UNCHANGED <<today, out, ex, src, cuts, pending, unfillable, repair>>

SyncStep == SyncRead \/ SyncFails \/ SyncEmpty \/ SyncFetch \/ SyncSave \/ SyncWrite

(***************************************************************************)
(* scan_integrity and repair_gaps --auto.                                  *)
(***************************************************************************)
\* A hole lies between two rows of its symbol.  (suspend_d.parquet, which
\* explains some, is taken to explain none.)
Gaps(t) ==
    {g \in Day \X Sym :
        /\ t[g[1]][g[2]] = 0 /\ g \notin unfillable
        /\ \E d, e \in Day : d < g[1] /\ g[1] < e /\ t[d][g[2]] # 0 /\ t[e][g[2]] # 0}

\* The rows that came, on the basis of the symbol's last factor among them.
Fetched(came, factors) ==
    [d \in Day |-> [s \in Sym |->
        IF <<d, s>> \notin came THEN 0
        ELSE IF <<d, s>> \notin factors THEN NoPrice
        ELSE Factor(s, Max({e \in Day : <<e, s>> \in came \cap factors}))]]

\* Variant: every row of a gap's symbol is rebuilt, present or not.
FilledWhole(t, got) ==
    [d \in Day |-> [s \in Sym |->
        IF got[d][s] # 0 /\ (\E g \in Gaps(t) : g[2] = s) THEN got[d][s] ELSE t[d][s]]]

\* Only the missing rows come in.
Filled(t, got) ==
    [d \in Day |-> [s \in Sym |->
        IF got[d][s] # 0 /\ <<d, s>> \in Gaps(t) THEN got[d][s] ELSE t[d][s]]]

RepairSpawn ==
    repair' = IF Gaps(lake) = {} THEN repair
              ELSE [repair EXCEPT !.at = "fetch", !.new = lake]

\* What pages that may be empty bring of the rows, or of their factors.
Pages(rows) == IF "thin" \in Faults THEN SUBSET rows ELSE {rows}

Offered(D) == {h \in D \X Sym : h[2] \in src[h[1]]}

\* Days are fetched in order; the first that raises, k, ends the fetching.
RepairFetch ==
    /\ repair.at = "fetch"
    /\ LET days == {g[1] : g \in Gaps(repair.new)} IN
       \E k \in days \cup {MaxDay + 1} :
         LET tried == {d \in days : d < k} IN
         \E came \in Pages(Offered(tried)), factors \in Pages(Offered(tried)) :
           /\ "page" \in Faults \/ k = MaxDay + 1
           /\ came # {} => factors # {}
           /\ repair' = [repair EXCEPT !.at = "mark", !.tried = tried,
                                       !.got = Fetched(came, factors)]
    /\ UNCHANGED <<today, out, ex, src, cuts, lake, pending, unfillable, sync>>

\* Rows without any factor, or no connection at all: the run raises.
RepairFails ==
    /\ repair.at = "fetch" /\ {"page", "thin"} \cap Faults # {}
    /\ repair' = Resting(NoTable)
    /\ UNCHANGED <<today, out, ex, src, cuts, lake, pending, unfillable, sync>>

\* _mark_unfillable: the tried days of a run of missing days none of which has a row.
RunOf(g) == {h \in Gaps(repair.new) :
                /\ h[2] = g[2]
                /\ \A d \in Day : (g[1] <= d /\ d <= h[1]) \/ (h[1] <= d /\ d <= g[1])
                                  => <<d, g[2]>> \in Gaps(repair.new)}

Came(h) == repair.got[h[1]][h[2]] # 0

\* Variant: days not tried count as days without a row.
BarrenSoFar == {g \in Gaps(repair.new) : \A h \in RunOf(g) : ~Came(h)}

Barren == {g \in Gaps(repair.new) :
              g[1] \in repair.tried /\ \A h \in RunOf(g) : ~Came(h)}

RepairMark ==
    /\ repair.at = "mark" /\ unfillable' = unfillable \cup Barren
    /\ repair' = [repair EXCEPT !.at = "write", !.new = Filled(repair.new, repair.got)]
    /\ UNCHANGED <<today, out, ex, src, cuts, lake, pending, sync>>

RepairWrite ==
    /\ repair.at = "write" /\ lake' = repair.new /\ repair' = Resting(NoTable)
    /\ UNCHANGED <<today, out, ex, src, cuts, pending, unfillable, sync>>

RepairStep == RepairFetch \/ RepairFails \/ RepairMark \/ RepairWrite

(***************************************************************************)
(* freshness.check_freshness.                                              *)
(***************************************************************************)
Bulk(t, d) == Rows(t, d) \ Firm

\* Variant: the date of the last row is enough.
FreshByDate(t) == LastDay(t) = today

\* Nine tenths of the day before.
Fresh(t) == /\ LastDay(t) = today
            /\ Cardinality(Bulk(t, today)) >= Cardinality(Bulk(t, today - 1))

(***************************************************************************)
(* Properties.                                                             *)
(***************************************************************************)
Mixed(t, s) == \E d, e \in Day : t[d][s] # 0 /\ t[e][s] # 0 /\ t[d][s] # t[e][s]

\* The rows of a symbol share their basis, or the symbol waits in the sidecar: a
\* dividend leaves no cliff in the history that nobody will mend
\* (sync_daily_incremental, steps 4 and 6).  While a run is about to write, its
\* table counts for the lake.
OneBasis ==
    \A s \in Sym : Mixed(lake, s) =>
        \/ s \in pending
        \/ sync.at = "write" /\ ~Mixed(sync.new, s)

\* Only a row that the market does not have is given up (_mark_unfillable): a
\* fetch that is broken off condemns no gap, nor does what was never asked for.  (An
\* empty page does: "Divergences" in the README.)
UnfillableIsEmpty == \A g \in unfillable : g[2] \notin src[g[1]]

-----------------------------------------------------------------------------
(***************************************************************************)
(* What the code does not keep ("Divergences" in the README, with the      *)
(* constants under which TLC shows it).                                    *)
(***************************************************************************)
\* No row comes into the file with prices that are not numbers: a row whose factor is
\* missing stays out, in the sync and in the repair alike.
PricesAreThere == \A d \in Day, s \in Sym : lake[d][s] # NoPrice
=============================================================================
