--------------------------- MODULE EveningProofs ---------------------------
(***************************************************************************)
(* Proofs about Evening, for every market, every number of days and every  *)
(* number of days cut short.  Whatever fails and whatever works beside     *)
(* what: types, and, as long as the pages of a repair come whole, the      *)
(* pairs given up.  While the syncs of a starting server come when nothing *)
(* else is at work (Alone): that the evening's own programs never meet,    *)
(* that a repair loses no row, that a series keeps one basis, and that a   *)
(* day called ready is there, each with what else it takes.                *)
(***************************************************************************)
EXTENDS Evening, FiniteSetTheorems, WellFoundedInduction, TLAPS

-----------------------------------------------------------------------------
(***************************************************************************)
(* First and last days.                                                    *)
(***************************************************************************)
LEMMA LeastNat == ASSUME NEW S \in SUBSET Nat, S # {} PROVE \E i \in S : \A j \in S : i <= j
<1> DEFINE R == OpToRel(<, Nat)
<1>1. IsWellFoundedOn(R, Nat)
  BY NatLessThanWellFounded
<1> HIDE DEF R
<1>2. PICK x \in S : \A y \in S : ~ (<<y, x>> \in R)
  BY <1>1, WFMin
<1>3. \A y, z \in Nat : z < y => <<z, y>> \in R
  BY DEF R, OpToRel
<1>4. \A y \in S : ~ (y < x)
  BY <1>2, <1>3
<1> QED
  BY <1>2, <1>4

LEMMA MinIs == ASSUME NEW S \in SUBSET Day, S # {} PROVE Min(S) \in S /\ \A d \in S : Min(S) <= d
<1>1. S \in SUBSET Nat
  BY DEF Day
<1>2. \E i \in S : \A j \in S : i <= j
  BY <1>1, LeastNat
<1> QED
  BY <1>2 DEF Min

LEMMA MaxIs == ASSUME NEW S \in SUBSET Day, S # {} PROVE Max(S) \in S /\ \A d \in S : d <= Max(S)
<1> DEFINE T == {MaxDay - d : d \in S}
<1>0. MaxDay \in Nat
  BY LakeAssumption
<1>1. T \in SUBSET Nat /\ T # {}
  <2>1. \A d \in S : MaxDay - d \in Nat
    BY <1>0 DEF Day
  <2> QED
    BY <2>1
<1>2. PICK i \in T : \A j \in T : i <= j
  BY <1>1, LeastNat
<1>3. PICK d \in S : i = MaxDay - d
  BY <1>2
<1>4. \A e \in S : d >= e
  <2> SUFFICES ASSUME NEW e \in S PROVE d >= e
    OBVIOUS
  <2>1. i <= MaxDay - e
    BY <1>2
  <2> QED
    BY <2>1, <1>0, <1>3 DEF Day
<1>5. \E x \in S : \A y \in S : x >= y
  BY <1>4
<1>6. Max(S) \in S /\ \A y \in S : Max(S) >= y
  BY <1>5 DEF Max
<1> QED
  BY <1>6 DEF Day
-----------------------------------------------------------------------------
(***************************************************************************)
(* Types.                                                                  *)
(***************************************************************************)
\* A copy of the file has no row of a day to come.
TypeInv == TypeOK /\ \A d \in Day : d > today => Rows(repair.new, d) = {}

Syncs == [at : {"idle", "asked", "fetch", "save", "write"}, new : Table,
          failed : SUBSET Sym, ok : BOOLEAN]
Repairs == [at : {"idle", "fetch", "mark", "write"}, new : Table, tried : SUBSET Day,
            got : Table]

LEMMA FactorIs == \A s, d : Factor(s, d) \in {1, 2}
BY DEF Factor

LEMMA NothingIsTable == NoTable \in Table /\ Idle(NoTable) \in Syncs /\ Resting(NoTable) \in Repairs
<1>1. NoTable \in Table
  BY DEF NoTable, Table, NoPrice
<1> QED
  BY <1>1 DEF Idle, Resting, Syncs, Repairs

LEMMA SyncSet ==
  ASSUME NEW r \in Syncs, NEW a \in {"idle", "asked", "fetch", "save", "write"},
         NEW t \in Table, NEW F \in SUBSET Sym
  PROVE  /\ [r EXCEPT !.at = a, !.new = t, !.failed = F] \in Syncs
         /\ [r EXCEPT !.at = a, !.new = t, !.failed = F].new = t
         /\ [r EXCEPT !.at = a, !.new = t] \in Syncs
         /\ [r EXCEPT !.at = a, !.new = t].new = t
BY DEF Syncs

LEMMA SyncOver ==
  ASSUME SyncDone(TRUE) \/ SyncDone(FALSE)
  PROVE  sync' \in Syncs /\ sync'.new = NoTable /\ sync'.at = "idle" /\ sync'.failed = {}
BY NothingIsTable DEF SyncDone, Idle, Syncs

LEMMA SyncReads ==
  ASSUME SyncRead
  PROVE  \/ SyncDone(TRUE)
         \/ LastDay(lake) # today /\ sync' = [sync EXCEPT !.at = "fetch", !.new = lake]
BY DEF SyncRead

LEMMA AppendedIsTable ==
  ASSUME NEW t \in Table, NEW window, NEW lost
  PROVE  Appended(t, window, lost) \in Table
BY FactorIs DEF Table, Appended, NoPrice

LEMMA RecomputedIsTable ==
  ASSUME NEW t \in Table, NEW done
  PROVE  Recomputed(t, done) \in Table
BY FactorIs DEF Table, Recomputed, NoPrice

LEMMA FetchedIsTable == \A came, factors : Fetched(came, factors) \in Table
BY FactorIs DEF Table, Fetched, NoPrice

LEMMA FilledIsTable ==
  ASSUME NEW t \in Table, NEW got \in Table
  PROVE  Filled(t, got) \in Table
BY DEF Table, Filled

LEMMA RowIn == ASSUME NEW t, NEW d, NEW s \in Sym PROVE s \in Rows(t, d) <=> t[d][s] # 0
BY DEF Rows

(***************************************************************************)
(* What a step of the evening does to the lake, whatever else is at work.  *)
(***************************************************************************)
Rest == <<today, out, ex, src, cuts, lake, pending, unfillable>>

Quiet == sync.at = "idle" /\ repair.at = "idle"
Asked == Ask /\ UNCHANGED <<Rest, repair>>
Spawned == RepairSpawn /\ UNCHANGED <<Rest, sync>>

AnyMove ==
    \/ Quiet /\ Dawn
    \/ Asked \/ Spawned \/ Publish \/ SyncStep \/ RepairStep \/ UNCHANGED lakeVars

\* The sync that a starting server begins beside the others.
BootAsked == boot' = [boot EXCEPT !.at = "asked"] /\ UNCHANGED lakeVars
BootMove == Boot!SyncStep /\ UNCHANGED sync

LEMMA AnyMoves == [Next]_vars => (AnyMove /\ UNCHANGED boot) \/ BootAsked \/ BootMove
<1> SUFFICES ASSUME [Next]_vars PROVE (AnyMove /\ UNCHANGED boot) \/ BootAsked \/ BootMove
  OBVIOUS
<1> USE DEF AnyMove, Rest, lakeVars
<1>1. CASE NextDay BY <1>1 DEF NextDay, Quiet
<1>2. CASE Deadline BY <1>2 DEF Deadline
<1>3. CASE Market BY <1>3 DEF Market, chainVars
<1>4. CASE Begin BY <1>4 DEF Begin, Asked
<1>5. CASE Collected BY <1>5 DEF Collected
<1>6. CASE Verify BY <1>6 DEF Verify, Spawned
<1>7. CASE Brief BY <1>7 DEF Brief
<1>8. CASE Close BY <1>8 DEF Close
<1>9. CASE PipeCollected BY <1>9 DEF PipeCollected
<1>10. CASE Check BY <1>10 DEF Check, Asked
<1>11. CASE PipeAgain BY <1>11 DEF PipeAgain
<1>12. CASE PipeOrphan BY <1>12 DEF PipeOrphan
<1>13. CASE Kill BY <1>13 DEF Kill
<1>14. CASE Restart BY <1>14 DEF Restart, Asked, BootAsked
<1>15. CASE Work BY <1>15 DEF Work, chainVars
<1>16. CASE BootWork BY <1>16 DEF BootWork, BootMove
<1>17. CASE UNCHANGED vars BY <1>17 DEF vars, chainVars
<1> QED
  BY <1>1, <1>2, <1>3, <1>4, <1>5, <1>6, <1>7, <1>8, <1>9, <1>10, <1>11, <1>12, <1>13,
     <1>14, <1>15, <1>16, <1>17 DEF Next, ChainStep, PipeStep

LEMMA SyncOnly == SyncStep => sync.at # "idle" /\ UNCHANGED <<repair, today, ex, src, unfillable>>
BY DEF SyncStep, SyncRead, SyncFails, SyncEmpty, SyncFetch, SyncSave, SyncWrite

LEMMA RepairOnly == RepairStep => repair.at # "idle" /\ UNCHANGED <<sync, today, ex, src, pending>>
BY DEF RepairStep, RepairFetch, RepairFails, RepairMark, RepairWrite

(***************************************************************************)
(* The operators of the other sync are those of the chain's.               *)
(***************************************************************************)
LEMMA BootTables ==
  /\ Boot!Day = Day /\ Boot!Table = Table /\ Boot!NoPrice = NoPrice /\ Boot!NoTable = NoTable
  /\ \A S : Boot!Max(S) = Max(S) /\ Boot!Min(S) = Min(S)
  /\ \A s, d : Boot!Factor(s, d) = Factor(s, d)
  /\ \A t, d : Boot!Rows(t, d) = Rows(t, d)
BY DEF Boot!Day, Day, Boot!Table, Table, Boot!NoPrice, NoPrice, Boot!NoTable, NoTable,
   Boot!Max, Max, Boot!Min, Min, Boot!Factor, Factor, Boot!Rows, Rows

LEMMA BootTrades == \A s, D : Boot!Traded(s, D) = Traded(s, D)
<1>1. \A d : Boot!Known(d) = Known(d)
  BY DEF Boot!Known, Known
<1> QED
  BY <1>1 DEF Boot!Traded, Traded

LEMMA BootAppends == \A t, w, l : Boot!Appended(t, w, l) = Appended(t, w, l)
<1>1. \A d : Boot!Known(d) = Known(d)
  BY DEF Boot!Known, Known
<1> QED
  BY <1>1, BootTables, BootTrades DEF Boot!Appended, Appended

LEMMA BootRecomputes == \A t, D : Boot!Recomputed(t, D) = Recomputed(t, D)
BY BootTables, BootTrades DEF Boot!Recomputed, Recomputed, Boot!History, History

LEMMA BootTypeIs ==
  LakeTypeOK => (Boot!LakeTypeOK <=>
                   boot \in Syncs /\ \A d \in Day : d > today => Rows(boot.new, d) = {})
BY BootTables DEF LakeTypeOK, Boot!LakeTypeOK, Syncs

-----------------------------------------------------------------------------
LEMMA TypeInit == Init => TypeInv
<1> SUFFICES ASSUME Init PROVE TypeInv
  OBVIOUS
<1> USE LakeAssumption, NothingIsTable DEF Init, LakeInit
<1>1. lake \in Table /\ cuts \in 0 .. MaxCuts
  BY DEF Table, NoPrice
<1>2. sync \in Syncs /\ repair \in Repairs /\ sync.new = NoTable /\ repair.new = NoTable
  BY DEF Idle, Resting
<1>3. \A d \in Day : d > today => Rows(lake, d) = {} /\ Rows(NoTable, d) = {}
  BY DEF Rows, NoTable, Day
<1>4. /\ today \in Day /\ out \in BOOLEAN /\ ex \in [Sym -> 0 .. MaxDay]
      /\ src \in [Day -> SUBSET Sym] /\ pending \subseteq Sym /\ unfillable \subseteq Day \X Sym
  BY DEF Day
<1>5. LakeTypeOK
  BY <1>1, <1>2, <1>3, <1>4 DEF LakeTypeOK, Syncs, Repairs
<1> QED
  BY <1>2, <1>3, <1>5, BootTypeIs, NothingIsTable DEF TypeInv, TypeOK, Idle


\* A row that is filled in fills a hole.
LEMMA FilledRows ==
  ASSUME NEW t \in Table, NEW got, NEW d \in Day, NEW s \in Sym, Filled(t, got)[d][s] # t[d][s]
  PROVE  /\ t[d][s] = 0 /\ got[d][s] # 0 /\ Filled(t, got)[d][s] = got[d][s]
         /\ <<d, s>> \in Gaps(t)
BY DEF Filled, Gaps


LEMMA RecomputedRows ==
  ASSUME NEW t, NEW done, NEW d \in Day, NEW s \in Sym
  PROVE  /\ s \notin done => Recomputed(t, done)[d][s] = t[d][s]
         /\ s \in done => (Recomputed(t, done)[d][s] # 0 <=> d \in History(s))
         /\ s \in done /\ d \in History(s) =>
              Recomputed(t, done)[d][s] = Factor(s, Max(History(s)))
BY FactorIs DEF Recomputed

LEMMA AppendedRows ==
  ASSUME NEW t, NEW window, NEW lost, NEW d \in Day, NEW s \in Sym
  PROVE  /\ d \in window /\ s \in Known(d) /\ ~(d = today /\ s \in lost) =>
              /\ Appended(t, window, lost)[d][s] # 0
              /\ Appended(t, window, lost)[d][s] =
                   Factor(s, Max(Traded(s, window) \ (IF s \in lost THEN {today} ELSE {})))
         /\ ~(d \in window /\ s \in Known(d) /\ ~(d = today /\ s \in lost)) =>
              Appended(t, window, lost)[d][s] = t[d][s]
BY FactorIs DEF Appended

\* What is not known yet stays out.
LEMMA NoneAhead ==
  ASSUME NEW t \in Table, today \in Int, \A d \in Day, s \in Sym : d > today => t[d][s] = 0,
         NEW got, NEW d \in Day, NEW s \in Sym, d > today
  PROVE  Filled(t, got)[d][s] = 0
<1>0. t[d][s] = 0 /\ d \in Int
  BY DEF Day
<1> SUFFICES ASSUME Filled(t, got)[d][s] # t[d][s] PROVE FALSE
  BY <1>0
<1>1. <<d, s>> \in Gaps(t)
  BY FilledRows
<1>2. PICK e \in Day : d < e /\ t[e][s] # 0
  BY <1>1 DEF Gaps
<1>3. e > today
  BY <1>0, <1>2 DEF Day
<1> QED
  BY <1>2, <1>3

LEMMA NoneFetchedAhead ==
  ASSUME NEW t \in Table, today \in Int, \A d \in Day, s \in Sym : d > today => t[d][s] = 0,
         NEW a, NEW lost, NEW done, NEW d \in Day, NEW s \in Sym, d > today
  PROVE  Recomputed(Appended(t, a .. today, lost), done)[d][s] = 0
<1>0. t[d][s] = 0 /\ d \in Int
  BY DEF Day
<1>1. d \notin a .. today /\ d \notin History(s)
  BY DEF Day, History, Traded
<1>2. Appended(t, a .. today, lost)[d][s] = 0
  BY <1>0, <1>1 DEF Appended
<1> QED
  BY <1>1, <1>2 DEF Recomputed


\* SyncFetch, with its choices.
Fetches(lost, seen, failed, a) ==
    LET window == LastDay(sync.new) + 1 .. today
        redo   == ToRecompute(window, lost, seen)
    IN  /\ failed \in SUBSET redo /\ a \in {"save", "write"}
        /\ Cut(lost) /\ cuts' = cuts + (IF lost = {} THEN 0 ELSE 1)
        /\ "noadj" \in Faults \/ seen = Sym
        /\ a = "write" => redo = {}
        /\ sync' = [sync EXCEPT !.at = a,
             !.new = Recomputed(Appended(sync.new, window, lost), redo \ failed),
             !.failed = failed]

LEMMA SyncFetches ==
  ASSUME SyncFetch
  PROVE  /\ sync.at = "fetch" /\ \E d \in LastDay(sync.new) + 1 .. today : Known(d) # {}
         /\ \E lost \in SUBSET Sym, seen \in SUBSET Sym :
              \E failed, a : Fetches(lost, seen, failed, a)
BY DEF SyncFetch, Fetches

LEMMA RedoIs == TypeInv => \A w, l : \A e \in SUBSET Sym : ToRecompute(w, l, e) \subseteq Sym
BY DEF ToRecompute, Divided, TypeInv, TypeOK, LakeTypeOK

\* What a repair has fetched, and the table it makes of it.
LEMMA RepairFetches ==
  ASSUME RepairFetch
  PROVE  /\ repair.at = "fetch" /\ UNCHANGED <<Rest, sync>>
         /\ \E D \in SUBSET {g[1] : g \in Gaps(repair.new)} :
            \E came \in Pages(Offered(D)), factors \in Pages(Offered(D)) :
              repair' = [repair EXCEPT !.at = "mark", !.tried = D, !.got = Fetched(came, factors)]
<1> DEFINE days == {g[1] : g \in Gaps(repair.new)}
<1>1. PICK k \in days \cup {MaxDay + 1} :
         \E came \in Pages(Offered({d \in days : d < k})),
            factors \in Pages(Offered({d \in days : d < k})) :
            repair' = [repair EXCEPT !.at = "mark", !.tried = {d \in days : d < k},
                                     !.got = Fetched(came, factors)]
  BY DEF RepairFetch
<1>2. PICK D \in SUBSET days : D = {d \in days : d < k}
  OBVIOUS
<1> QED
  BY <1>1, <1>2 DEF RepairFetch, Rest

LEMMA LakeTypeStep ==
  ASSUME LakeTypeOK, \A d \in Day : d > today => Rows(repair.new, d) = {}, AnyMove
  PROVE  LakeTypeOK' /\ (\A d \in Day : d > today => Rows(repair.new, d) = {})'
<1> USE LakeAssumption, NothingIsTable DEF LakeTypeOK
<1>a. sync \in Syncs /\ repair \in Repairs
  BY DEF Syncs, Repairs
<1>b. ASSUME /\ sync' \in Syncs /\ repair' \in Repairs
             /\ today' = today /\ out' \in BOOLEAN /\ ex' = ex /\ src' = src
             /\ cuts' \in 0 .. MaxCuts /\ lake' \in Table /\ pending' \subseteq Sym
             /\ unfillable' \subseteq Day \X Sym
             /\ \A d \in Day, s \in Sym : d > today =>
                  lake'[d][s] = 0 /\ sync'.new[d][s] = 0 /\ repair'.new[d][s] = 0
      PROVE  LakeTypeOK' /\ (\A d \in Day : d > today => Rows(repair.new, d) = {})'
  BY <1>b DEF Syncs, Repairs, Rows
<1>c. \A d \in Day, s \in Sym : d > today =>
         lake[d][s] = 0 /\ sync.new[d][s] = 0 /\ repair.new[d][s] = 0 /\ NoTable[d][s] = 0
  BY DEF Rows, NoTable
<1>1. CASE Quiet /\ Dawn
  <2>1. /\ today' = today + 1 /\ out' = FALSE /\ today' \in Day
        /\ ex' \in [Sym -> 0 .. MaxDay] /\ src' \in [Day -> SUBSET Sym]
    BY <1>1 DEF Dawn, Day
  <2>2. UNCHANGED <<cuts, lake, pending, unfillable, sync, repair>>
    BY <1>1 DEF Dawn
  <2>3. \A d \in Day : d > today' => d > today
    BY <2>1 DEF Day
  <2> QED
    BY <2>1, <2>2, <2>3 DEF Rows
<1>2. CASE Asked
  BY <1>2, <1>a, <1>b, <1>c, ZenonT(40) DEF Asked, Ask, Rest, Idle, Syncs
<1>3. CASE Spawned
  BY <1>3, <1>a, <1>b, <1>c DEF Spawned, RepairSpawn, Rest, Repairs
<1>4. CASE Publish
  BY <1>4, <1>a, <1>b, <1>c DEF Publish
<1>5. CASE SyncRead
  <2>1. sync' \in Syncs /\ sync'.new \in {NoTable, lake}
    <3>1. CASE SyncDone(TRUE)
      BY <3>1, SyncOver
    <3>2. CASE sync' = [sync EXCEPT !.at = "fetch", !.new = lake]
      BY <3>2, <1>a DEF Syncs
    <3> QED
      BY <1>5, <3>1, <3>2, SyncReads
  <2>2. UNCHANGED <<today, out, ex, src, cuts, lake, pending, unfillable, repair>>
    BY <1>5 DEF SyncRead
  <2> QED
    BY <1>a, <1>b, <1>c, <2>1, <2>2
<1>6. CASE SyncFails
  BY <1>6, <1>a, <1>b, <1>c, SyncOver DEF SyncFails
<1>7. CASE SyncEmpty
  BY <1>7, <1>a, <1>b, <1>c, SyncOver DEF SyncEmpty
<1>8. CASE SyncFetch
  <2> DEFINE window == LastDay(sync.new) + 1 .. today
  <2>f. PICK lost \in SUBSET Sym, seen \in SUBSET Sym :
           \E failed, a : Fetches(lost, seen, failed, a)
    BY <1>8, SyncFetches
  <2>1. PICK failed, a : Fetches(lost, seen, failed, a)
    BY <2>f
  <2>a. /\ failed \in SUBSET ToRecompute(window, lost, seen) /\ a \in {"save", "write"}
        /\ Cut(lost) /\ cuts' = cuts + (IF lost = {} THEN 0 ELSE 1)
        /\ sync' = [sync EXCEPT !.at = a,
             !.new = Recomputed(Appended(sync.new, window, lost),
                                ToRecompute(window, lost, seen) \ failed),
             !.failed = failed]
    BY <2>1 DEF Fetches
  <2> DEFINE all == Recomputed(Appended(sync.new, window, lost),
                               ToRecompute(window, lost, seen) \ failed)
  <2>2. failed \in SUBSET Sym
    BY <2>a DEF ToRecompute, Divided
  <2>3. sync.new \in Table /\ all \in Table
    BY <1>a, AppendedIsTable, RecomputedIsTable DEF Syncs
  <2>4. cuts' \in 0 .. MaxCuts
    BY <2>a DEF Cut
  <2>5. \A d \in Day, s \in Sym : d > today => all[d][s] = 0
    <3>1. today \in Int
      BY DEF Day
    <3>2. \A d \in Day, s \in Sym : d > today => sync.new[d][s] = 0
      BY <1>c
    <3> HIDE DEF LakeTypeOK
    <3> QED
      BY <2>3, <3>1, <3>2, NoneFetchedAhead
  <2>6. sync' = [sync EXCEPT !.at = a, !.new = all, !.failed = failed]
    BY <2>a
  <2> HIDE DEF all, window
  <2>7. sync' \in Syncs /\ sync'.new = all
    BY <1>a, <2>a, <2>2, <2>3, <2>6 DEF Syncs
  <2>8. UNCHANGED <<today, out, ex, src, lake, pending, unfillable, repair>>
    BY <1>8 DEF SyncFetch
  <2> QED
    BY <1>a, <1>b, <1>c, <2>4, <2>5, <2>7, <2>8
<1>9. CASE SyncSave
  BY <1>9, <1>a, <1>b, <1>c DEF SyncSave, Sidecar, Syncs
<1>10. CASE SyncWrite
  BY <1>10, <1>a, <1>b, <1>c, ZenonT(40) DEF SyncWrite, SyncDone, Idle, Syncs
<1>11. CASE RepairFetch
  <2>0. PICK D \in SUBSET {g[1] : g \in Gaps(repair.new)} :
           \E came \in Pages(Offered(D)), factors \in Pages(Offered(D)) :
             repair' = [repair EXCEPT !.at = "mark", !.tried = D, !.got = Fetched(came, factors)]
    BY <1>11, RepairFetches
  <2>1. PICK came \in Pages(Offered(D)), factors \in Pages(Offered(D)) :
           repair' = [repair EXCEPT !.at = "mark", !.tried = D, !.got = Fetched(came, factors)]
    BY <2>0
  <2>2. D \subseteq Day /\ Fetched(came, factors) \in Table
    BY FetchedIsTable DEF Gaps
  <2>3. repair' \in Repairs /\ repair'.new = repair.new
    BY <1>a, <2>1, <2>2 DEF Repairs
  <2>4. UNCHANGED <<today, out, ex, src, cuts, lake, pending, unfillable, sync>>
    BY <1>11 DEF RepairFetch
  <2> QED
    BY <1>a, <1>b, <1>c, <2>3, <2>4
<1>12. CASE RepairMark
  <2> DEFINE all == Filled(repair.new, repair.got)
  <2>1. repair' = [repair EXCEPT !.at = "write", !.new = all]
    BY <1>12 DEF RepairMark
  <2>2. repair.new \in Table /\ repair.got \in Table /\ all \in Table
    BY <1>a, FilledIsTable DEF Repairs
  <2>3. \A d \in Day, s \in Sym : d > today => all[d][s] = 0
    <3>1. today \in Int
      BY DEF Day
    <3>2. \A d \in Day, s \in Sym : d > today => repair.new[d][s] = 0
      BY <1>c
    <3> HIDE DEF LakeTypeOK
    <3> QED
      BY <2>2, <3>1, <3>2, NoneAhead
  <2> HIDE DEF all
  <2>4. repair' \in Repairs /\ repair'.new = all
    BY <1>a, <2>1, <2>2 DEF Repairs
  <2>5. unfillable' \subseteq Day \X Sym
    BY <1>12 DEF RepairMark, Barren, Gaps
  <2>6. UNCHANGED <<today, out, ex, src, cuts, lake, pending, sync>>
    BY <1>12 DEF RepairMark
  <2> QED
    BY <1>a, <1>b, <1>c, <2>3, <2>4, <2>5, <2>6
<1>13. CASE RepairWrite
  BY <1>13, <1>a, <1>b, <1>c DEF RepairWrite, Resting, Repairs
<1>14. CASE RepairFails
  BY <1>14, <1>a, <1>b, <1>c DEF RepairFails, Resting
<1>15. CASE UNCHANGED lakeVars
  BY <1>15, <1>a, <1>b, <1>c DEF lakeVars
<1> QED
  BY <1>1, <1>2, <1>3, <1>4, <1>5, <1>6, <1>7, <1>8, <1>9, <1>10, <1>11, <1>12, <1>13,
     <1>14, <1>15 DEF AnyMove, SyncStep, RepairStep

\* The other sync keeps the types as the chain's does.
LEMMA BootTypeStep ==
  ASSUME TypeInv, Boot!SyncStep
  PROVE  /\ boot' \in Syncs /\ cuts' \in 0 .. MaxCuts /\ lake' \in Table /\ pending' \subseteq Sym
         /\ UNCHANGED <<today, out, ex, src, unfillable, repair>>
         /\ \A d \in Day, s \in Sym : d > today => lake'[d][s] = 0 /\ boot'.new[d][s] = 0
<1> USE LakeAssumption, NothingIsTable, BootTables
<1>a. /\ boot \in Syncs /\ lake \in Table /\ cuts \in 0 .. MaxCuts /\ pending \subseteq Sym
      /\ \A d \in Day, s \in Sym : d > today =>
            lake[d][s] = 0 /\ boot.new[d][s] = 0 /\ NoTable[d][s] = 0
  BY BootTypeIs DEF TypeInv, TypeOK, LakeTypeOK, Rows, NoTable
<1>d. ASSUME Boot!SyncDone(TRUE) \/ Boot!SyncDone(FALSE)
      PROVE  boot' \in Syncs /\ boot'.new = NoTable
  BY <1>d DEF Boot!SyncDone, Boot!Idle, Idle, Syncs
<1>1. CASE Boot!SyncRead
  <2>1. boot' \in Syncs /\ boot'.new \in {NoTable, lake}
    <3>1. CASE Boot!SyncDone(TRUE)
      BY <3>1, <1>d
    <3>2. CASE boot' = [boot EXCEPT !.at = "fetch", !.new = lake]
      BY <3>2, <1>a DEF Syncs
    <3> QED
      BY <1>1, <3>1, <3>2 DEF Boot!SyncRead
  <2> QED
    BY <1>1, <1>a, <2>1 DEF Boot!SyncRead
<1>2. CASE Boot!SyncFails
  BY <1>2, <1>a, <1>d DEF Boot!SyncFails
<1>3. CASE Boot!SyncEmpty
  BY <1>3, <1>a, <1>d DEF Boot!SyncEmpty
<1>4. CASE Boot!SyncFetch
  <2>0. PICK L : L = Boot!LastDay(boot.new)
    OBVIOUS
  <2>1. PICK lost \in SUBSET Sym, seen \in SUBSET Sym :
           \E failed \in SUBSET Boot!ToRecompute(L + 1 .. today, lost, seen), a \in {"save", "write"} :
             /\ Boot!Cut(lost) /\ cuts' = cuts + (IF lost = {} THEN 0 ELSE 1)
             /\ boot' = [boot EXCEPT !.at = a,
                  !.new = Boot!Recomputed(Boot!Appended(boot.new, L + 1 .. today, lost),
                                     Boot!ToRecompute(L + 1 .. today, lost, seen) \ failed),
                  !.failed = failed]
    BY <1>4, <2>0, Zenon DEF Boot!SyncFetch
  <2>f. PICK done :
           \E failed \in SUBSET Boot!ToRecompute(L + 1 .. today, lost, seen), a \in {"save", "write"} :
             /\ Boot!Cut(lost) /\ cuts' = cuts + (IF lost = {} THEN 0 ELSE 1)
             /\ boot' = [boot EXCEPT !.at = a,
                  !.new = Recomputed(Appended(boot.new, L + 1 .. today, lost), done),
                  !.failed = failed]
    BY <2>1, BootAppends, BootRecomputes
  <2>2. PICK failed \in SUBSET Boot!ToRecompute(L + 1 .. today, lost, seen), a \in {"save", "write"} :
             /\ Boot!Cut(lost) /\ cuts' = cuts + (IF lost = {} THEN 0 ELSE 1)
             /\ boot' = [boot EXCEPT !.at = a,
                  !.new = Recomputed(Appended(boot.new, L + 1 .. today, lost), done),
                  !.failed = failed]
    BY <2>f
  <2> DEFINE all == Recomputed(Appended(boot.new, L + 1 .. today, lost), done)
  <2>3. failed \in SUBSET Sym
    BY <1>a DEF Boot!ToRecompute, Boot!Divided
  <2>4. boot.new \in Table /\ all \in Table
    BY <1>a, AppendedIsTable, RecomputedIsTable DEF Syncs
  <2>5. cuts' \in 0 .. MaxCuts
    BY <1>a, <2>2 DEF Boot!Cut
  <2>6. \A d \in Day, s \in Sym : d > today => all[d][s] = 0
    <3>1. today \in Int
      BY DEF TypeInv, TypeOK, LakeTypeOK, Day
    <3> QED
      BY <1>a, <2>4, <3>1, NoneFetchedAhead
  <2>7. boot' = [boot EXCEPT !.at = a, !.new = all, !.failed = failed]
    BY <2>2
  <2> HIDE DEF all
  <2>8. boot' \in Syncs /\ boot'.new = all
    BY <1>a, <2>3, <2>4, <2>7 DEF Syncs
  <2>9. UNCHANGED <<today, out, ex, src, lake, pending, unfillable, repair>>
    BY <1>4 DEF Boot!SyncFetch
  <2> QED
    BY <1>a, <2>5, <2>6, <2>8, <2>9
<1>5. CASE Boot!SyncSave
  BY <1>5, <1>a DEF Boot!SyncSave, Boot!Sidecar, Syncs
<1>6. CASE Boot!SyncWrite
  <2>1. lake' = boot.new /\ boot.new \in Table
    BY <1>6, <1>a DEF Boot!SyncWrite, Syncs
  <2> QED
    BY <1>6, <1>a, <1>d, <2>1 DEF Boot!SyncWrite
<1> QED
  BY <1>1, <1>2, <1>3, <1>4, <1>5, <1>6 DEF Boot!SyncStep

LEMMA BootStays ==
  ASSUME TypeInv, AnyMove, UNCHANGED boot,
         LakeTypeOK', (\A d \in Day : d > today => Rows(repair.new, d) = {})'
  PROVE  Boot!LakeTypeOK'
<1>1. boot' \in Syncs /\ \A d \in Day : d > today => Rows(boot.new, d) = {}
  BY BootTypeIs DEF TypeInv, TypeOK
<1>2. \A d \in Day : d > today' => d > today
  <2>1. today \in Int /\ (today' = today \/ today' = today + 1)
    BY SyncOnly, RepairOnly DEF AnyMove, Dawn, Asked, Spawned, Publish, Rest, lakeVars, TypeInv, TypeOK,
       LakeTypeOK, Day
  <2> QED
    BY <2>1 DEF Day
<1>3. \A d \in Day : d > today' => Rows(boot'.new, d) = {}
  BY <1>1, <1>2
<1>4. LakeTypeOK' => (Boot!LakeTypeOK' <=>
                   boot' \in Syncs /\ \A d \in Day : d > today' => Rows(boot'.new, d) = {})
  BY BootTables DEF LakeTypeOK, Boot!LakeTypeOK, Syncs
<1> QED
  BY <1>1, <1>3, <1>4

LEMMA TypeStep == TypeInv /\ [Next]_vars => TypeInv'
<1> SUFFICES ASSUME TypeInv, [Next]_vars PROVE TypeInv'
  OBVIOUS
<1> DEFINE Ahead == \A d \in Day : d > today => Rows(repair.new, d) = {}
<1>1. LakeTypeOK' /\ Boot!LakeTypeOK' /\ Ahead'
  <2>1. CASE AnyMove /\ UNCHANGED boot
    BY <2>1, LakeTypeStep, BootStays DEF TypeInv, TypeOK
  <2>2. CASE BootAsked
    <3>1. LakeTypeOK' /\ Ahead'
      BY <2>2, LakeTypeStep DEF BootAsked, AnyMove, TypeInv, TypeOK
    <3>2. boot \in Syncs /\ (\A d \in Day : d > today => Rows(boot.new, d) = {})
      BY BootTypeIs DEF TypeInv, TypeOK
    <3>3. boot' \in Syncs /\ boot'.new = boot.new /\ today' = today
      BY <2>2, <3>2 DEF BootAsked, Syncs, lakeVars
    <3>4. LakeTypeOK' => (Boot!LakeTypeOK' <=>
                   boot' \in Syncs /\ \A d \in Day : d > today' => Rows(boot'.new, d) = {})
      BY BootTables DEF LakeTypeOK, Boot!LakeTypeOK, Syncs
    <3> QED
      BY <3>1, <3>2, <3>3, <3>4
  <2>3. CASE BootMove
    <3>0. /\ boot' \in Syncs /\ cuts' \in 0 .. MaxCuts /\ lake' \in Table /\ pending' \subseteq Sym
          /\ UNCHANGED <<today, out, ex, src, unfillable, repair, sync>>
          /\ \A d \in Day, s \in Sym : d > today => lake'[d][s] = 0 /\ boot'.new[d][s] = 0
      BY <2>3, BootTypeStep DEF BootMove
    <3>1. LakeTypeOK' /\ Ahead'
      BY <3>0 DEF TypeInv, TypeOK, LakeTypeOK, Rows
    <3>2. \A d \in Day : d > today' => Rows(boot'.new, d) = {}
      BY <3>0 DEF Rows
    <3>3. LakeTypeOK' => (Boot!LakeTypeOK' <=>
                   boot' \in Syncs /\ \A d \in Day : d > today' => Rows(boot'.new, d) = {})
      BY BootTables DEF LakeTypeOK, Boot!LakeTypeOK, Syncs
    <3> QED
      BY <3>0, <3>1, <3>2, <3>3
  <2> QED
    BY <2>1, <2>2, <2>3, AnyMoves
<1>2. today \in Day /\ sync.ok \in BOOLEAN
  BY DEF TypeInv, TypeOK, LakeTypeOK
<1>3. (/\ late \in BOOLEAN /\ up \in BOOLEAN /\ rc \in BOOLEAN
       /\ chain \in {"idle", "wait", "verify", "brief", "close"}
       /\ pipe \in {"idle", "collect", "check", "again", "exit"})'
  <2> USE <1>2 DEF TypeInv, TypeOK, chainVars
  <2>1. CASE NextDay \/ Deadline \/ Market \/ Begin \/ Kill \/ Restart
    BY <2>1 DEF NextDay, Deadline, Market, Begin, Kill, Restart
  <2>2. CASE ChainStep
    BY <2>2 DEF ChainStep, Collected, Verify, Brief, Close
  <2>3. CASE PipeStep
    BY <2>3 DEF PipeStep, PipeCollected, Check, PipeAgain, PipeOrphan
  <2>4. CASE Work \/ BootWork \/ UNCHANGED vars
    BY <2>4 DEF Work, BootWork, vars
  <2> QED
    BY <2>1, <2>2, <2>3, <2>4 DEF Next
<1>4. (/\ row \in [Day -> {"none", "running", "done", "failed"}]
       /\ ready \in [Day -> {"none", "ok", "melted"}])'
  BY <1>2 DEF TypeInv, TypeOK, Next, NextDay, Deadline, Market, Begin, Collected, Verify,
      Brief, Close, PipeCollected, Check, PipeAgain, PipeOrphan, Kill, Restart, Work, BootWork,
      ChainStep, PipeStep, vars, chainVars
<1> QED
  BY <1>1, <1>3, <1>4 DEF TypeInv, TypeOK

\* Every variable of the evening keeps its type, and no file and no copy of it has a
\* row of a day to come, whatever fails and whatever works at the same time.
THEOREM TypeCorrect == Spec => []TypeOK
<1>1. TypeInv => TypeOK
  BY DEF TypeInv
<1> QED
  BY <1>1, TypeInit, TypeStep, PTL DEF Spec

-----------------------------------------------------------------------------
(***************************************************************************)
(* What a repair gives up.                                                 *)
(***************************************************************************)
\* No page of a repair comes back empty.
PagesWhole == "thin" \notin Faults

\* Only a day that is over is given up, and nothing is published for it any more.
GivenUp == \A g \in unfillable : g[1] <= today /\ g[2] \notin src[g[1]]

\* What a repair has got are rows there are, of days it asked for: all of them, on the
\* basis of the last, if its pages came whole.
Wanted(D, d, s) ==
    IF d \in D /\ s \in src[d] THEN Factor(s, Max({e \in D : s \in src[e]})) ELSE 0

GotOf(got, D) ==
    \A d \in Day, s \in Sym : /\ got[d][s] # 0 => d \in D /\ s \in src[d]
                              /\ PagesWhole => got[d][s] = Wanted(D, d, s)

GotIs == repair.at = "mark" => GotOf(repair.got, repair.tried)

GivenInv == TypeInv /\ GotIs /\ (PagesWhole => GivenUp)

LEMMA GivenInit == Init => GivenInv
<1> SUFFICES ASSUME Init PROVE GotIs /\ GivenUp
  BY TypeInit DEF GivenInv
<1> QED
  BY DEF Init, LakeInit, Resting, GotIs, GivenUp

\* What is fetched of the days D.
LEMMA FetchedIs ==
  ASSUME src \in [Day -> SUBSET Sym], NEW D \in SUBSET Day,
         NEW came \in Pages(Offered(D)), NEW factors \in Pages(Offered(D))
  PROVE  GotOf(Fetched(came, factors), D)
<1> SUFFICES ASSUME NEW d \in Day, NEW s \in Sym
             PROVE  /\ Fetched(came, factors)[d][s] # 0 => d \in D /\ s \in src[d]
                    /\ PagesWhole => Fetched(came, factors)[d][s] = Wanted(D, d, s)
  BY DEF GotOf
<1>1. came \subseteq Offered(D)
  BY DEF Pages
<1>2. \A e \in Day : <<e, s>> \in Offered(D) <=> e \in D /\ s \in src[e]
  BY DEF Offered
<1>3. Fetched(came, factors)[d][s] # 0 => d \in D /\ s \in src[d]
  BY <1>1, <1>2 DEF Fetched
<1>4. ASSUME PagesWhole
      PROVE  Fetched(came, factors)[d][s] = Wanted(D, d, s)
  <2>1. came = Offered(D) /\ factors = Offered(D)
    BY <1>4 DEF Pages, PagesWhole
  <2>2. {e \in Day : <<e, s>> \in came \cap factors} = {e \in D : s \in src[e]}
    BY <1>2, <2>1
  <2> QED
    BY <1>2, <2>1, <2>2 DEF Fetched, Wanted
<1> QED
  BY <1>3, <1>4

\* A gap that is condemned lies before a row.
LEMMA BarrenIs ==
  ASSUME TypeInv, GotIs, PagesWhole, repair.at = "mark", NEW g \in Barren
  PROVE  g \in Day \X Sym /\ g[1] <= today /\ g[2] \notin src[g[1]]
<1>1. g \in Gaps(repair.new) /\ g[1] \in repair.tried /\ \A h \in RunOf(g) : ~Came(h)
  BY DEF Barren
<1>2. g \in Day \X Sym /\ g[1] \in Int
  BY <1>1 DEF Gaps, Day
<1>3. PICK e \in Day : g[1] < e /\ repair.new[e][g[2]] # 0
  BY <1>1 DEF Gaps
<1>4. today \in Int /\ e \in Int
  BY DEF TypeInv, TypeOK, LakeTypeOK, Day
<1>5. e <= today
  BY <1>2, <1>3, <1>4 DEF TypeInv, Rows
<1>6. g \in RunOf(g)
  <2>1. \A d \in Day : (g[1] <= d /\ d <= g[1]) => d = g[1]
    BY <1>2 DEF Day
  <2>2. <<g[1], g[2]>> = g
    BY <1>2
  <2> QED
    BY <1>1, <2>1, <2>2 DEF RunOf
<1>7. repair.got[g[1]][g[2]] = 0
  BY <1>1, <1>6 DEF Came
<1>8. ASSUME g[2] \in src[g[1]] PROVE FALSE
  <2>1. repair.got[g[1]][g[2]] = Factor(g[2], Max({e2 \in repair.tried : g[2] \in src[e2]}))
    BY <1>1, <1>2, <1>8 DEF GotIs, GotOf, Wanted
  <2> QED
    BY <1>7, <2>1, FactorIs
<1> QED
  BY <1>2, <1>3, <1>4, <1>5, <1>8

\* The days to come apart, a step changes nothing at the market.
LEMMA MarketStays ==
  [Next]_vars => \/ Quiet /\ Dawn
                 \/ UNCHANGED <<today, ex, src>>
<1>1. BootMove => UNCHANGED <<today, ex, src>>
  BY DEF BootMove, Boot!SyncStep, Boot!SyncRead, Boot!SyncFails, Boot!SyncEmpty,
     Boot!SyncFetch, Boot!SyncSave, Boot!SyncWrite
<1> QED
  BY <1>1, AnyMoves, SyncOnly, RepairOnly DEF AnyMove, Asked, Spawned, Rest, Publish, BootAsked, lakeVars

\* Only the repair itself changes what it has got and what is given up.
LEMMA RepairStays ==
  [Next]_vars => \/ RepairStep
                 \/ Spawned /\ UNCHANGED unfillable
                 \/ UNCHANGED <<repair, unfillable>>
<1>1. BootMove => UNCHANGED <<repair, unfillable>>
  BY DEF BootMove, Boot!SyncStep, Boot!SyncRead, Boot!SyncFails, Boot!SyncEmpty,
     Boot!SyncFetch, Boot!SyncSave, Boot!SyncWrite
<1> QED
  BY <1>1, AnyMoves, SyncOnly
  DEF AnyMove, Asked, Spawned, Rest, Dawn, Publish, BootAsked, lakeVars

LEMMA GotStep == TypeInv /\ GotIs /\ [Next]_vars => GotIs'
<1> SUFFICES ASSUME TypeInv, GotIs, [Next]_vars, repair'.at = "mark"
             PROVE  GotIs'
  BY DEF GotIs
<1>a. repair \in Repairs /\ src \in [Day -> SUBSET Sym]
  BY DEF TypeInv, TypeOK, LakeTypeOK, Repairs
<1>1. UNCHANGED <<today, ex, src>>
  BY MarketStays DEF Quiet, Dawn
<1>f. ASSUME NEW got, NEW D, GotOf(got, D), repair'.got = got, repair'.tried = D PROVE GotIs'
  BY <1>1, <1>f DEF GotIs, GotOf, Wanted, Factor
<1>2. ASSUME repair'.at = repair.at, repair'.got = repair.got, repair'.tried = repair.tried
      PROVE  GotIs'
  BY <1>f, <1>2 DEF GotIs
<1>3. CASE RepairFetch
  <2>1. PICK D \in SUBSET {g[1] : g \in Gaps(repair.new)} :
           \E came \in Pages(Offered(D)), factors \in Pages(Offered(D)) :
             repair' = [repair EXCEPT !.at = "mark", !.tried = D, !.got = Fetched(came, factors)]
    BY <1>3, RepairFetches
  <2>2. PICK came \in Pages(Offered(D)), factors \in Pages(Offered(D)) :
           repair' = [repair EXCEPT !.at = "mark", !.tried = D, !.got = Fetched(came, factors)]
    BY <2>1
  <2>3. D \in SUBSET Day
    BY DEF Gaps
  <2>4. PICK got : got = Fetched(came, factors)
    OBVIOUS
  <2>5. repair'.tried = D /\ repair'.got = got
    BY <1>a, <2>2, <2>4 DEF Repairs
  <2>6. GotOf(got, D)
    BY <1>a, <2>3, <2>4, FetchedIs
  <2> QED
    BY <1>f, <2>5, <2>6
<1>4. CASE Spawned \/ RepairFails \/ RepairMark \/ RepairWrite
  <2>1. CASE Spawned
    BY <1>2, <1>a, <2>1 DEF Spawned, RepairSpawn, Repairs
  <2>2. CASE RepairFails \/ RepairWrite
    BY <2>2 DEF RepairFails, RepairWrite, Resting
  <2>3. CASE RepairMark
    BY <1>a, <2>3 DEF RepairMark, Repairs
  <2> QED
    BY <1>4, <2>1, <2>2, <2>3
<1>5. CASE UNCHANGED repair
  BY <1>2, <1>5
<1> QED
  BY <1>3, <1>4, <1>5, RepairStays DEF RepairStep

LEMMA GivenUpStep ==
  ASSUME PagesWhole
  PROVE  TypeInv /\ GotIs /\ GivenUp /\ [Next]_vars => GivenUp'
<1> SUFFICES ASSUME TypeInv, GotIs, GivenUp, [Next]_vars PROVE GivenUp'
  OBVIOUS
<1>a. today \in Int /\ unfillable \subseteq Day \X Sym /\ src \in [Day -> SUBSET Sym]
  BY DEF TypeInv, TypeOK, LakeTypeOK, Day
<1>1. CASE Dawn
  <2>1. PICK H \in SUBSET Firm : src' = [src EXCEPT ![today + 1] = Sym \ H]
    BY <1>1 DEF Dawn
  <2>2. today' = today + 1 /\ unfillable' = unfillable
    BY <1>1 DEF Dawn
  <2>3. ASSUME NEW g \in unfillable PROVE g[1] <= today' /\ g[2] \notin src'[g[1]]
    <3>1. g[1] \in Int /\ g[1] <= today /\ g[2] \notin src[g[1]] /\ g[1] \in Day
      BY <1>a DEF GivenUp, Day
    <3>2. g[1] # today + 1 /\ g[1] <= today'
      BY <1>a, <2>2, <3>1
    <3> QED
      BY <1>a, <2>1, <3>1, <3>2
  <2> QED
    BY <2>2, <2>3 DEF GivenUp
<1>2. CASE RepairMark
  <2>1. unfillable' = unfillable \cup Barren /\ repair.at = "mark" /\ today' = today /\ src' = src
    BY <1>2 DEF RepairMark
  <2> QED
    BY <2>1, BarrenIs DEF GivenUp
<1>3. CASE UNCHANGED <<today, unfillable, src>>
  BY <1>3 DEF GivenUp
<1> QED
  BY <1>1, <1>2, <1>3, MarketStays, RepairStays
  DEF RepairStep, RepairFetch, RepairFails, RepairWrite

LEMMA GivenStep == GivenInv /\ [Next]_vars => GivenInv'
BY TypeStep, GotStep, GivenUpStep DEF GivenInv

\* As long as no page comes back empty, only a pair of a day and a symbol the market
\* does not have is given up, whatever page fails, whenever the server is killed and
\* whatever sync writes the file meanwhile.
THEOREM GivesUpNothing == ASSUME PagesWhole PROVE Spec => []UnfillableIsEmpty
<1>1. GivenInv => UnfillableIsEmpty
  BY DEF GivenInv, GivenUp, UnfillableIsEmpty
<1> QED
  BY <1>1, GivenInit, GivenStep, PTL DEF Spec

-----------------------------------------------------------------------------
(***************************************************************************)
(* While the syncs of a starting server keep to themselves, the programs   *)
(* of the evening never meet: the row in the ledger keeps a second chain   *)
(* from beginning beside a repair, and a repair begins after the last      *)
(* sync of its chain.                                                      *)
(***************************************************************************)
Alone == "overlap" \notin Faults

LakeMove ==
    \/ Quiet /\ (Dawn \/ Asked \/ Spawned)
    \/ Publish \/ SyncStep \/ RepairStep \/ UNCHANGED lakeVars

Apart ==
    /\ boot.at = "idle"
    /\ ~up => chain = "idle"
    /\ chain \in {"verify", "brief", "close"} => pipe = "idle"
    /\ chain = "wait" => pipe # "idle"
    /\ chain = "verify" => Quiet
    /\ pipe \in {"check", "exit"} => sync.at = "idle"
    /\ pipe # "idle" \/ sync.at # "idle" => repair.at = "idle"
    /\ pipe # "idle" \/ chain # "idle" => row[today] = "running"
    /\ repair.at # "idle" => row[today] \in {"running", "done"}

LEMMA LakeMoves == Apart /\ [Next]_vars => LakeMove
<1> SUFFICES ASSUME Apart, [Next]_vars PROVE LakeMove
  OBVIOUS
<1> USE DEF LakeMove, Rest, lakeVars
<1>1. CASE NextDay BY <1>1 DEF NextDay, Quiet
<1>2. CASE Deadline BY <1>2 DEF Deadline
<1>3. CASE Market BY <1>3 DEF Market
<1>4. CASE Begin BY <1>4 DEF Begin, Apart, Quiet, Asked
<1>5. CASE Collected BY <1>5 DEF Collected
<1>6. CASE Verify BY <1>6 DEF Verify, Apart, Spawned, RepairSpawn
<1>7. CASE Brief BY <1>7 DEF Brief
<1>8. CASE Close BY <1>8 DEF Close
<1>9. CASE PipeCollected BY <1>9 DEF PipeCollected
<1>10. CASE Check BY <1>10 DEF Check, Apart, Quiet, Asked
<1>11. CASE PipeAgain BY <1>11 DEF PipeAgain
<1>12. CASE PipeOrphan BY <1>12 DEF PipeOrphan
<1>13. CASE Kill BY <1>13 DEF Kill
<1>14. CASE Restart BY <1>14 DEF Restart, Quiet, Asked
<1>15. CASE Work BY <1>15 DEF Work
<1>16. CASE BootWork
  BY <1>16 DEF Apart, BootWork, Boot!SyncStep, Boot!SyncRead, Boot!SyncFails, Boot!SyncEmpty,
     Boot!SyncFetch, Boot!SyncSave, Boot!SyncWrite
<1>17. CASE UNCHANGED vars BY <1>17 DEF vars
<1> QED
  BY <1>1, <1>2, <1>3, <1>4, <1>5, <1>6, <1>7, <1>8, <1>9, <1>10, <1>11, <1>12, <1>13,
     <1>14, <1>15, <1>16, <1>17 DEF Next, ChainStep, PipeStep

LEMMA ApartInit == Init => Apart
BY DEF Init, LakeInit, Apart, Quiet, Idle, Resting

LEMMA ApartStep == ASSUME Alone PROVE Apart /\ TypeInv /\ [Next]_vars => Apart'
<1> SUFFICES ASSUME Apart, TypeInv, [Next]_vars PROVE Apart'
  OBVIOUS
<1>r. row \in [Day -> {"none", "running", "done", "failed"}] /\ today \in Day
  BY DEF TypeInv, TypeOK, LakeTypeOK
<1> USE <1>r DEF Apart, Quiet, lakeVars
<1>1. CASE NextDay BY <1>1 DEF NextDay, Dawn
<1>2. CASE Deadline BY <1>2 DEF Deadline
<1>3. CASE Market BY <1>3 DEF Market, Publish, chainVars
<1>4. CASE Begin BY <1>4 DEF Begin
<1>5. CASE Collected BY <1>5 DEF Collected
<1>6. CASE Verify BY <1>6 DEF Verify, RepairSpawn
<1>7. CASE Brief BY <1>7 DEF Brief
<1>8. CASE Close BY <1>8 DEF Close
<1>9. CASE PipeCollected BY <1>9 DEF PipeCollected
<1>10. CASE Check BY <1>10 DEF Check
<1>11. CASE PipeAgain BY <1>11 DEF PipeAgain
<1>12. CASE PipeOrphan BY <1>12 DEF PipeOrphan
<1>13. CASE Kill BY <1>13 DEF Kill
<1>14. CASE Restart BY <1>14 DEF Restart, Alone
<1>15. CASE Work
  <2>1. CASE SyncStep BY <1>15, <2>1, SyncOnly DEF Work, chainVars
  <2>2. CASE RepairStep BY <1>15, <2>2, RepairOnly DEF Work, chainVars
  <2> QED BY <1>15, <2>1, <2>2 DEF Work
<1>16. CASE BootWork
  BY <1>16 DEF BootWork, Boot!SyncStep, Boot!SyncRead, Boot!SyncFails, Boot!SyncEmpty,
     Boot!SyncFetch, Boot!SyncSave, Boot!SyncWrite
<1>17. CASE UNCHANGED vars BY <1>17 DEF vars, chainVars
<1> QED
  BY <1>1, <1>2, <1>3, <1>4, <1>5, <1>6, <1>7, <1>8, <1>9, <1>10, <1>11, <1>12, <1>13,
     <1>14, <1>15, <1>16, <1>17 DEF Next, ChainStep, PipeStep

-----------------------------------------------------------------------------
(***************************************************************************)
(* The repair.                                                             *)
(***************************************************************************)
\* What is to be written is the lake with rows added.
Adds ==
    /\ repair.at \in {"fetch", "mark"} => repair.new = lake
    /\ repair.at = "write" =>
         \A d \in Day, s \in Sym : lake[d][s] # 0 => repair.new[d][s] = lake[d][s]

RepairInv == Apart /\ TypeInv /\ GotIs /\ Adds

LEMMA RepairInit == Init => RepairInv
<1> SUFFICES ASSUME Init PROVE Adds
  BY ApartInit, GivenInit DEF RepairInv, GivenInv
<1> QED
  BY DEF Init, LakeInit, Resting, Adds

LEMMA AddsStep == Apart /\ TypeInv /\ Adds /\ LakeMove => Adds'
<1> SUFFICES ASSUME Apart, TypeInv, Adds, LakeMove PROVE Adds'
  OBVIOUS
<1>a. repair \in Repairs /\ lake \in Table
  BY DEF TypeInv, TypeOK, LakeTypeOK, Repairs
<1>1. CASE Quiet /\ (Dawn \/ Asked)
  BY <1>1 DEF Quiet, Dawn, Asked, Rest, Adds
<1>2. CASE Quiet /\ Spawned
  BY <1>2, <1>a DEF Spawned, RepairSpawn, Rest, Quiet, Adds, Repairs
<1>3. CASE Publish
  BY <1>3 DEF Publish, Adds
<1>4. CASE SyncStep
  <2>1. repair.at = "idle" /\ repair' = repair
    BY <1>4, SyncOnly DEF Apart
  <2> QED
    BY <2>1 DEF Adds
<1>5. CASE RepairFetch
  BY <1>5, <1>a DEF RepairFetch, Adds, Repairs
<1>6. CASE RepairMark
  <2>1. repair.new = lake /\ lake' = lake /\ repair.at = "mark"
    BY <1>6 DEF RepairMark, Adds
  <2>2. repair'.at = "write" /\ repair'.new = Filled(lake, repair.got)
    BY <1>6, <1>a, <2>1 DEF RepairMark, Repairs
  <2>3. \A d \in Day, s \in Sym : lake[d][s] # 0 => Filled(lake, repair.got)[d][s] = lake[d][s]
    <3> SUFFICES ASSUME NEW d \in Day, NEW s \in Sym, lake[d][s] # 0,
                        Filled(lake, repair.got)[d][s] # lake[d][s]
                 PROVE  FALSE
      OBVIOUS
    <3>1. lake[d][s] = 0
      BY DEF Filled, Gaps
    <3> QED
      BY <3>1
  <2> QED
    BY <2>1, <2>2, <2>3 DEF Adds
<1>7. CASE RepairWrite
  BY <1>7 DEF RepairWrite, Resting, Adds
<1>8. CASE RepairFails
  BY <1>8 DEF RepairFails, Resting, Adds
<1>9. CASE UNCHANGED lakeVars
  BY <1>9 DEF lakeVars, Adds
<1> QED
  BY <1>1, <1>2, <1>3, <1>4, <1>5, <1>6, <1>7, <1>8, <1>9 DEF LakeMove, RepairStep
LEMMA RepairInvStep == ASSUME Alone PROVE RepairInv /\ [Next]_vars => RepairInv'
BY ApartStep, TypeStep, LakeMoves, AddsStep, GotStep DEF RepairInv

\* The file a repair writes has every row that is in the lake at that moment, on its
\* basis, though it works for minutes on a copy of its own and its pages may come
\* empty: the ledger keeps the chain's syncs away from it.  (A sync that a starting
\* server begins is not kept away: "Divergences" in the README.)
THEOREM RepairLosesNothing == ASSUME Alone PROVE Spec => RepairKeepsRows
<1> DEFINE A == RepairWrite => \A d \in Day, s \in Sym :
                   lake[d][s] # 0 => lake'[d][s] = lake[d][s]
<1>1. RepairInv /\ [Next]_vars => [A]_vars
  <2> SUFFICES ASSUME RepairInv, RepairWrite PROVE A
    OBVIOUS
  <2>1. repair.at = "write" /\ lake' = repair.new
    BY DEF RepairWrite
  <2> QED
    BY <2>1 DEF RepairInv, Adds
<1>2. RepairKeepsRows <=> [][A]_vars
  BY DEF RepairKeepsRows
<1>3. RepairInv /\ [Next]_vars => RepairInv'
  BY RepairInvStep
<1> HIDE DEF A
<1> QED
  BY <1>1, <1>2, <1>3, RepairInit, PTL DEF Spec

-----------------------------------------------------------------------------
(***************************************************************************)
(* The rows of the file and of its copies.                                 *)
(***************************************************************************)
\* A row is of a day that is published, and of a symbol that traded; the history
\* begins with all of them.
Proper(t) ==
    /\ \A s \in Sym : t[1][s] # 0
    /\ \A d \in Day, s \in Sym : t[d][s] # 0 => d <= today /\ s \in Known(d)

Calendar == today >= 2 /\ src[1] = Sym /\ Sym # {}

AllProper ==
    /\ Proper(lake)
    /\ sync.at \in {"fetch", "save", "write"} => Proper(sync.new)
    /\ repair.at # "idle" => Proper(repair.new)

\* Nobody writes between the reading of the lake and the fetch, and only days
\* before a row are fetched to fill holes.
Copied ==
    /\ sync.at = "fetch" => sync.new = lake
    /\ repair.at = "mark" =>
         \A d \in repair.tried : \E e \in Day, s \in Sym : d < e /\ repair.new[e][s] # 0

RowsInv == RepairInv /\ Calendar /\ AllProper /\ Copied

LEMMA Bounds == TypeInv => /\ today \in Day /\ today \in Int /\ \A d \in Day : d \in Int
                           /\ lake \in Table /\ sync \in Syncs /\ repair \in Repairs
                           /\ sync.new \in Table /\ repair.new \in Table
                           /\ ex \in [Sym -> 0 .. MaxDay] /\ src \in [Day -> SUBSET Sym]
                           /\ 1 \in Day /\ MaxDay \in Int
BY LakeAssumption DEF TypeInv, TypeOK, LakeTypeOK, Syncs, Repairs, Day

LEMMA LastDayIs ==
  ASSUME Calendar, NEW t \in Table, Proper(t), 1 \in Day
  PROVE  /\ LastDay(t) \in Day /\ LastDay(t) <= today
         /\ \E s \in Sym : t[LastDay(t)][s] # 0
         /\ \A d \in Day, s \in Sym : t[d][s] # 0 => d <= LastDay(t)
<1> DEFINE S == {d \in Day : Rows(t, d) # {}}
<1>1. 1 \in S /\ S \in SUBSET Day
  BY DEF Proper, Calendar, Rows
<1>2. LastDay(t) \in S /\ \A d \in S : d <= LastDay(t)
  BY <1>1, MaxIs DEF LastDay
<1>3. \E s \in Sym : t[LastDay(t)][s] # 0
  BY <1>2 DEF Rows
<1>4. \A d \in Day, s \in Sym : t[d][s] # 0 => d \in S
  BY DEF Rows
<1> QED
  BY <1>2, <1>3, <1>4 DEF Proper

LEMMA FetchProper ==
  ASSUME TypeInv, Calendar, NEW t \in Table, Proper(t), NEW a, NEW lost, NEW done
  PROVE  Proper(Recomputed(Appended(t, a .. today, lost), done))
<1> DEFINE mid == Appended(t, a .. today, lost)
           all == Recomputed(mid, done)
<1>0. 1 \in Day /\ today \in Int /\ today >= 2 /\ \A d \in Day : d \in Int /\ d >= 1
  BY Bounds DEF Calendar, Day
<1>1. \A d \in Day, s \in Sym : d \in History(s) => d <= today /\ s \in Known(d)
  BY <1>0 DEF History, Traded
<1>2. \A s \in Sym : 1 \in History(s)
  BY <1>0 DEF History, Traded, Known, Calendar
<1>3. \A d \in Day, s \in Sym : mid[d][s] # 0 => d <= today /\ s \in Known(d)
  BY <1>0 DEF Appended, Proper
<1>4. \A s \in Sym : mid[1][s] # 0
  BY <1>0, FactorIs DEF Appended, Proper
<1> HIDE DEF mid
<1>5. \A s \in Sym : all[1][s] # 0
  BY <1>0, <1>2, <1>4, FactorIs DEF Recomputed
<1>6. ASSUME NEW d \in Day, NEW s \in Sym, all[d][s] # 0 PROVE d <= today /\ s \in Known(d)
  <2>1. CASE s \in done
    BY <1>1, <1>6, <2>1 DEF Recomputed
  <2>2. CASE s \notin done
    BY <1>3, <1>6, <2>2 DEF Recomputed
  <2> QED
    BY <2>1, <2>2
<1> HIDE DEF all
<1>7. Proper(all)
  BY <1>5, <1>6 DEF Proper
<1> QED
  BY <1>7 DEF all, mid

\* A table that has what another has and, in holes of it, rows there are.
Fills(t, new) ==
    \A d \in Day, s \in Sym :
        new[d][s] # t[d][s] => t[d][s] = 0 /\ s \in src[d] /\ <<d, s>> \in Gaps(t)

LEMMA FilledFills ==
  ASSUME GotIs, repair.at = "mark"
  PROVE  Fills(repair.new, Filled(repair.new, repair.got))
BY DEF GotIs, GotOf, Fills, Filled, Gaps

LEMMA FilledProper ==
  ASSUME TypeInv, Calendar, NEW t \in Table, Proper(t), NEW new, Fills(t, new)
  PROVE  Proper(new)
<1>0. 1 \in Day /\ today \in Int /\ \A d \in Day : d \in Int
  BY Bounds
<1>1. ASSUME NEW d \in Day, NEW s \in Sym, new[d][s] # t[d][s]
      PROVE  t[d][s] = 0 /\ d <= today /\ s \in Known(d)
  <2>1. t[d][s] = 0 /\ s \in src[d] /\ <<d, s>> \in Gaps(t)
    BY <1>1 DEF Fills
  <2>2. PICK e \in Day : d < e /\ t[e][s] # 0
    BY <2>1 DEF Gaps
  <2>3. d < today
    BY <1>0, <2>2 DEF Proper
  <2> QED
    BY <1>0, <2>1, <2>3 DEF Known
<1>2. \A d \in Day, s \in Sym : new[d][s] # 0 => d <= today /\ s \in Known(d)
  BY <1>1 DEF Proper
<1>3. \A s \in Sym : new[1][s] # 0
  BY <1>0, <1>1 DEF Proper
<1> QED
  BY <1>2, <1>3 DEF Proper

LEMMA RowsInit == Init => RowsInv
<1> SUFFICES ASSUME Init PROVE Calendar /\ AllProper /\ Copied
  BY RepairInit DEF RowsInv
<1> USE DEF Init, LakeInit
<1>1. PICK hole \in SUBSET Sym :
         /\ hole # Sym
         /\ lake = [d \in Day |-> [s \in Sym |-> IF d = 1 \/ (d = 2 /\ s \notin hole) THEN 1 ELSE 0]]
  OBVIOUS
<1>2. Calendar
  <2>1. Sym # {}
    BY <1>1, Zenon
  <2>2. 1 \in Day /\ today = 2
    BY LakeAssumption DEF Day
  <2> QED
    BY <2>1, <2>2 DEF Calendar
<1>3. Proper(lake)
  BY <1>1, LakeAssumption DEF Proper, Known, Day
<1>4. sync.at = "idle" /\ repair.at = "idle"
  BY DEF Idle, Resting
<1> QED
  BY <1>2, <1>3, <1>4 DEF AllProper, Copied

\* The calendar only moves on, and takes no row away.
LEMMA ProperStays ==
  ASSUME TypeInv, LakeMove, NEW t, Proper(t)
  PROVE  Calendar => /\ Calendar'
                     /\ \A d \in Day, s \in Sym : t[d][s] # 0 => d <= today' /\ s \in Known(d)'
<1> SUFFICES ASSUME Calendar
             PROVE  Calendar' /\ \A d \in Day, s \in Sym : t[d][s] # 0 => d <= today' /\ s \in Known(d)'
  OBVIOUS
<1>a. today \in Int /\ src \in [Day -> SUBSET Sym] /\ 1 \in Day /\ \A d \in Day : d \in Int
  BY Bounds
<1>1. CASE Dawn
  <2>1. PICK H \in SUBSET Firm : src' = [src EXCEPT ![today + 1] = Sym \ H]
    BY <1>1 DEF Dawn
  <2>2. today' = today + 1
    BY <1>1 DEF Dawn
  <2>3. \A d \in Day : d <= today => src'[d] = src[d] /\ d <= today' /\ d # today'
    BY <1>a, <2>1, <2>2
  <2>4. Calendar'
    BY <1>a, <2>2, <2>3 DEF Calendar
  <2>5. \A d \in Day, s \in Sym : d <= today /\ s \in Known(d) => s \in Known(d)'
    BY <1>a, <2>3 DEF Known
  <2> QED
    BY <2>3, <2>4, <2>5 DEF Proper
<1>2. CASE Publish
  BY <1>2 DEF Publish, Calendar, Proper, Known
<1>3. CASE UNCHANGED <<today, out, src>>
  BY <1>3 DEF Calendar, Proper, Known
<1> QED
  BY <1>1, <1>2, <1>3 DEF LakeMove, Asked, Spawned, Rest, SyncStep, SyncRead,
     SyncFails, SyncEmpty, SyncFetch, SyncSave, SyncWrite, RepairStep, RepairFetch,
     RepairFails, RepairMark, RepairWrite, lakeVars

\* So what is proper stays so, and a step need only be looked at for the new tables.
LEMMA ProperKept ==
  ASSUME RowsInv, LakeMove,
         \/ Proper(lake')
         \/ sync.at = "write" /\ lake' = sync.new
         \/ repair.at = "write" /\ lake' = repair.new,
         sync'.at \in {"fetch", "save", "write"} =>
            \/ Proper(sync'.new)
            \/ sync.at \in {"fetch", "save", "write"} /\ sync'.new = sync.new,
         repair'.at # "idle" => \/ Proper(repair'.new)
                                \/ repair.at # "idle" /\ repair'.new = repair.new
  PROVE  Calendar' /\ AllProper'
<1>1. Calendar'
  BY ProperStays DEF RowsInv, RepairInv, AllProper
<1>2. \A t : Proper(t) => /\ \A s \in Sym : t[1][s] # 0
                        /\ \A d \in Day, s \in Sym : t[d][s] # 0 => d <= today' /\ s \in Known(d)'
  BY ProperStays DEF RowsInv, RepairInv, Proper
<1>3. Proper(lake')
  BY DEF RowsInv, AllProper
<1>4. sync'.at \in {"fetch", "save", "write"} => Proper(sync'.new)
  BY DEF RowsInv, AllProper
<1>5. repair'.at # "idle" => Proper(repair'.new)
  BY DEF RowsInv, AllProper
<1>6. AllProper'
  BY <1>2, <1>3, <1>4, <1>5 DEF AllProper, Proper
<1> QED
  BY <1>1, <1>6

LEMMA RowsStep == RowsInv /\ LakeMove => Calendar' /\ AllProper' /\ Copied'
<1> SUFFICES ASSUME RowsInv, LakeMove PROVE Calendar' /\ AllProper' /\ Copied'
  OBVIOUS
<1>a. TypeInv /\ Apart /\ Adds /\ Calendar /\ AllProper /\ Copied /\ GotIs
  BY DEF RowsInv, RepairInv
<1>b. /\ sync \in Syncs /\ repair \in Repairs /\ lake \in Table
      /\ sync.new \in Table /\ repair.new \in Table
  BY <1>a, Bounds
<1>p. Proper(lake)
  BY <1>a DEF AllProper
<1>1. CASE Quiet /\ Dawn
  <2>1. UNCHANGED <<lake, sync, repair>> /\ Quiet
    BY <1>1 DEF Dawn
  <2> QED
    BY <1>p, <2>1, ProperKept DEF Quiet, Copied
<1>2. CASE Quiet /\ Asked
  <2>1. UNCHANGED <<lake, repair>> /\ sync'.at = "asked" /\ repair.at = "idle"
    BY <1>2 DEF Asked, Ask, Rest, Quiet, Idle
  <2> QED
    BY <1>p, <2>1, ProperKept DEF Copied
<1>3. CASE Quiet /\ Spawned
  <2>1. UNCHANGED <<lake, sync>> /\ sync.at = "idle"
    BY <1>3 DEF Spawned, Rest, Quiet
  <2>2. repair'.at # "idle" => repair'.new = lake /\ repair'.at = "fetch"
    BY <1>3, <1>b DEF Spawned, RepairSpawn, Quiet, Repairs
  <2> QED
    BY <1>p, <2>1, <2>2, ProperKept DEF Copied
<1>4. CASE Publish
  <2>1. UNCHANGED <<lake, sync, repair>>
    BY <1>4 DEF Publish
  <2> QED
    BY <1>a, <1>p, <2>1, ProperKept DEF Copied
<1>5. CASE SyncStep
  <2>0. UNCHANGED repair /\ repair.at = "idle"
    BY <1>5, <1>a, SyncOnly DEF Apart
  <2>1. CASE SyncRead
    <3>1. UNCHANGED lake
      BY <2>1 DEF SyncRead
    <3>2. sync'.at \in {"fetch", "save", "write"} => sync'.new = lake
      <4>1. CASE SyncDone(TRUE)
        BY <4>1, SyncOver
      <4>2. CASE sync' = [sync EXCEPT !.at = "fetch", !.new = lake]
        BY <4>2, <1>b DEF Syncs
      <4> QED
        BY <2>1, <4>1, <4>2, SyncReads
    <3> QED
      BY <1>p, <2>0, <3>1, <3>2, ProperKept DEF Copied
  <2>2. CASE SyncFails \/ SyncEmpty
    <3>1. UNCHANGED lake /\ sync'.at = "idle"
      BY <2>2, SyncOver DEF SyncFails, SyncEmpty
    <3> QED
      BY <1>p, <2>0, <3>1, ProperKept DEF Copied
  <2>3. CASE SyncFetch
    <3>f. PICK lost \in SUBSET Sym, seen \in SUBSET Sym :
             \E failed, a : Fetches(lost, seen, failed, a)
      BY <2>3, SyncFetches
    <3>1. PICK failed, a : Fetches(lost, seen, failed, a)
      BY <3>f
    <3>2. /\ sync.at = "fetch" /\ a \in {"save", "write"}
          /\ sync' = [sync EXCEPT !.at = a,
               !.new = Recomputed(Appended(sync.new, LastDay(sync.new) + 1 .. today, lost),
                  ToRecompute(LastDay(sync.new) + 1 .. today, lost, seen) \ failed),
               !.failed = failed]
      BY <2>3, <3>1, SyncFetches DEF Fetches
    <3>3. Proper(sync.new)
      BY <1>a, <3>2 DEF AllProper
    <3>4. PICK all : all = Recomputed(Appended(sync.new, LastDay(sync.new) + 1 .. today, lost),
                     ToRecompute(LastDay(sync.new) + 1 .. today, lost, seen) \ failed)
      OBVIOUS
    <3>5. Proper(all)
      BY <1>a, <1>b, <3>3, <3>4, FetchProper
    <3>6. sync' = [sync EXCEPT !.at = a, !.new = all, !.failed = failed]
      BY <3>2, <3>4
    <3>7. sync'.at = a /\ sync'.new = all
      BY <3>6, <1>b DEF Syncs
    <3>8. UNCHANGED lake
      BY <2>3 DEF SyncFetch
    <3> QED
      BY <1>p, <2>0, <3>2, <3>5, <3>7, <3>8, ProperKept DEF Copied
  <2>4. CASE SyncSave
    <3>1. UNCHANGED lake /\ sync.at = "save" /\ sync'.at = "write" /\ sync'.new = sync.new
      BY <2>4, <1>b DEF SyncSave, Syncs
    <3> QED
      BY <1>p, <2>0, <3>1, ProperKept DEF Copied
  <2>5. CASE SyncWrite
    <3>1. lake' = sync.new /\ sync.at = "write" /\ sync'.at = "idle"
      BY <2>5, SyncOver DEF SyncWrite
    <3> QED
      BY <2>0, <3>1, ProperKept DEF Copied
  <2> QED
    BY <1>5, <2>1, <2>2, <2>3, <2>4, <2>5 DEF SyncStep
<1>6. CASE RepairStep
  <2>0. UNCHANGED sync /\ sync.at = "idle" /\ repair.at # "idle" /\ Proper(repair.new)
    BY <1>6, <1>a, RepairOnly DEF Apart, AllProper
  <2>1. CASE RepairFetch
    <3>1. UNCHANGED lake
      BY <2>1 DEF RepairFetch
    <3>2. repair'.new = repair.new
      BY <2>1, <1>b DEF RepairFetch, Repairs
    <3>3. repair'.tried \subseteq {g[1] : g \in Gaps(repair.new)}
      BY <2>1, <1>b, RepairFetches DEF Repairs
    <3>4. \A g \in Gaps(repair.new) : \E e \in Day, s \in Sym : g[1] < e /\ repair.new[e][s] # 0
      BY DEF Gaps
    <3>5. Copied'
      BY <2>0, <3>2, <3>3, <3>4 DEF Copied
    <3> QED
      BY <1>p, <2>0, <3>1, <3>2, <3>5, ProperKept
  <2>2. CASE RepairMark
    <3>1. UNCHANGED lake
      BY <2>2 DEF RepairMark
    <3>2. PICK all : all = Filled(repair.new, repair.got)
      OBVIOUS
    <3>3. repair' = [repair EXCEPT !.at = "write", !.new = all]
      BY <2>2, <3>2 DEF RepairMark
    <3>4. repair'.at = "write" /\ repair'.new = all
      BY <3>3, <1>b DEF Repairs
    <3>5. Proper(all)
      <4>1. Fills(repair.new, all)
        BY <1>a, <2>2, <3>2, FilledFills DEF RepairMark
      <4> QED
        BY <1>a, <1>b, <2>0, <4>1, FilledProper
    <3> QED
      BY <1>p, <2>0, <3>1, <3>4, <3>5, ProperKept DEF Copied
  <2>3. CASE RepairWrite
    <3>1. lake' = repair.new /\ repair.at = "write" /\ repair'.at = "idle"
      BY <2>3 DEF RepairWrite, Resting
    <3> QED
      BY <2>0, <3>1, ProperKept DEF Copied
  <2>4. CASE RepairFails
    <3>1. UNCHANGED lake /\ repair'.at = "idle"
      BY <2>4 DEF RepairFails, Resting
    <3> QED
      BY <1>p, <2>0, <3>1, ProperKept DEF Copied
  <2> QED
    BY <1>6, <2>1, <2>2, <2>3, <2>4 DEF RepairStep
<1>7. CASE UNCHANGED lakeVars
  <2>1. UNCHANGED <<lake, sync, repair>>
    BY <1>7 DEF lakeVars
  <2> QED
    BY <1>a, <1>p, <2>1, ProperKept DEF Copied
<1> QED
  BY <1>1, <1>2, <1>3, <1>4, <1>5, <1>6, <1>7 DEF LakeMove

LEMMA RowsInvStep == ASSUME Alone PROVE RowsInv /\ [Next]_vars => RowsInv'
<1> SUFFICES ASSUME RowsInv, [Next]_vars PROVE RowsInv'
  OBVIOUS
<1>1. RepairInv' /\ LakeMove
  BY RepairInvStep, LakeMoves DEF RowsInv, RepairInv
<1> QED
  BY <1>1, RowsStep DEF RowsInv

-----------------------------------------------------------------------------
(***************************************************************************)
(* The basis of a series, where no dividend falls on a halt, the factors   *)
(* are there and no page of a repair comes empty.                          *)
(***************************************************************************)
DividendsTrade == "exlost" \notin Faults
FactorsThere == "noadj" \notin Faults

\* A symbol trades on the day on which its factor changes.
Seen == \A s \in Sym : ex[s] # 0 => ex[s] \in Day /\ ex[s] <= today /\ s \in src[ex[s]]

\* The rows of a symbol have the basis of the table's last day, and so has any row
\* that a repair may still put between them.
InSeries(t, s) ==
    \A d \in Day : d <= LastDay(t) =>
        /\ t[d][s] # 0 => t[d][s] = Factor(s, LastDay(t))
        /\ t[d][s] = 0 /\ s \in src[d] => Factor(s, d) = Factor(s, LastDay(t))

\* Which table is in order while which run has come how far.
Series ==
    /\ sync.at # "write" => \A s \in Sym \ pending : InSeries(lake, s)
    /\ sync.at \in {"save", "write"} => \A s \in Sym \ sync.failed : InSeries(sync.new, s)
    /\ sync.at = "write" => sync.failed = pending
    /\ repair.at = "write" => \A s \in Sym \ pending : InSeries(repair.new, s)

SeriesInv == RowsInv /\ Seen /\ Series

LEMMA Rises ==
  ASSUME TypeInv, NEW s \in Sym, NEW d \in Day, NEW e \in Day, d <= e
  PROVE  Factor(s, d) \in {1, 2} /\ Factor(s, e) \in {1, 2} /\ (Factor(s, d) = 2 => Factor(s, e) = 2)
<1>1. ex[s] \in Int /\ d \in Int /\ e \in Int
  BY Bounds, LakeAssumption
<1> QED
  BY <1>1 DEF Factor

LEMMA WindowIs ==
  ASSUME TypeInv, NEW L \in Day, NEW d, d \in L + 1 .. today
  PROVE  L < today /\ Min(L + 1 .. today) = L + 1 /\ L + 1 .. today \in SUBSET Day
<1>0. today \in Day /\ today \in Int /\ L \in Int /\ MaxDay \in Int
  BY Bounds
<1>1. L < today
  BY <1>0
<1>2. L + 1 .. today \in SUBSET Day
  BY <1>0 DEF Day
<1>3. Min(L + 1 .. today) \in L + 1 .. today /\ Min(L + 1 .. today) <= L + 1
  <2>1. L + 1 \in L + 1 .. today
    BY <1>0, <1>1
  <2> HIDE DEF Day
  <2> QED
    BY <1>2, <2>1, MinIs
<1> QED
  BY <1>0, <1>1, <1>2, <1>3

\* What a sync makes of a table, for a symbol that does not go to the sidecar.
LEMMA FetchInSeries ==
  ASSUME DividendsTrade, RowsInv, Seen, NEW t \in Table, Proper(t),
         NEW window, window = LastDay(t) + 1 .. today, LastDay(t) < today,
         NEW lost \in SUBSET Sym, Cut(lost), NEW redo, redo = ToRecompute(window, lost, Sym),
         NEW failed, NEW s \in Sym, s \notin failed, s \notin pending => InSeries(t, s)
  PROVE  InSeries(Recomputed(Appended(t, window, lost), redo \ failed), s)
<1> DEFINE mid == Appended(t, window, lost)
           all == Recomputed(mid, redo \ failed)
           L   == LastDay(t)
           N   == LastDay(all)
<1>0. TypeInv /\ Calendar
  BY DEF RowsInv, RepairInv
<1>a. /\ today \in Day /\ today \in Int /\ 1 \in Day /\ \A d \in Day : d \in Int /\ d >= 1
      /\ src \in [Day -> SUBSET Sym]
  BY <1>0, Bounds DEF Day
<1>m. mid \in Table /\ all \in Table /\ Proper(all)
  BY <1>0, AppendedIsTable, RecomputedIsTable, FetchProper
<1>1. /\ L \in Day /\ L <= today /\ \E r \in Sym : t[L][r] # 0
      /\ \A d \in Day, r \in Sym : t[d][r] # 0 => d <= L
  BY <1>0, <1>a, LastDayIs
<1>2. /\ N \in Day /\ N <= today /\ \E r \in Sym : all[N][r] # 0
      /\ \A d \in Day, r \in Sym : all[d][r] # 0 => d <= N
  BY <1>0, <1>a, <1>m, LastDayIs
<1>3. L < today /\ Min(window) = L + 1 /\ window \in SUBSET Day
  <2>1. L \in Day /\ L < today
    BY <1>1
  <2> HIDE DEF L
  <2>3. today \in L + 1 .. today
    <3>1. L \in Int
      BY <1>a, <2>1
    <3> QED
      BY <1>a, <2>1, <3>1
  <2>2. window = L + 1 .. today
    BY DEF L
  <2> QED
    BY <1>0, <2>1, <2>2, <2>3, WindowIs
<1>i. L \in Int /\ N \in Int
  BY <1>a, <1>1, <1>2
<1>w. ASSUME NEW d \in Day PROVE d \in window <=> L < d /\ d <= today
  <2>1. d \in Int
    BY <1>a
  <2> HIDE DEF L
  <2> QED
    BY <1>a, <1>i, <2>1 DEF L
<1>h. ASSUME NEW r \in Sym
      PROVE  /\ History(r) \in SUBSET Day /\ 1 \in History(r)
             /\ \A d \in Day : d \in History(r) <=> d <= today /\ r \in Known(d)
  <2>1. 1 .. today \subseteq Day /\ today >= 2
    <3>1. today \in 1 .. MaxDay
      BY <1>a DEF Day
    <3>2. MaxDay \in Int
      BY LakeAssumption
    <3> QED
      BY <1>0, <3>1, <3>2 DEF Day, Calendar
  <2>2. 1 \in History(r)
    <3>1. 1 \in 1 .. today /\ r \in src[1] /\ 1 # today
      BY <1>0, <1>a, <2>1 DEF Calendar
    <3> QED
      BY <3>1 DEF History, Traded, Known
  <2>3. \A d \in Day : d \in History(r) <=> d <= today /\ r \in Known(d)
    <3> SUFFICES ASSUME NEW d \in Day PROVE d \in History(r) <=> d <= today /\ r \in Known(d)
      OBVIOUS
    <3>1. d \in 1 .. today <=> d <= today
      BY <1>a
    <3> QED
      BY <3>1 DEF History, Traded
  <2>4. History(r) \in SUBSET Day
    BY <2>1 DEF History, Traded
  <2> QED
    BY <2>2, <2>3, <2>4
<1>rec. \A d \in Day, r \in Sym :
           /\ r \notin redo \ failed => all[d][r] = mid[d][r]
           /\ r \in redo \ failed => (all[d][r] # 0 <=> d \in History(r))
           /\ r \in redo \ failed /\ d \in History(r) => all[d][r] = Factor(r, Max(History(r)))
  <2> HIDE DEF mid
  <2> QED
    BY FactorIs DEF Recomputed
<1>app. \A d \in Day, r \in Sym :
           ~(d \in window /\ r \in Known(d) /\ ~(d = today /\ r \in lost)) => mid[d][r] = t[d][r]
  BY DEF Appended
<1> DEFINE fresh == Traded(s, window) \ (IF s \in lost THEN {today} ELSE {})
<1>new. \A d \in Day :
           d \in window /\ s \in Known(d) /\ ~(d = today /\ s \in lost) =>
              d \in fresh /\ mid[d][s] # 0 /\ mid[d][s] = Factor(s, Max(fresh))
  BY FactorIs DEF Appended, Traded
<1>r. redo \subseteq Sym /\ (s \notin redo => s \notin pending /\ s \notin Divided(window, lost, Sym))
  BY <1>0 DEF ToRecompute, Divided, TypeInv, TypeOK, LakeTypeOK
<1> HIDE DEF mid, all, L, N, fresh
<1>4. L <= N
  <2>1. PICK r \in Sym : t[L][r] # 0
    BY <1>1
  <2>2. r \in Known(L) /\ L <= today
    BY <1>1, <2>1 DEF Proper
  <2>3. all[L][r] # 0
    <3>1. L \in History(r)
      BY <1>h, <1>1, <2>2
    <3>2. mid[L][r] # 0
      <4>1. L \notin window
        BY <1>i, <1>1, <1>w
      <4> QED
        BY <1>1, <1>app, <2>1, <4>1
    <3> QED
      BY <1>1, <1>rec, <3>1, <3>2
  <2> QED
    BY <1>1, <1>2, <2>3
<1>5. N = today => out
  BY <1>2, <1>m, <1>a DEF Proper, Known
<1>k. ASSUME NEW d \in Day, d <= N, s \in src[d] PROVE s \in Known(d) /\ d <= today
  <2>1. d \in Int /\ d <= today /\ (d = today => N = today)
    BY <1>k, <1>a, <1>i, <1>2
  <2> QED
    BY <2>1, <1>k, <1>5 DEF Known
<1>6. ex[s] # 0 /\ ex[s] <= N => s \in Known(ex[s]) /\ ex[s] \in Day /\ ex[s] <= today
  BY <1>k DEF Seen
<1>e. ex[s] \in Int /\ (ex[s] # 0 => ex[s] \in Day /\ ex[s] <= today /\ s \in src[ex[s]])
  BY <1>0, Bounds, LakeAssumption DEF Seen
<1>goal. ASSUME \A d \in Day : d <= N =>
                   /\ all[d][s] # 0 => all[d][s] = Factor(s, N)
                   /\ all[d][s] = 0 /\ s \in src[d] => Factor(s, d) = Factor(s, N)
         PROVE  InSeries(all, s)
  BY <1>goal DEF InSeries, N
<1>7. ASSUME s \in redo \ failed PROVE InSeries(all, s)
  <2> DEFINE m == Max(History(s))
  <2>1. m \in History(s) /\ \A d \in History(s) : d <= m
    BY <1>h, MaxIs
  <2>2. m \in Day /\ m <= N
    BY <1>h, <1>7, <1>2, <1>rec, <2>1
  <2>3. Factor(s, m) = Factor(s, N)
    <3>1. Factor(s, N) = 2 => Factor(s, m) = 2
      <4> SUFFICES ASSUME Factor(s, N) = 2 PROVE Factor(s, m) = 2
        OBVIOUS
      <4>1. ex[s] # 0 /\ ex[s] <= N
        BY <1>a, <1>2, <1>e DEF Factor
      <4>2. ex[s] \in History(s)
        BY <4>1, <1>6, <1>h
      <4> QED
        BY <4>1, <4>2, <2>1, <2>2, <1>a, <1>e DEF Factor
    <3> HIDE DEF m
    <3> QED
      BY <1>0, <1>2, <2>2, <3>1, Rises
  <2>4. \A d \in Day : all[d][s] # 0 => all[d][s] = Factor(s, m)
    BY <1>7, <1>rec
  <2>5. \A d \in Day : d <= N /\ all[d][s] = 0 => s \notin src[d]
    <3> SUFFICES ASSUME NEW d \in Day, d <= N, all[d][s] = 0, s \in src[d] PROVE FALSE
      OBVIOUS
    <3>1. d \in History(s)
      BY <1>k, <1>h
    <3> QED
      BY <3>1, <1>7, <1>rec
  <2> HIDE DEF m
  <2>6. \A d \in Day : d <= N =>
                   /\ all[d][s] # 0 => all[d][s] = Factor(s, N)
                   /\ all[d][s] = 0 /\ s \in src[d] => Factor(s, d) = Factor(s, N)
    BY <2>3, <2>4, <2>5
  <2> QED
    BY <1>goal, <2>6
<1>8. ASSUME s \notin redo PROVE InSeries(all, s)
  <2>1. \A d \in Day : all[d][s] = mid[d][s]
    BY <1>8, <1>rec
  <2>2. InSeries(t, s)
    BY <1>8, <1>r
  <2>t. \A d \in Day : d <= L =>
                   /\ t[d][s] # 0 => t[d][s] = Factor(s, L)
                   /\ t[d][s] = 0 /\ s \in src[d] => Factor(s, d) = Factor(s, L)
    BY <2>2 DEF InSeries, L
  <2>3. CASE Factor(s, L) = Factor(s, today)
    <3>1. \A d \in Day : L <= d /\ d <= today => Factor(s, d) = Factor(s, L)
      <4> SUFFICES ASSUME NEW d \in Day, L <= d, d <= today PROVE Factor(s, d) = Factor(s, L)
        OBVIOUS
      <4>1. Factor(s, L) \in {1, 2} /\ Factor(s, d) \in {1, 2} /\ (Factor(s, L) = 2 => Factor(s, d) = 2)
        BY <1>0, <1>1, Rises
      <4>2. Factor(s, d) = 2 => Factor(s, today) = 2
        BY <1>0, <1>a, Rises
      <4> QED
        BY <4>1, <4>2, <2>3
    <3>2. Factor(s, N) = Factor(s, L)
      BY <3>1, <1>2, <1>4
    <3>3. ASSUME NEW d \in Day, d <= N, mid[d][s] # 0 PROVE mid[d][s] = Factor(s, N)
      <4>1. CASE d \in window /\ s \in Known(d) /\ ~(d = today /\ s \in lost)
        <5>1. d \in fresh /\ mid[d][s] = Factor(s, Max(fresh))
          BY <4>1, <1>new
        <5>2. fresh \in SUBSET Day /\ fresh \subseteq window
          BY <1>3 DEF fresh, Traded
        <5>3. Max(fresh) \in fresh
          BY <5>1, <5>2, MaxIs
        <5>4. Max(fresh) \in Day /\ L < Max(fresh) /\ Max(fresh) <= today
          BY <5>2, <5>3, <1>w
        <5>5. Factor(s, Max(fresh)) = Factor(s, L)
          <6>1. PICK x \in Day : x = Max(fresh)
            BY <5>4
          <6>2. L <= x /\ x <= today
            BY <5>4, <6>1, <1>i, <1>a
          <6> QED
            BY <6>1, <6>2, <3>1
        <5> QED
          BY <5>1, <5>5, <3>2
      <4>2. CASE ~(d \in window /\ s \in Known(d) /\ ~(d = today /\ s \in lost))
        BY <4>2, <1>app, <1>1, <2>t, <3>2, <3>3
      <4> QED
        BY <4>1, <4>2
    <3>4. ASSUME NEW d \in Day, d <= N, mid[d][s] = 0, s \in src[d] PROVE Factor(s, d) = Factor(s, N)
      <4>1. CASE d <= L
        <5>1. t[d][s] = 0
          BY <3>4, <1>new, <1>app
        <5> QED
          BY <4>1, <5>1, <3>4, <2>t, <3>2
      <4>2. CASE ~(d <= L)
        <5>1. L <= d /\ d <= today
          BY <4>2, <3>4, <1>a, <1>i, <1>2
        <5> QED
          BY <5>1, <3>1, <3>2
      <4> QED
        BY <4>1, <4>2
    <3>5. \A d \in Day : d <= N =>
                   /\ all[d][s] # 0 => all[d][s] = Factor(s, N)
                   /\ all[d][s] = 0 /\ s \in src[d] => Factor(s, d) = Factor(s, N)
      BY <2>1, <3>3, <3>4
    <3> QED
      BY <1>goal, <3>5
  <2>4. CASE Factor(s, L) # Factor(s, today)
    <3>1. fresh = {}
      <4>1. s \notin Divided(window, lost, Sym) /\ Min(window) - 1 = L
        <5>1. Min(window) = L + 1
          BY <1>3
        <5> QED
          BY <1>8, <1>r, <5>1, <1>i
      <4> QED
        BY <4>1, <2>4 DEF Divided, fresh
    <3>2. ex[s] # 0 /\ L < ex[s] /\ ex[s] <= today
      BY <2>4, <1>a, <1>1, <1>e DEF Factor
    <3>3. ~(ex[s] <= N)
      <4> SUFFICES ASSUME ex[s] <= N PROVE FALSE
        OBVIOUS
      <4>1. s \in Known(ex[s]) /\ ex[s] \in Day /\ ex[s] \in window
        BY <3>2, <1>6, <1>w
      <4>2. ex[s] = today /\ s \in lost
        BY <3>1, <4>1, <1>new
      <4> QED
        BY <4>2 DEF Cut, DividendsTrade
    <3>4. ASSUME NEW d \in Day, d <= N PROVE Factor(s, d) = 1
      <4>1. d \in Int /\ ~(d >= ex[s])
        BY <3>3, <3>4, <1>a, <1>i, <1>e
      <4> QED
        BY <4>1 DEF Factor
    <3>5. \A d \in Day : mid[d][s] = t[d][s]
      BY <3>1, <1>new, <1>app
    <3>6. \A d \in Day : t[d][s] # 0 => t[d][s] = 1
      BY <1>1, <1>2, <1>4, <1>a, <2>t, <3>4
    <3>7. Factor(s, N) = 1
      BY <3>4, <1>2, <1>i
    <3>8. \A d \in Day : d <= N =>
                   /\ all[d][s] # 0 => all[d][s] = Factor(s, N)
                   /\ all[d][s] = 0 /\ s \in src[d] => Factor(s, d) = Factor(s, N)
      BY <2>1, <3>4, <3>5, <3>6, <3>7
    <3> QED
      BY <1>goal, <3>8
  <2> QED
    BY <2>3, <2>4
<1>9. InSeries(all, s)
  BY <1>7, <1>8
<1> QED
  BY <1>9 DEF all, mid

\* What a repair whose pages are whole has got of the days D.
FilledBy(t, D) ==
    [d \in Day |-> [s \in Sym |->
        IF d \in D /\ s \in src[d] /\ <<d, s>> \in Gaps(t) THEN Wanted(D, d, s) ELSE t[d][s]]]

LEMMA WholeIs ==
  ASSUME PagesWhole, GotIs, repair.at = "mark", repair.new \in Table
  PROVE  Filled(repair.new, repair.got) = FilledBy(repair.new, repair.tried)
<1>1. ASSUME NEW d \in Day, NEW s \in Sym
      PROVE  (IF repair.got[d][s] # 0 /\ <<d, s>> \in Gaps(repair.new)
              THEN repair.got[d][s] ELSE repair.new[d][s])
             = (IF d \in repair.tried /\ s \in src[d] /\ <<d, s>> \in Gaps(repair.new)
                THEN Wanted(repair.tried, d, s) ELSE repair.new[d][s])
  <2>1. repair.got[d][s] = Wanted(repair.tried, d, s)
    BY DEF GotIs, GotOf
  <2>2. repair.got[d][s] # 0 <=> d \in repair.tried /\ s \in src[d]
    BY <2>1, FactorIs DEF Wanted
  <2> QED
    BY <2>1, <2>2
<1> QED
  BY <1>1 DEF Filled, FilledBy

LEMMA FilledByFills ==
  ASSUME NEW t \in Table, NEW D \in SUBSET Day
  PROVE  Fills(t, FilledBy(t, D)) /\ FilledBy(t, D) \in Table
<1>1. \A d, s : Wanted(D, d, s) \in {0, 1, 2}
  BY FactorIs DEF Wanted
<1>2. FilledBy(t, D) \in Table
  BY <1>1 DEF FilledBy, Table, NoPrice
<1>3. Fills(t, FilledBy(t, D))
  BY DEF FilledBy, Fills, Gaps
<1> QED
  BY <1>2, <1>3

\* What a repair makes of the lake.
LEMMA FillInSeries ==
  ASSUME RowsInv, NEW t \in Table, Proper(t), NEW D \in SUBSET Day,
         \A d \in D : \E e \in Day, r \in Sym : d < e /\ t[e][r] # 0,
         NEW s \in Sym, InSeries(t, s)
  PROVE  InSeries(FilledBy(t, D), s)
<1> DEFINE all == FilledBy(t, D)
           L   == LastDay(t)
           N   == LastDay(all)
<1>0. TypeInv /\ Calendar
  BY DEF RowsInv, RepairInv
<1>a. 1 \in Day /\ \A d \in Day : d \in Int
  BY <1>0, Bounds
<1>m. all \in Table /\ Proper(all)
  BY <1>0, FilledByFills, FilledProper
<1>1. /\ L \in Day /\ \E r \in Sym : t[L][r] # 0
      /\ \A d \in Day, r \in Sym : t[d][r] # 0 => d <= L
  BY <1>0, <1>a, LastDayIs
<1>2. /\ N \in Day /\ \E r \in Sym : all[N][r] # 0
      /\ \A d \in Day, r \in Sym : all[d][r] # 0 => d <= N
  BY <1>0, <1>a, <1>m, LastDayIs
<1>f. ASSUME NEW d \in Day, NEW r \in Sym, all[d][r] # t[d][r]
      PROVE  t[d][r] = 0 /\ d \in D /\ r \in src[d] /\ d < L
  <2>1. t[d][r] = 0 /\ d \in D /\ r \in src[d]
    BY <1>f DEF FilledBy, Gaps
  <2>2. PICK e \in Day : d < e /\ \E q \in Sym : t[e][q] # 0
    BY <2>1
  <2>3. e <= L
    BY <1>1, <2>2
  <2> QED
    BY <1>a, <1>1, <2>1, <2>2, <2>3
<1>b. \A d \in Day : all[d][s] # t[d][s] => all[d][s] = Factor(s, Max({e \in D : s \in src[e]}))
  BY DEF FilledBy, Wanted
<1>t. \A d \in Day : d <= L =>
                   /\ t[d][s] # 0 => t[d][s] = Factor(s, L)
                   /\ t[d][s] = 0 /\ s \in src[d] => Factor(s, d) = Factor(s, L)
  BY DEF InSeries
<1>n. N = LastDay(all)
  OBVIOUS
<1> HIDE DEF all, L, N
<1>3. L = N
  <2>1. L <= N
    BY <1>1, <1>2, <1>f
  <2>2. N <= L
    <3>1. PICK r \in Sym : all[N][r] # 0
      BY <1>2
    <3>2. CASE all[N][r] = t[N][r]
      BY <1>1, <1>2, <3>1, <3>2
    <3>3. CASE all[N][r] # t[N][r]
      BY <1>a, <1>1, <1>2, <1>f, <3>3
    <3> QED
      BY <3>2, <3>3
  <2> QED
    BY <1>a, <1>1, <1>2, <2>1, <2>2
<1>4. ASSUME NEW d \in Day, all[d][s] # t[d][s] PROVE all[d][s] = Factor(s, L)
  <2> DEFINE S == {e \in D : s \in src[e]}
             m == Max(S)
  <2>1. t[d][s] = 0 /\ d \in S /\ d < L
    BY <1>4, <1>f
  <2>2. m \in S /\ d <= m
    BY <2>1, MaxIs
  <2>3. m \in Day /\ m \in D
    BY <2>2
  <2>4. PICK e \in Day : m < e /\ \E q \in Sym : t[e][q] # 0
    BY <2>3
  <2>5. all[d][s] = Factor(s, m)
    BY <1>4, <1>b
  <2> HIDE DEF m
  <2>6. m <= L
    BY <1>a, <1>1, <2>3, <2>4
  <2>7. Factor(s, d) = Factor(s, L)
    <3>1. s \in src[d] /\ d <= L
      BY <1>a, <1>1, <2>1
    <3> QED
      BY <2>1, <3>1, <1>t
  <2>8. /\ Factor(s, d) \in {1, 2} /\ Factor(s, m) \in {1, 2} /\ Factor(s, L) \in {1, 2}
        /\ Factor(s, d) = 2 => Factor(s, m) = 2
        /\ Factor(s, m) = 2 => Factor(s, L) = 2
    BY <1>0, <1>1, <2>2, <2>3, <2>6, Rises
  <2> QED
    BY <2>5, <2>7, <2>8
<1>5. \A d \in Day : d <= N =>
          /\ all[d][s] # 0 => all[d][s] = Factor(s, N)
          /\ all[d][s] = 0 /\ s \in src[d] => Factor(s, d) = Factor(s, N)
  <2> SUFFICES ASSUME NEW d \in Day, d <= N
               PROVE  /\ all[d][s] # 0 => all[d][s] = Factor(s, N)
                      /\ all[d][s] = 0 /\ s \in src[d] => Factor(s, d) = Factor(s, N)
    OBVIOUS
  <2>1. CASE all[d][s] = t[d][s]
    BY <2>1, <1>3, <1>t
  <2>2. CASE all[d][s] # t[d][s]
    <3>1. Factor(s, L) # 0
      BY FactorIs
    <3> QED
      BY <2>2, <1>3, <1>4, <3>1
  <2> QED
    BY <2>1, <2>2
<1>6. InSeries(all, s)
  BY <1>5, <1>n DEF InSeries
<1> QED
  BY <1>6 DEF all

\* A day that begins, and a dividend on it, changes nothing before it.
LEMMA DawnKeeps ==
  ASSUME DividendsTrade, TypeInv, Calendar, Seen, Dawn
  PROVE  /\ Seen'
         /\ \A t \in Table, s \in Sym : Proper(t) /\ InSeries(t, s) => InSeries(t, s)'
<1>1. PICK X \in SUBSET {s \in Firm : ex[s] = 0}, H \in SUBSET Firm :
         /\ X \cap H = {}
         /\ ex' = [s \in Sym |-> IF s \in X THEN today + 1 ELSE ex[s]]
         /\ src' = [src EXCEPT ![today + 1] = Sym \ H]
  BY DEF Dawn, DividendsTrade
<1>2. /\ today' = today + 1 /\ today + 1 \in Day /\ today \in Int /\ 1 \in Day
      /\ ex \in [Sym -> 0 .. MaxDay] /\ src \in [Day -> SUBSET Sym]
      /\ \A d \in Day : d \in Int
  <2>1. today \in Day /\ today < MaxDay /\ today' = today + 1 /\ MaxDay \in Int
    BY Bounds DEF Dawn
  <2>2. today + 1 \in Day
    BY <2>1 DEF Day
  <2> QED
    BY <2>1, <2>2, Bounds
<1>3. \A d \in Day : d <= today => src'[d] = src[d] /\ d # today + 1 /\ d <= today'
  BY <1>1, <1>2
<1>4. ASSUME NEW s \in Sym, ex'[s] # 0 PROVE ex'[s] \in Day /\ ex'[s] <= today' /\ s \in src'[ex'[s]]
  <2>1. CASE s \in X
    <3>1. ex'[s] = today + 1 /\ s \notin H
      BY <1>1, <2>1
    <3>2. src'[today + 1] = Sym \ H
      BY <1>1, <1>2
    <3> QED
      BY <1>2, <3>1, <3>2
  <2>2. CASE s \notin X
    <3>1. ex'[s] = ex[s]
      BY <1>1, <2>2
    <3>2. ex[s] \in Day /\ ex[s] <= today /\ s \in src[ex[s]]
      BY <1>4, <3>1 DEF Seen
    <3> QED
      BY <1>3, <3>1, <3>2
  <2> QED
    BY <2>1, <2>2
<1>5. Seen'
  BY <1>4 DEF Seen
<1>6. ASSUME NEW s \in Sym, NEW d \in Day, d <= today PROVE Factor(s, d)' = Factor(s, d)
  <2>1. ex'[s] = (IF s \in X THEN today + 1 ELSE ex[s]) /\ (s \in X => ex[s] = 0)
    BY <1>1
  <2>2. d \in Int /\ ~(d >= today + 1)
    BY <1>2, <1>6
  <2> QED
    BY <1>2, <2>1, <2>2 DEF Factor
<1>7. ASSUME NEW t \in Table, NEW s \in Sym, Proper(t), InSeries(t, s) PROVE InSeries(t, s)'
  <2>1. LastDay(t) \in Day /\ LastDay(t) <= today
    BY <1>2, <1>7, LastDayIs
  <2>2. \A d \in Day : d <= LastDay(t) => d <= today
    BY <1>2, <2>1
  <2> QED
    BY <1>3, <1>6, <1>7, <2>1, <2>2 DEF InSeries
<1> QED
  BY <1>5, <1>7

LEMMA SeriesInit == ASSUME DividendsTrade PROVE Init => SeriesInv
<1> SUFFICES ASSUME Init PROVE Seen /\ Series
  BY RowsInit DEF SeriesInv
<1> USE DEF Init, LakeInit
<1>1. Seen
  BY DEF Seen
<1>2. sync.at = "idle" /\ repair.at = "idle"
  BY DEF Idle, Resting
<1>3. \A d \in Day, s \in Sym : lake[d][s] \in {0, 1}
  BY DEF Day
<1>4. \A s \in Sym, d \in Day : Factor(s, d) = 1
  BY DEF Factor
<1>5. LastDay(lake) \in Day
  <2>1. TypeInv /\ Calendar /\ Proper(lake)
    BY RowsInit DEF RowsInv, RepairInv, AllProper
  <2> QED
    BY <2>1, Bounds, LastDayIs
<1>6. \A s \in Sym : InSeries(lake, s)
  BY <1>3, <1>4, <1>5 DEF InSeries
<1> HIDE DEF Init, LakeInit
<1> QED
  BY <1>1, <1>2, <1>6 DEF Series

\* A series does not depend on what is published or where a run is.
LEMMA SeriesStays == UNCHANGED <<ex, src>> => \A t, s : InSeries(t, s) => InSeries(t, s)'
BY DEF InSeries, Factor

LEMMA SeriesStep ==
  ASSUME DividendsTrade, FactorsThere, PagesWhole
  PROVE  SeriesInv /\ LakeMove => Seen' /\ Series'
<1> SUFFICES ASSUME SeriesInv, LakeMove PROVE Seen' /\ Series'
  OBVIOUS
<1>a. /\ RowsInv /\ TypeInv /\ Apart /\ Adds /\ GotIs /\ Calendar /\ AllProper /\ Copied
      /\ Seen /\ Series
  BY DEF SeriesInv, RowsInv, RepairInv
<1>b. /\ sync \in Syncs /\ repair \in Repairs /\ lake \in Table /\ sync.new \in Table
      /\ repair.new \in Table /\ Proper(lake)
  BY <1>a, Bounds DEF AllProper
<1>1. CASE Quiet /\ Dawn
  <2>1. UNCHANGED <<lake, sync, repair, pending>> /\ sync.at = "idle" /\ repair.at = "idle"
    BY <1>1 DEF Dawn, Quiet
  <2>2. Seen' /\ \A s \in Sym : InSeries(lake, s) => InSeries(lake, s)'
    <3>1. PICK t \in Table : t = lake
      BY <1>b
    <3>2. \A s \in Sym : InSeries(t, s) => InSeries(t, s)'
      BY <1>1, <1>a, <1>b, <3>1, DawnKeeps
    <3>3. \A s \in Sym : InSeries(t, s)' <=> InSeries(lake, s)'
      BY <2>1, <3>1 DEF InSeries
    <3> QED
      BY <1>1, <1>a, <3>1, <3>2, <3>3, DawnKeeps
  <2> QED
    BY <1>a, <2>1, <2>2 DEF Series
<1> SUFFICES ASSUME UNCHANGED <<today, ex, src>> PROVE Series'
  BY <1>1, <1>a DEF LakeMove, Asked, Spawned, Rest, Publish, SyncStep, SyncRead, SyncFails,
     SyncEmpty, SyncFetch, SyncSave, SyncWrite, RepairStep, RepairFetch, RepairFails,
     RepairMark, RepairWrite, lakeVars, Seen
<1>s. \A t, s : InSeries(t, s) => InSeries(t, s)'
  BY SeriesStays
\* It is enough to look at the tables as they are.
<1>n. ASSUME sync'.at # "write" => \A s \in Sym \ pending' : InSeries(lake', s),
             sync'.at \in {"save", "write"} => \A s \in Sym \ sync'.failed : InSeries(sync'.new, s),
             sync'.at = "write" => sync'.failed = pending',
             repair'.at = "write" => \A s \in Sym \ pending' : InSeries(repair'.new, s)
      PROVE  Series'
  BY <1>n DEF Series, InSeries, Factor
<1>2. CASE Quiet /\ (Asked \/ Spawned)
  <2>1. UNCHANGED <<lake, pending>> /\ sync.at = "idle" /\ repair.at = "idle"
    BY <1>2 DEF Asked, Spawned, Rest, Quiet
  <2>2. sync'.at \notin {"save", "write"}
    BY <1>2, <2>1 DEF Asked, Spawned, Ask, Idle
  <2>3. repair'.at # "write"
    BY <1>2, <1>b, <2>1 DEF Asked, Spawned, RepairSpawn, Repairs
  <2> QED
    BY <1>a, <1>n, <2>1, <2>2, <2>3 DEF Series
<1>3. CASE Publish
  <2>1. UNCHANGED <<lake, sync, repair, pending>>
    BY <1>3 DEF Publish
  <2> QED
    BY <1>a, <1>n, <2>1 DEF Series
<1>4. CASE SyncStep
  <2>0. repair'.at = "idle"
    BY <1>4, <1>a, SyncOnly DEF Apart
  <2>1. CASE SyncRead \/ SyncFails \/ SyncEmpty
    <3>1. UNCHANGED <<lake, pending>> /\ sync.at # "write"
      BY <2>1 DEF SyncRead, SyncFails, SyncEmpty
    <3>2. sync'.at \notin {"save", "write"}
      <4>1. CASE SyncDone(TRUE) \/ SyncDone(FALSE)
        BY <4>1, SyncOver
      <4>2. CASE sync' = [sync EXCEPT !.at = "fetch", !.new = lake]
        BY <4>2, <1>b DEF Syncs
      <4> QED
        BY <2>1, <4>1, <4>2, SyncReads DEF SyncFails, SyncEmpty
    <3> QED
      BY <1>a, <1>n, <2>0, <3>1, <3>2 DEF Series
  <2>2. CASE SyncFetch
    <3> DEFINE window == LastDay(lake) + 1 .. today
    <3>0. sync.at = "fetch" /\ sync.new = lake /\ UNCHANGED <<lake, pending>>
      BY <2>2, <1>a DEF SyncFetch, Copied
    <3>1. LastDay(lake) < today
      <4>1. PICK d : d \in window
        BY <2>2, <3>0, SyncFetches
      <4>2. LastDay(lake) \in Day
        BY <1>a, <1>b, Bounds, LastDayIs
      <4> QED
        BY <1>a, <4>1, <4>2, WindowIs
    <3>f. PICK lost \in SUBSET Sym, seen \in SUBSET Sym :
             \E failed, a : Fetches(lost, seen, failed, a)
      BY <2>2, SyncFetches
    <3>2. PICK failed, a : Fetches(lost, seen, failed, a)
      BY <3>f
    <3>3. PICK redo : redo = ToRecompute(window, lost, Sym)
      OBVIOUS
    <3>4. /\ failed \in SUBSET redo /\ a \in {"save", "write"}
          /\ Cut(lost) /\ (a = "write" => redo = {})
          /\ sync' = [sync EXCEPT !.at = a,
               !.new = Recomputed(Appended(lake, window, lost), redo \ failed),
               !.failed = failed]
      <4>1. seen = Sym
        BY <3>2 DEF Fetches, FactorsThere
      <4> QED
        BY <3>0, <3>2, <3>3, <4>1 DEF Fetches
    <3>5. PICK all : all = Recomputed(Appended(lake, window, lost), redo \ failed)
      OBVIOUS
    <3>6. \A s \in Sym \ failed : InSeries(all, s)
      <4> SUFFICES ASSUME NEW s \in Sym, s \notin failed PROVE InSeries(all, s)
        OBVIOUS
      <4>1. s \notin pending => InSeries(lake, s)
        BY <1>a, <3>0 DEF Series
      <4>2. PICK w : w = window
        OBVIOUS
      <4>4. redo = ToRecompute(w, lost, Sym) /\ all = Recomputed(Appended(lake, w, lost), redo \ failed)
        BY <3>3, <3>5, <4>2
      <4> HIDE DEF window
      <4>5. InSeries(Recomputed(Appended(lake, w, lost), redo \ failed), s)
        BY <1>a, <1>b, <3>1, <3>4, <4>1, <4>2, <4>4, FetchInSeries DEF window
      <4> QED
        BY <4>4, <4>5
    <3>7. sync' = [sync EXCEPT !.at = a, !.new = all, !.failed = failed]
      BY <3>4, <3>5
    <3>8. sync'.at = a /\ sync'.new = all /\ sync'.failed = failed
      BY <3>7, <1>b DEF Syncs
    <3>9. a = "write" => failed = {} /\ pending = {}
      <4>1. redo = {} => failed = {}
        BY <3>4
      <4>2. redo = {} => pending = {}
        BY <3>3 DEF ToRecompute
      <4> QED
        BY <3>4, <4>1, <4>2
    <3>10. sync.at # "write"
      BY <3>0
    <3> HIDE DEF window
    <3> QED
      BY <1>a, <1>n, <2>0, <3>0, <3>4, <3>6, <3>8, <3>9, <3>10 DEF Series
  <2>3. CASE SyncSave
    <3>1. /\ UNCHANGED lake /\ sync.at = "save" /\ sync'.at = "write"
          /\ sync'.new = sync.new /\ sync'.failed = sync.failed /\ pending' = sync.failed
      BY <2>3, <1>b DEF SyncSave, Sidecar, Syncs
    <3> QED
      BY <1>a, <1>n, <2>0, <3>1 DEF Series
  <2>4. CASE SyncWrite
    <3>1. lake' = sync.new /\ sync.at = "write" /\ sync'.at = "idle" /\ UNCHANGED pending
      BY <2>4, SyncOver DEF SyncWrite
    <3> QED
      BY <1>a, <1>n, <2>0, <3>1 DEF Series
  <2> QED
    BY <1>4, <2>1, <2>2, <2>3, <2>4 DEF SyncStep
<1>5. CASE RepairStep
  <2>0. UNCHANGED <<sync, pending>> /\ sync.at = "idle" /\ repair.at # "idle"
    BY <1>5, <1>a, RepairOnly DEF Apart
  <2>1. CASE RepairFetch
    <3>1. UNCHANGED lake /\ repair'.at = "mark"
      BY <2>1, <1>b DEF RepairFetch, Repairs
    <3> QED
      BY <1>a, <1>n, <2>0, <3>1 DEF Series
  <2>2. CASE RepairMark
    <3>1. UNCHANGED lake /\ repair.at = "mark" /\ repair.new = lake
      BY <2>2, <1>a DEF RepairMark, Adds
    <3>2. PICK all : all = FilledBy(lake, repair.tried)
      OBVIOUS
    <3>3. repair' = [repair EXCEPT !.at = "write", !.new = all]
      BY <2>2, <1>a, <1>b, <3>1, <3>2, WholeIs DEF RepairMark
    <3>4. repair'.at = "write" /\ repair'.new = all
      BY <3>3, <1>b DEF Repairs
    <3>5. PICK D \in SUBSET Day : D = repair.tried
      BY <1>b DEF Repairs
    <3>6. \A d \in D : \E e \in Day, r \in Sym : d < e /\ lake[e][r] # 0
      BY <1>a, <3>1, <3>5 DEF Copied
    <3>7. \A s \in Sym \ pending : InSeries(all, s)
      <4> SUFFICES ASSUME NEW s \in Sym, s \notin pending PROVE InSeries(all, s)
        OBVIOUS
      <4>1. InSeries(lake, s)
        BY <1>a, <2>0 DEF Series
      <4>2. InSeries(FilledBy(lake, D), s)
        BY <1>a, <1>b, <3>6, <4>1, FillInSeries
      <4> QED
        BY <3>2, <3>5, <4>2
    <3> QED
      BY <1>a, <1>n, <2>0, <3>1, <3>4, <3>7 DEF Series
  <2>3. CASE RepairWrite
    <3>1. lake' = repair.new /\ repair.at = "write" /\ repair'.at = "idle"
      BY <2>3 DEF RepairWrite, Resting
    <3> QED
      BY <1>a, <1>n, <2>0, <3>1 DEF Series
  <2>4. CASE RepairFails
    <3>1. UNCHANGED lake /\ repair'.at = "idle"
      BY <2>4 DEF RepairFails, Resting
    <3> QED
      BY <1>a, <1>n, <2>0, <3>1 DEF Series
  <2> QED
    BY <1>5, <2>1, <2>2, <2>3, <2>4 DEF RepairStep
<1>6. CASE UNCHANGED lakeVars
  <2>1. UNCHANGED <<lake, sync, repair, pending>>
    BY <1>6 DEF lakeVars
  <2> QED
    BY <1>a, <1>n, <2>1 DEF Series
<1>7. CASE Quiet /\ Dawn
  BY <1>1, <1>7
<1> QED
  BY <1>2, <1>3, <1>4, <1>5, <1>6, <1>7 DEF LakeMove

LEMMA SeriesInvStep ==
  ASSUME Alone, DividendsTrade, FactorsThere, PagesWhole
  PROVE  SeriesInv /\ [Next]_vars => SeriesInv'
<1> SUFFICES ASSUME SeriesInv, [Next]_vars PROVE SeriesInv'
  OBVIOUS
<1>1. RowsInv' /\ LakeMove
  BY RowsInvStep, LakeMoves DEF SeriesInv, RowsInv, RepairInv
<1> QED
  BY <1>1, SeriesStep DEF SeriesInv

\* A series never mixes two bases without its symbol waiting in the sidecar, whatever
\* page or recomputation fails, whatever halts, whenever the server dies and a repair
\* runs: as long as a factor changes only on a day on which its symbol trades, the
\* factors of both days of every sync are there, the pages of a repair come whole, and
\* no sync of a starting server meets another.
THEOREM OneBasisKept ==
  ASSUME Alone, DividendsTrade, FactorsThere, PagesWhole
  PROVE  Spec => []OneBasis
<1>1. SeriesInv => OneBasis
  <2> SUFFICES ASSUME SeriesInv PROVE OneBasis
    OBVIOUS
  <2>a. /\ TypeInv /\ Calendar /\ AllProper /\ Series /\ lake \in Table /\ sync.new \in Table
        /\ 1 \in Day
    BY Bounds DEF SeriesInv, RowsInv, RepairInv
  <2>1. ASSUME NEW t \in Table, Proper(t), NEW s \in Sym, InSeries(t, s) PROVE ~Mixed(t, s)
    <3>1. \A d \in Day : t[d][s] # 0 => d <= LastDay(t)
      BY <2>a, <2>1, LastDayIs
    <3>2. \A d \in Day : t[d][s] # 0 => t[d][s] = Factor(s, LastDay(t))
      BY <2>1, <3>1 DEF InSeries
    <3> QED
      BY <3>2 DEF Mixed
  <2>2. ASSUME NEW s \in Sym, Mixed(lake, s), s \notin pending
        PROVE  sync.at = "write" /\ ~Mixed(sync.new, s)
    <3>1. sync.at = "write"
      BY <2>a, <2>1, <2>2 DEF Series, AllProper
    <3>2. InSeries(sync.new, s) /\ Proper(sync.new)
      BY <2>a, <2>2, <3>1 DEF Series, AllProper
    <3> QED
      BY <2>a, <2>1, <3>1, <3>2
  <2> QED
    BY <2>2 DEF OneBasis
<1>2. SeriesInv /\ [Next]_vars => SeriesInv'
  BY SeriesInvStep
<1>3. Init => SeriesInv
  BY SeriesInit
<1> QED
  BY <1>1, <1>2, <1>3, PTL DEF Spec

-----------------------------------------------------------------------------
(***************************************************************************)
(* What ready promises, where one day at most comes cut short.             *)
(***************************************************************************)
OneCut == MaxCuts <= 1

Full(t, d) == \A s \in Sym \ Firm : t[d][s] # 0

\* A table lacks rows of the bulk on one day at most, and only once a day was cut.
Thin(t) ==
    \A d, e \in Day :
        d <= LastDay(t) /\ e <= LastDay(t) /\ ~Full(t, d) /\ ~Full(t, e) => d = e /\ cuts # 0

\* Only single companies halt.
BulkTrades == \A d \in Day : Sym \ Firm \subseteq src[d]

\* A run of the sync has every row of the lake it will replace.
Grown ==
    sync.at \in {"fetch", "save", "write"} =>
        \A d \in Day, s \in Sym : lake[d][s] # 0 => sync.new[d][s] # 0

AllThin ==
    /\ Thin(lake)
    /\ sync.at \in {"save", "write"} => Thin(sync.new)
    /\ repair.at = "write" => Thin(repair.new)

ReadyFull == \A d \in Day : ready[d] = "ok" => Full(lake, d)

BulkInv == RowsInv /\ BulkTrades /\ Grown /\ AllThin /\ ReadyFull

LEMMA FetchKeeps ==
  ASSUME TypeInv, NEW t, Proper(t), NEW window, NEW lost, NEW done, NEW d \in Day, NEW s \in Sym,
         t[d][s] # 0
  PROVE  Recomputed(Appended(t, window, lost), done)[d][s] # 0
<1>1. d <= today /\ s \in Known(d)
  BY DEF Proper
<1>2. d \in History(s)
  <2>1. d \in 1 .. today
    <3>1. d \in Int /\ d >= 1 /\ today \in Int
      BY Bounds DEF Day
    <3> QED
      BY <1>1, <3>1
  <2> QED
    BY <1>1, <2>1 DEF History, Traded
<1>3. Appended(t, window, lost)[d][s] # 0
  BY FactorIs DEF Appended
<1> QED
  BY <1>2, <1>3, FactorIs DEF Recomputed

LEMMA FetchThin ==
  ASSUME OneCut, RowsInv, BulkTrades, NEW t \in Table, Proper(t), Thin(t),
         NEW lost \in SUBSET Sym, Cut(lost), cuts' = cuts + (IF lost = {} THEN 0 ELSE 1), NEW done
  PROVE  LET all == Recomputed(Appended(t, LastDay(t) + 1 .. today, lost), done) IN
         \A d, e \in Day :
            d <= LastDay(all) /\ e <= LastDay(all) /\ ~Full(all, d) /\ ~Full(all, e)
               => d = e /\ cuts' # 0
<1> DEFINE L   == LastDay(t)
           mid == Appended(t, L + 1 .. today, lost)
           all == Recomputed(mid, done)
           N   == LastDay(all)
<1>0. TypeInv /\ Calendar
  BY DEF RowsInv, RepairInv
<1>a. /\ today \in Day /\ today \in Int /\ 1 \in Day /\ \A d \in Day : d \in Int /\ d >= 1
      /\ cuts \in Nat /\ cuts <= 1
  <2>1. cuts \in 0 .. MaxCuts
    BY <1>0 DEF TypeInv, TypeOK, LakeTypeOK
  <2> QED
    BY <1>0, <2>1, Bounds, LakeAssumption DEF Day, OneCut
<1>m. mid \in Table /\ all \in Table /\ Proper(all)
  BY <1>0, AppendedIsTable, RecomputedIsTable, FetchProper
<1>1. L \in Day /\ L <= today
  BY <1>0, <1>a, LastDayIs
<1>2. /\ N \in Day /\ N <= today /\ \E r \in Sym : all[N][r] # 0
  BY <1>0, <1>a, <1>m, LastDayIs
<1>k. \A d \in Day, s \in Sym : t[d][s] # 0 => all[d][s] # 0
  BY <1>0, FetchKeeps
<1>n. \A d \in Day, s \in Sym : L < d /\ d <= today /\ s \in Known(d) /\ ~(d = today /\ s \in lost)
                               => all[d][s] # 0
  <2> SUFFICES ASSUME NEW d \in Day, NEW s \in Sym, L < d, d <= today, s \in Known(d),
                      ~(d = today /\ s \in lost)
               PROVE  all[d][s] # 0
    OBVIOUS
  <2>1. d \in Int /\ d >= 1 /\ L \in Int
    BY <1>a, <1>1
  <2>2. d \in 1 .. today
    BY <1>a, <2>1
  <2>3. d \in L + 1 .. today
    <3> HIDE DEF L
    <3> QED
      BY <1>a, <2>1
  <2>4. mid[d][s] # 0
    BY <2>3, FactorIs DEF Appended
  <2> HIDE DEF mid
  <2> QED
    BY <2>2, <2>4, FactorIs DEF Recomputed, History, Traded
<1>p. \A s \in Sym : all[N][s] # 0 => s \in Known(N)
  BY <1>m, <1>2 DEF Proper
<1> HIDE DEF mid, all, L, N
<1>3. N = today => out
  BY <1>p, <1>2, <1>a DEF Known
<1>4. ASSUME NEW d \in Day, d <= N, ~Full(all, d)
      PROVE  \/ d <= L /\ ~Full(t, d)
             \/ lost # {} /\ d = today /\ L < d
  <2>1. PICK s \in Sym \ Firm : all[d][s] = 0
    BY <1>4 DEF Full
  <2>2. t[d][s] = 0
    BY <1>k, <2>1
  <2>3. CASE d <= L
    BY <2>1, <2>2, <2>3 DEF Full
  <2>4. CASE ~(d <= L)
    <3>1. L < d /\ d <= today /\ (d = today => N = today)
      <4>1. d \in Int /\ L \in Int /\ N \in Int
        BY <1>a, <1>1, <1>2
      <4> QED
        BY <1>a, <1>2, <1>4, <2>4, <4>1
    <3>2. s \in Known(d)
      BY <1>3, <3>1 DEF BulkTrades, Known
    <3> QED
      BY <1>n, <2>1, <3>1, <3>2
  <2> QED
    BY <2>3, <2>4
<1>5. lost # {} => cuts = 0 /\ cuts' = 1
  <2> SUFFICES ASSUME lost # {} PROVE cuts = 0 /\ cuts' = 1
    OBVIOUS
  <2>1. cuts < MaxCuts /\ MaxCuts <= 1 /\ MaxCuts \in Nat
    BY LakeAssumption DEF Cut, OneCut
  <2>2. cuts = 0
    BY <1>a, <2>1
  <2> QED
    BY <2>2
<1>6. lost = {} => cuts' = cuts
  BY <1>a
<1>t. \A d, e \in Day : d <= L /\ e <= L /\ ~Full(t, d) /\ ~Full(t, e) => d = e /\ cuts # 0
  BY DEF Thin, L
<1>7. ASSUME NEW d \in Day, NEW e \in Day, d <= N, e <= N, ~Full(all, d), ~Full(all, e)
      PROVE  d = e /\ cuts' # 0
  <2>1. CASE lost = {}
    BY <1>4, <1>6, <1>7, <1>t, <2>1
  <2>2. CASE lost # {}
    <3>1. d = today /\ e = today
      BY <1>4, <1>5, <1>7, <1>t, <2>2
    <3> QED
      BY <1>5, <2>2, <3>1
  <2> QED
    BY <2>1, <2>2
<1> QED
  BY <1>7 DEF all, mid, L, N

LEMMA FilledKeeps ==
  ASSUME TypeInv, Calendar, NEW t \in Table, Proper(t), NEW new \in Table, Fills(t, new)
  PROVE  /\ \A d \in Day, s \in Sym : t[d][s] # 0 => new[d][s] # 0
         /\ LastDay(new) \in Day /\ LastDay(new) <= LastDay(t)
<1> DEFINE L == LastDay(t)
           N == LastDay(new)
<1>a. 1 \in Day /\ \A d \in Day : d \in Int
  BY Bounds
<1>m. new \in Table /\ Proper(new)
  BY FilledProper
<1>1. L \in Day /\ \A d \in Day, r \in Sym : t[d][r] # 0 => d <= L
  BY <1>a, LastDayIs
<1>2. N \in Day /\ \E r \in Sym : new[N][r] # 0
  BY <1>a, <1>m, LastDayIs
<1>3. \A d \in Day, r \in Sym : new[d][r] # t[d][r] => t[d][r] = 0 /\ <<d, r>> \in Gaps(t)
  BY DEF Fills
<1> HIDE DEF N, L
<1>4. PICK r \in Sym : new[N][r] # 0
  BY <1>2
<1>5. CASE new[N][r] = t[N][r]
  BY <1>1, <1>2, <1>3, <1>4, <1>5 DEF N, L
<1>6. CASE new[N][r] # t[N][r]
  <2>1. <<N, r>> \in Gaps(t)
    BY <1>2, <1>3, <1>6
  <2>2. PICK e \in Day : N < e /\ t[e][r] # 0
    BY <2>1 DEF Gaps
  <2>3. e <= L
    BY <1>1, <2>2
  <2>4. N <= L
    BY <1>a, <1>1, <1>2, <2>2, <2>3
  <2> QED
    BY <1>2, <1>3, <2>4 DEF N, L
<1> QED
  BY <1>5, <1>6

LEMMA BulkInit == Init => BulkInv
<1> SUFFICES ASSUME Init PROVE BulkTrades /\ Grown /\ AllThin /\ ReadyFull
  BY RowsInit DEF BulkInv
<1>0. TypeInv /\ Calendar /\ Proper(lake) /\ 1 \in Day /\ lake \in Table
  BY RowsInit, Bounds DEF RowsInv, RepairInv, AllProper
<1>1. BulkTrades
  BY DEF Init, LakeInit, BulkTrades
<1>2. sync.at = "idle" /\ repair.at = "idle" /\ \A d \in Day : ready[d] # "ok"
  BY DEF Init, LakeInit, Idle, Resting
<1>3. LastDay(lake) \in Day /\ LastDay(lake) <= 2
  BY <1>0, LastDayIs DEF Init, LakeInit
<1>4. \A d \in Day : d \in Int /\ d >= 1
  BY LakeAssumption DEF Day
<1>5. PICK hole \in SUBSET Sym :
         /\ cuts = (IF hole = {} THEN 0 ELSE 1)
         /\ lake = [d \in Day |-> [s \in Sym |-> IF d = 1 \/ (d = 2 /\ s \notin hole) THEN 1 ELSE 0]]
  BY DEF Init, LakeInit
<1>6. \A d \in Day : d <= LastDay(lake) /\ ~Full(lake, d) => d = 2 /\ hole # {}
  <2> SUFFICES ASSUME NEW d \in Day, d <= LastDay(lake), ~Full(lake, d) PROVE d = 2 /\ hole # {}
    OBVIOUS
  <2>1. d = 1 \/ d = 2
    BY <1>3, <1>4
  <2> QED
    BY <1>5, <2>1 DEF Full
<1>7. Thin(lake)
  BY <1>5, <1>6 DEF Thin
<1> QED
  BY <1>1, <1>2, <1>7 DEF Grown, AllThin, ReadyFull

\* Freshness tells a day that is short of the bulk, if the day before is not.
LEMMA FreshIsFull ==
  ASSUME TypeInv, Calendar, Proper(lake), Thin(lake), Fresh(lake)
  PROVE  Full(lake, today)
<1> SUFFICES ASSUME ~Full(lake, today) PROVE FALSE
  OBVIOUS
<1>1. /\ today \in Day /\ today \in Int /\ today >= 2 /\ LastDay(lake) = today /\ lake \in Table
  BY Bounds DEF Calendar, Fresh
<1>2. today - 1 \in Day
  <2>1. today <= MaxDay /\ MaxDay \in Int
    BY <1>1, LakeAssumption DEF Day
  <2> QED
    BY <1>1, <2>1 DEF Day
<1>3. Full(lake, today - 1)
  <2>1. today - 1 <= today /\ today <= today /\ today - 1 # today
    BY <1>1
  <2> QED
    BY <1>1, <1>2, <2>1 DEF Thin
<1>4. Bulk(lake, today - 1) = Sym \ Firm
  BY <1>3 DEF Bulk, Rows, Full
<1>5. Bulk(lake, today) \subseteq Sym \ Firm /\ Bulk(lake, today) # Sym \ Firm
  <2>1. PICK s \in Sym \ Firm : lake[today][s] = 0
    BY DEF Full
  <2>2. s \notin Bulk(lake, today)
    BY <2>1 DEF Bulk, Rows
  <2> QED
    BY <2>1, <2>2 DEF Bulk, Rows
<1>6. IsFiniteSet(Sym \ Firm)
  BY LakeAssumption, FS_Subset
<1>7. /\ Cardinality(Bulk(lake, today)) \in Nat /\ Cardinality(Sym \ Firm) \in Nat
      /\ Cardinality(Bulk(lake, today)) <= Cardinality(Sym \ Firm)
      /\ Cardinality(Bulk(lake, today)) # Cardinality(Sym \ Firm)
  BY <1>5, <1>6, FS_Subset, FS_CardinalityType
<1>8. Cardinality(Bulk(lake, today)) >= Cardinality(Sym \ Firm)
  BY <1>4 DEF Fresh
<1> QED
  BY <1>7, <1>8

\* Only a check of a fresh lake, at rest, calls a day ready.
LEMMA ReadyMoves ==
  ASSUME TypeInv, Apart, [Next]_vars
  PROVE  \A d \in Day : ready'[d] = "ok" =>
            ready[d] = "ok" \/ (d = today /\ Fresh(lake) /\ lake' = lake)
<1>a. ready \in [Day -> {"none", "ok", "melted"}] /\ today \in Day
  BY Bounds DEF TypeInv, TypeOK
<1>1. CASE Verify
  BY <1>a, <1>1 DEF Verify
<1>2. CASE Check
  BY <1>a, <1>2 DEF Check
<1>3. CASE UNCHANGED ready
  BY <1>3
<1> QED
  BY <1>1, <1>2, <1>3 DEF Next, NextDay, Deadline, Market, Begin, Collected, Brief, Close,
     PipeCollected, PipeAgain, PipeOrphan, Kill, Restart, Work, BootWork, ChainStep, PipeStep,
     vars, chainVars

LEMMA BulkStep == ASSUME Alone, OneCut PROVE BulkInv /\ [Next]_vars => BulkInv'
<1> SUFFICES ASSUME BulkInv, [Next]_vars PROVE BulkInv'
  OBVIOUS
<1>a. RowsInv /\ TypeInv /\ Apart /\ Adds /\ GotIs /\ Calendar /\ AllProper /\ Copied /\ BulkTrades
      /\ Grown /\ AllThin /\ ReadyFull /\ LakeMove /\ RowsInv'
  BY LakeMoves, RowsInvStep DEF BulkInv, RowsInv, RepairInv
<1>b. /\ sync \in Syncs /\ repair \in Repairs /\ lake \in Table /\ sync.new \in Table
      /\ repair.new \in Table /\ Proper(lake)
  BY <1>a, Bounds DEF AllProper
\* What is left to show, of the lake and the runs.
<1> SUFFICES ASSUME TRUE
             PROVE  /\ BulkTrades' /\ Grown' /\ AllThin'
                    /\ \A d \in Day, s \in Sym : lake[d][s] # 0 => lake'[d][s] # 0
  <2>1. ASSUME \A d \in Day, s \in Sym : lake[d][s] # 0 => lake'[d][s] # 0 PROVE ReadyFull'
    <3>1. \A d \in Day : Full(lake, d) => Full(lake', d)
      BY <2>1 DEF Full
    <3>2. Fresh(lake) => Full(lake, today)
      BY <1>a, <1>b, FreshIsFull DEF AllThin
    <3>3. \A d \in Day : ready'[d] = "ok" => Full(lake', d)
      BY <1>a, <3>1, <3>2, ReadyMoves DEF ReadyFull
    <3> QED
      BY <3>3 DEF ReadyFull
  <2> QED
    BY <1>a, <2>1 DEF BulkInv
<1>1. CASE Quiet /\ Dawn
  <2>1. PICK H \in SUBSET Firm : src' = [src EXCEPT ![today + 1] = Sym \ H]
    BY <1>1 DEF Dawn
  <2>2. UNCHANGED <<lake, sync, repair, cuts>> /\ sync.at = "idle" /\ repair.at = "idle"
    BY <1>1 DEF Dawn, Quiet
  <2>3. BulkTrades'
    BY <1>a, <2>1, Bounds DEF BulkTrades
  <2> QED
    BY <1>a, <2>2, <2>3 DEF Grown, AllThin, Thin
<1> SUFFICES ASSUME UNCHANGED src
             PROVE  /\ Grown' /\ AllThin'
                    /\ \A d \in Day, s \in Sym : lake[d][s] # 0 => lake'[d][s] # 0
  <2>1. UNCHANGED src => BulkTrades'
    BY <1>a DEF BulkTrades
  <2> QED
    BY <1>1, <1>a, <2>1 DEF LakeMove, Asked, Spawned, Rest, Publish, SyncStep, SyncRead, SyncFails,
     SyncEmpty, SyncFetch, SyncSave, SyncWrite, RepairStep, RepairFetch, RepairFails,
     RepairMark, RepairWrite, lakeVars
<1>n. ASSUME cuts' = cuts
      PROVE  \A t : Thin(t) => Thin(t)'
  BY <1>n DEF Thin
<1>2. CASE Quiet /\ (Asked \/ Spawned)
  <2>1. UNCHANGED <<lake, cuts>> /\ sync.at = "idle" /\ repair.at = "idle"
    BY <1>2 DEF Asked, Spawned, Rest, Quiet
  <2>2. sync'.at \notin {"fetch", "save", "write"}
    BY <1>2, <2>1 DEF Asked, Spawned, Ask, Idle
  <2>3. repair'.at # "write"
    BY <1>2, <1>b, <2>1 DEF Asked, Spawned, RepairSpawn, Repairs
  <2> QED
    BY <1>a, <2>1, <2>2, <2>3 DEF Grown, AllThin, Thin
<1>3. CASE Publish
  <2>1. UNCHANGED <<lake, sync, repair, cuts>>
    BY <1>3 DEF Publish
  <2> QED
    BY <1>a, <2>1 DEF Grown, AllThin, Thin
<1>4. CASE SyncStep
  <2>0. repair'.at = "idle"
    BY <1>4, <1>a, SyncOnly DEF Apart
  <2>1. CASE SyncRead
    <3>1. UNCHANGED <<lake, cuts>>
      BY <2>1 DEF SyncRead
    <3>2. sync'.at \notin {"save", "write"} /\ (sync'.at = "fetch" => sync'.new = lake)
      <4>1. CASE SyncDone(TRUE)
        BY <4>1, SyncOver
      <4>2. CASE sync' = [sync EXCEPT !.at = "fetch", !.new = lake]
        BY <4>2, <1>b DEF Syncs
      <4> QED
        BY <2>1, <4>1, <4>2, SyncReads
    <3> QED
      BY <1>a, <2>0, <3>1, <3>2 DEF Grown, AllThin, Thin
  <2>2. CASE SyncFails \/ SyncEmpty
    <3>1. UNCHANGED <<lake, cuts>> /\ sync'.at = "idle"
      BY <2>2, SyncOver DEF SyncFails, SyncEmpty
    <3> QED
      BY <1>a, <2>0, <3>1 DEF Grown, AllThin, Thin
  <2>3. CASE SyncFetch
    <3> DEFINE window == LastDay(lake) + 1 .. today
    <3>0. sync.at = "fetch" /\ sync.new = lake /\ UNCHANGED lake
      BY <2>3, <1>a DEF SyncFetch, Copied
    <3>f. PICK lost \in SUBSET Sym, seen \in SUBSET Sym :
             \E failed, a : Fetches(lost, seen, failed, a)
      BY <2>3, SyncFetches
    <3>1. PICK failed, a : Fetches(lost, seen, failed, a)
      BY <3>f
    <3>3. PICK done : done = ToRecompute(window, lost, seen) \ failed
      OBVIOUS
    <3>2. /\ Cut(lost) /\ cuts' = cuts + (IF lost = {} THEN 0 ELSE 1)
          /\ a \in {"save", "write"}
          /\ sync' = [sync EXCEPT !.at = a,
               !.new = Recomputed(Appended(lake, window, lost), done), !.failed = failed]
      BY <3>0, <3>1, <3>3 DEF Fetches
    <3>4. PICK all : all = Recomputed(Appended(lake, window, lost), done)
      OBVIOUS
    <3>5. sync' = [sync EXCEPT !.at = a, !.new = all, !.failed = failed]
      BY <3>2, <3>3, <3>4
    <3>6. sync'.at = a /\ sync'.new = all
      BY <3>5, <1>b DEF Syncs
    <3>7. \A d \in Day, s \in Sym : lake[d][s] # 0 => all[d][s] # 0
      <4> SUFFICES ASSUME NEW d \in Day, NEW s \in Sym, lake[d][s] # 0 PROVE all[d][s] # 0
        OBVIOUS
      <4>1. Recomputed(Appended(lake, window, lost), done)[d][s] # 0
        BY <1>a, <1>b, FetchKeeps
      <4> QED
        BY <3>4, <4>1
    <3>8. \A d, e \in Day :
            d <= LastDay(all) /\ e <= LastDay(all) /\ ~Full(all, d) /\ ~Full(all, e)
               => d = e /\ cuts' # 0
      <4>1. Thin(lake)
        BY <1>a DEF AllThin
      <4> QED
        BY <1>a, <1>b, <3>2, <3>4, <4>1, FetchThin
    <3>9. Thin(lake)'
      <4>1. Thin(lake) /\ cuts \in Int /\ (cuts # 0 => cuts' # 0)
        <5>1. cuts \in Nat
          BY <1>a, LakeAssumption DEF TypeInv, TypeOK, LakeTypeOK
        <5> QED
          BY <1>a, <3>2, <5>1 DEF AllThin
      <4> QED
        BY <3>0, <4>1 DEF Thin
    <3>10. Grown'
      BY <3>0, <3>6, <3>7 DEF Grown
    <3>11. Thin(sync.new)'
      BY <3>6, <3>8 DEF Thin
    <3> QED
      BY <2>0, <3>0, <3>9, <3>10, <3>11 DEF AllThin
  <2>4. CASE SyncSave
    <3>1. UNCHANGED <<lake, cuts>> /\ sync.at = "save" /\ sync'.new = sync.new
      BY <2>4, <1>b DEF SyncSave, Syncs
    <3> QED
      BY <1>a, <2>0, <3>1 DEF Grown, AllThin, Thin
  <2>5. CASE SyncWrite
    <3>1. lake' = sync.new /\ sync.at = "write" /\ sync'.at = "idle" /\ UNCHANGED cuts
      BY <2>5, SyncOver DEF SyncWrite
    <3> QED
      BY <1>a, <2>0, <3>1 DEF Grown, AllThin, Thin
  <2> QED
    BY <1>4, <2>1, <2>2, <2>3, <2>4, <2>5 DEF SyncStep
<1>5. CASE RepairStep
  <2>0. UNCHANGED <<sync, cuts>> /\ sync.at = "idle" /\ repair.at # "idle"
    BY <1>5, <1>a, RepairOnly DEF Apart, RepairStep, RepairFetch, RepairFails, RepairMark, RepairWrite
  <2>1. CASE RepairFetch
    <3>1. UNCHANGED lake /\ repair'.at = "mark"
      BY <2>1, <1>b DEF RepairFetch, Repairs
    <3> QED
      BY <1>a, <2>0, <3>1 DEF Grown, AllThin, Thin
  <2>2. CASE RepairMark
    <3>1. UNCHANGED lake /\ repair.at = "mark" /\ repair.new = lake
      BY <2>2, <1>a DEF RepairMark, Adds
    <3>2. PICK all : all = Filled(lake, repair.got)
      OBVIOUS
    <3>3. repair' = [repair EXCEPT !.at = "write", !.new = all]
      BY <2>2, <3>1, <3>2 DEF RepairMark
    <3>4. repair'.at = "write" /\ repair'.new = all
      BY <3>3, <1>b DEF Repairs
    <3>5. /\ \A d \in Day, s \in Sym : lake[d][s] # 0 => all[d][s] # 0
          /\ LastDay(all) \in Day /\ LastDay(all) <= LastDay(lake)
      <4>1. Fills(lake, all) /\ all \in Table
        BY <1>a, <1>b, <3>1, <3>2, FilledFills, FilledIsTable DEF Repairs
      <4> QED
        BY <1>a, <1>b, <4>1, FilledKeeps
    <3>6. \A d \in Day : d <= LastDay(all) => d <= LastDay(lake)
      <4>1. LastDay(lake) \in Int /\ LastDay(all) \in Int /\ \A d \in Day : d \in Int
        BY <1>a, <1>b, <3>5, Bounds, LastDayIs
      <4> QED
        BY <3>5, <4>1
    <3>7. \A d \in Day : ~Full(all, d) => ~Full(lake, d)
      BY <3>5 DEF Full
    <3>8. Thin(all)
      BY <1>a, <3>6, <3>7 DEF Thin, AllThin
    <3> QED
      BY <1>a, <2>0, <3>1, <3>4, <3>8 DEF Grown, AllThin, Thin
  <2>3. CASE RepairWrite
    <3>1. lake' = repair.new /\ repair.at = "write" /\ repair'.at = "idle"
      BY <2>3 DEF RepairWrite, Resting
    <3>2. \A d \in Day, s \in Sym : lake[d][s] # 0 => lake'[d][s] # 0
      BY <1>a, <3>1 DEF Adds
    <3> QED
      BY <1>a, <2>0, <3>1, <3>2 DEF Grown, AllThin, Thin
  <2>4. CASE RepairFails
    <3>1. UNCHANGED lake /\ repair'.at = "idle"
      BY <2>4 DEF RepairFails, Resting
    <3> QED
      BY <1>a, <2>0, <3>1 DEF Grown, AllThin, Thin
  <2> QED
    BY <1>5, <2>1, <2>2, <2>3, <2>4 DEF RepairStep
<1>6. CASE UNCHANGED lakeVars
  <2>1. UNCHANGED <<lake, sync, repair, cuts>>
    BY <1>6 DEF lakeVars
  <2> QED
    BY <1>a, <2>1 DEF Grown, AllThin, Thin
<1>7. CASE Quiet /\ Dawn
  BY <1>1, <1>7
<1> QED
  BY <1>a, <1>2, <1>3, <1>4, <1>5, <1>6, <1>7 DEF LakeMove

\* A day called ready has the rows of the bulk, then and later, whatever the pages of a
\* repair bring, if one day at most came cut short to a sync (the check compares a day
\* with the one before, and two in a row deceive it) and no sync of a starting server
\* meets another.
THEOREM ReadyMeansThere == ASSUME Alone, OneCut PROVE Spec => []ReadyIsTrue
<1>1. BulkInv => ReadyIsTrue
  <2> SUFFICES ASSUME BulkInv, NEW d \in Day, IsReady(d) PROVE src[d] \ Firm \subseteq Rows(lake, d)
    BY DEF ReadyIsTrue
  <2>1. Full(lake, d) /\ src[d] \subseteq Sym
    BY Bounds DEF BulkInv, ReadyFull, IsReady, RowsInv, RepairInv
  <2> QED
    BY <2>1 DEF Full, Rows
<1>2. BulkInv /\ [Next]_vars => BulkInv'
  BY BulkStep
<1> QED
  BY <1>1, <1>2, BulkInit, PTL DEF Spec
=============================================================================
