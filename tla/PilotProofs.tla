---------------------------- MODULE PilotProofs ----------------------------
(***************************************************************************)
(* Proofs about Pilot: type correctness for every fault, and SellsCovered  *)
(* for the faults of GoodFaults, both for every value of the other         *)
(* constants.                                                              *)
(***************************************************************************)
EXTENDS PilotInv, TLAPS

(***************************************************************************)
(* Types of the ledger's operators.                                        *)
(***************************************************************************)
LEMMA ProductNat == ASSUME NEW a \in Nat, NEW b \in Nat PROVE a * b \in Nat
  OBVIOUS

\* A share of a count is a count, and no more than the whole.
LEMMA ShareBound ==
  ASSUME NEW a \in Nat, NEW b \in Nat, NEW d \in Nat \ {0}, b <= d
  PROVE  (a * b) \div d \in Nat /\ (a * b) \div d <= a
<1> DEFINE q == (a * b) \div d
<1>1. a * b \in Nat
  BY ProductNat
<1>2. q \in Nat /\ q * d <= a * b
  BY <1>1
<1>3. a * b <= a * d
  OBVIOUS
<1>4. q <= a
  <2> SUFFICES ASSUME q >= a + 1 PROVE FALSE
    BY <1>2
  <2>1. q * d >= (a + 1) * d
    BY <1>2
  <2>2. (a + 1) * d = a * d + d
    OBVIOUS
  <2> QED
    BY <2>1, <2>2, <1>2, <1>3
<1> QED
  BY <1>2, <1>4

Purpose == BuyAmount \cup SellSide

LEMMA NoPositionType == NoPosition \in Position
  BY DEF NoPosition, Position

LEMMA InitialStateType == InitialState \in PilotState
<1>1. (CHOOSE s \in Sym : TRUE) \in Sym
  BY LedgerAssumption
<1>2. [sym |-> CHOOSE s \in Sym : TRUE, purpose |-> "UNKNOWN", qty |-> 0, filled |-> 0,
       st |-> "NONE", day |-> 0] \in Order
  BY <1>1 DEF Order, BuyAmount
<1> QED
  BY <1>2, NoPositionType DEF InitialState, PilotState

LEMMA AbsorbOrderType ==
  ASSUME NEW m \in PilotState, NEW sn \in [Oid -> CounterOrder], NEW yg, NEW o \in Oid
  PROVE  AbsorbOrder(m, sn, yg, o) \in Order
<1>1. m.ord[o] \in Order /\ sn[o] \in CounterOrder
  BY DEF PilotState
<1>2. LocalStatus(sn[o].st) \in {"NONE", "SUBMITTED"} \cup Terminal
  BY DEF LocalStatus, Terminal
<1> QED
  BY <1>1, <1>2 DEF AbsorbOrder, Order, CounterOrder, BuyAmount, Terminal, Live

LEMMA LocalStatusLive == LocalStatus("live") = "SUBMITTED"
BY DEF LocalStatus

\* What the reconciliation makes of one record.
LEMMA AbsorbOrderFacts ==
  ASSUME NEW m \in PilotState, NEW sn \in [Oid -> CounterOrder], NEW yg, NEW o \in Oid
  PROVE  LET r == AbsorbOrder(m, sn, yg, o)
         IN  /\ sn[o].vis => r.st = LocalStatus(sn[o].st)
             /\ sn[o].vis /\ m.ord[o].st = "NONE" => r.sym = sn[o].sym /\ r.purpose = "UNKNOWN"
             /\ m.ord[o].st # "NONE" => r.sym = m.ord[o].sym /\ r.purpose = m.ord[o].purpose
             /\ ~sn[o].vis /\ m.ord[o].st = "NONE" => r = m.ord[o]
<1> DEFINE l == LocalStatus(sn[o].st)
<1>1. m.ord[o] \in Order
  BY DEF PilotState
<1>2. CASE sn[o].vis /\ m.ord[o].st = "NONE"
  <2>1. AbsorbOrder(m, sn, yg, o) =
          [sym |-> sn[o].sym, purpose |-> "UNKNOWN", qty |-> sn[o].qty,
           filled |-> sn[o].filled, st |-> l, day |-> sn[o].day]
    BY <1>2, Zenon DEF AbsorbOrder
  <2> HIDE DEF l
  <2> QED
    BY <1>2, <2>1 DEF l
<1>3. CASE sn[o].vis /\ m.ord[o].st # "NONE"
  <2>1. AbsorbOrder(m, sn, yg, o) =
          [m.ord[o] EXCEPT !.st = l, !.qty = sn[o].qty, !.filled = sn[o].filled]
    BY <1>3, Zenon DEF AbsorbOrder
  <2> HIDE DEF l
  <2>2. /\ AbsorbOrder(m, sn, yg, o).st = l
        /\ AbsorbOrder(m, sn, yg, o).sym = m.ord[o].sym
        /\ AbsorbOrder(m, sn, yg, o).purpose = m.ord[o].purpose
    BY <1>1, <2>1 DEF Order
  <2> QED
    BY <1>3, <2>2 DEF l
<1>4. CASE ~sn[o].vis
  BY <1>1, <1>4 DEF AbsorbOrder, Order, Live
<1> QED
  BY <1>2, <1>3, <1>4

LEMMA AbsorbPositionType ==
  ASSUME NEW m \in PilotState, NEW ord \in [Oid -> Order], NEW sn,
         NEW vl \in [Sym -> Nat], NEW s \in Sym
  PROVE  /\ AbsorbPosition(m, ord, sn, vl, s) \in Position
         /\ AbsorbPosition(m, ord, sn, vl, s).rem = vl[s]
<1>1. m.pos[s] \in Position
  BY DEF PilotState
<1>2. FromFills(m, ord, sn, s) \in Position
  <2> DEFINE fresh == NewFills(m, sn, s)
             first == ord[CHOOSE o \in fresh : TRUE]
  <2>1. CASE fresh # {} /\ ~m.pos[s].present
    <3>1. (CHOOSE o \in fresh : TRUE) \in Oid
      BY <2>1 DEF NewFills
    <3>2. first.day \in Nat
      BY <3>1 DEF Order
    <3>3. ASSUME NEW d \in Nat, NEW b \in BOOLEAN
          PROVE  [NoPosition EXCEPT !.present = TRUE, !.entry = d, !.ep = b] \in Position
      BY NoPositionType DEF Position
    <3>4. FromFills(m, ord, sn, s) =
             [NoPosition EXCEPT !.present = TRUE, !.entry = first.day,
                                !.ep = (first.purpose \in BuySide)]
      BY <2>1, Zenon DEF FromFills
    <3>5. (first.purpose \in BuySide) \in BOOLEAN
      OBVIOUS
    <3> QED
      BY <3>2, <3>3, <3>4, <3>5, ZenonT(40)
  <2>2. CASE ~(fresh # {} /\ ~m.pos[s].present)
    BY <1>1, <2>2 DEF FromFills
  <2> QED
    BY <2>1, <2>2
<1> QED
  BY <1>2 DEF AbsorbPosition, Position

LEMMA AbsorbType ==
  ASSUME NEW m \in PilotState, NEW sn \in [Oid -> CounterOrder],
         NEW vl \in [Sym -> Nat], NEW yg
  PROVE  /\ Absorb(m, sn, vl, yg) \in PilotState
         /\ \A o \in Oid : Absorb(m, sn, vl, yg).ord[o] = AbsorbOrder(m, sn, yg, o)
         /\ \A s \in Sym : Absorb(m, sn, vl, yg).pos[s].rem = vl[s]
<1> DEFINE ord == [o \in Oid |-> AbsorbOrder(m, sn, yg, o)]
           ab(s) == AbsorbPosition(m, ord, sn, vl, s)
           pos == [s \in Sym |-> Enrich(ord, ab(s), s)]
<1>1. ord \in [Oid -> Order]
  BY AbsorbOrderType
<1>2. ASSUME NEW s \in Sym
      PROVE  Enrich(ord, ab(s), s) \in Position /\ Enrich(ord, ab(s), s).rem = vl[s]
  <2>1. ab(s) \in Position /\ ab(s).rem = vl[s]
    BY <1>1, AbsorbPositionType
  <2> HIDE DEF ab
  <2> QED
    BY <2>1 DEF Enrich, Position
<1>3. Absorb(m, sn, vl, yg) = [m EXCEPT !.ord = ord, !.pos = pos]
  BY DEF Absorb
<1>4. pos \in [Sym -> Position]
  BY <1>2
<1> HIDE DEF ord, pos
<1>5. Absorb(m, sn, vl, yg) \in PilotState /\ Absorb(m, sn, vl, yg).ord = ord
      /\ Absorb(m, sn, vl, yg).pos = pos
  BY <1>1, <1>3, <1>4 DEF PilotState
<1> QED
  BY <1>2, <1>5 DEF ord, pos

\* What an exit rule sells is part of what is held.
LEMMA VerdictType ==
  ASSUME NEW px \in Nat, NEW p \in Position, NEW d \in Nat
  PROVE  LET v == DecidePosition(px, p, d)
         IN  v.qty \in Nat /\ v.qty <= p.rem /\ (v.qty > 0 => v.reason \in SellSide)
<1>1. p.rem \in Nat /\ p.ep \in BOOLEAN
  BY DEF Position
<1>2. Portion(p) \in Nat /\ Portion(p) <= PDen /\ PDen \in Nat \ {0}
      /\ PDen - Portion(p) \in Nat /\ PDen - Portion(p) <= PDen
  BY LedgerAssumption DEF Portion
<1>3. Tp1Qty(p) \in Nat /\ Tp1Qty(p) <= p.rem
  <2>1. (p.rem * Portion(p)) \div PDen \in Nat /\ (p.rem * Portion(p)) \div PDen <= p.rem
    BY <1>1, <1>2, ShareBound
  <2> QED
    BY <1>1, <2>1 DEF Tp1Qty
<1>4. Tp2ShareQty(p) \in Nat /\ Tp2ShareQty(p) <= p.rem
  BY <1>1, <1>2, ShareBound DEF Tp2ShareQty
<1> QED
  BY <1>1, <1>3, <1>4 DEF DecidePosition, Verdict, SellSide

LEMMA SweptType ==
  ASSUME NEW p \in Position PROVE Swept(p) \in Position /\ Swept(p).rem = p.rem
BY DEF Swept, Position

LEMMA AfterSellType ==
  ASSUME NEW p \in Position, NEW r
  PROVE  AfterSell(p, r) \in Position /\ AfterSell(p, r).rem = p.rem
BY DEF AfterSell, Position

(***************************************************************************)
(* Types of Pilot.                                                         *)
(***************************************************************************)
Counters == [Oid -> CounterOrder]

LEMMA NoSnapType == NoSnap \in Counters /\ NoVol \in [Sym -> Nat]
<1>1. (CHOOSE s \in Sym : TRUE) \in Sym
  BY LedgerAssumption
<1> QED
  BY <1>1 DEF NoSnap, NoVol, NoOrder, CounterOrder, Counters

LEMMA NoTickType == NoTick \in [sym : Sym, px : Nat, acted : BOOLEAN]
<1>1. (CHOOSE s \in Sym : TRUE) \in Sym
  BY LedgerAssumption
<1> QED
  BY <1>1 DEF NoTick

LEMMA NewOrderType ==
  ASSUME day \in Nat, NEW s \in Sym, NEW side \in {"buy", "sell"}, NEW q \in Nat
  PROVE  NewOrder(s, side, q) \in CounterOrder
<1> DEFINE v == "lag" \notin Faults
<1>1. v \in BOOLEAN
  OBVIOUS
<1>2. NewOrder(s, side, q) = [sym |-> s, side |-> side, qty |-> q, filled |-> 0,
                              st |-> "live", vis |-> v, creq |-> FALSE, day |-> day]
  BY Zenon DEF NewOrder
<1> HIDE DEF v
<1> QED
  BY <1>1, <1>2 DEF CounterOrder

LEMMA TakeType ==
  ASSUME TypeOK, NEW o \in Oid, NEW s \in Sym, NEW side \in {"buy", "sell"}, NEW q \in Nat,
         Take(o, s, side, q)
  PROVE  cOrd' \in Counters /\ young' \subseteq Oid
<1>1. NewOrder(s, side, q) \in CounterOrder
  BY NewOrderType DEF TypeOK
<1> QED
  BY <1>1 DEF TypeOK, Take, PlacedNow, Counters

LEMMA FailedType ==
  ASSUME TypeOK, NEW s \in Sym, NEW side \in {"buy", "sell"}, NEW q \in Nat,
         Failed(s, side, q)
  PROVE  cOrd' \in Counters /\ young' \subseteq Oid
BY TakeType DEF TypeOK, Failed, FreeOid, Counters

LEMMA RecordedPositions ==
  ASSUME day \in Nat, NEW m \in PilotState, NEW o \in Oid, NEW s \in Sym,
         NEW p \in Purpose, NEW q \in Nat
  PROVE  Recorded(m, o, s, p, q) \in PilotState /\ Recorded(m, o, s, p, q).pos = m.pos
<1> DEFINE r == [sym |-> s, purpose |-> p, qty |-> q, filled |-> 0,
                 st |-> "SUBMITTED", day |-> day]
<1>1. r \in Order
  BY DEF Order, Purpose
<1>2. Recorded(m, o, s, p, q) = [m EXCEPT !.ord[o] = r]
  BY DEF Recorded
<1> HIDE DEF r
<1> QED
  BY <1>1, <1>2 DEF PilotState

LEMMA RecordedType ==
  ASSUME day \in Nat, NEW m \in PilotState, NEW o \in Oid, NEW s \in Sym,
         NEW p \in Purpose, NEW q \in Nat
  PROVE  /\ Recorded(m, o, s, p, q) \in PilotState
         /\ Recorded(m, o, s, p, q).pos = m.pos
         /\ Recorded(m, o, s, p, q).ord[o] =
               [sym |-> s, purpose |-> p, qty |-> q, filled |-> 0,
                st |-> "SUBMITTED", day |-> day]
         /\ \A x \in Oid \ {o} : Recorded(m, o, s, p, q).ord[x] = m.ord[x]
<1> DEFINE r == [sym |-> s, purpose |-> p, qty |-> q, filled |-> 0,
                 st |-> "SUBMITTED", day |-> day]
<1>1. r \in Order
  BY DEF Order, Purpose
<1>2. Recorded(m, o, s, p, q) = [m EXCEPT !.ord[o] = r]
  BY DEF Recorded
<1> HIDE DEF r
<1>3. Recorded(m, o, s, p, q) \in PilotState /\ Recorded(m, o, s, p, q).pos = m.pos
  BY RecordedPositions
<1>4. /\ Recorded(m, o, s, p, q).ord[o] = r
      /\ \A x \in Oid \ {o} : Recorded(m, o, s, p, q).ord[x] = m.ord[x]
  BY <1>2 DEF PilotState
<1> QED
  BY <1>3, <1>4 DEF r

LEMMA SyncedType ==
  ASSUME NEW m \in PilotState, NEW C
  PROVE  /\ Synced(m, C) \in PilotState /\ Synced(m, C).pos = m.pos
         /\ \A o \in Oid : Synced(m, C).ord[o] =
               IF o \in C /\ Live(m, o) THEN [m.ord[o] EXCEPT !.st = "CANCELLED"]
               ELSE m.ord[o]
<1> DEFINE c(o) == IF o \in C /\ Live(m, o) THEN [m.ord[o] EXCEPT !.st = "CANCELLED"]
                   ELSE m.ord[o]
<1>1. \A o \in Oid : c(o) \in Order
  BY DEF PilotState, Order, Terminal
<1>2. Synced(m, C) = [m EXCEPT !.ord = [o \in Oid |-> c(o)]]
  BY DEF Synced
<1> HIDE DEF c
<1>3. Synced(m, C) \in PilotState /\ Synced(m, C).pos = m.pos
      /\ \A o \in Oid : Synced(m, C).ord[o] = c(o)
  BY <1>1, <1>2 DEF PilotState
<1> QED
  BY <1>3 DEF c

LEMMA CancelNotedType ==
  ASSUME cOrd \in Counters, NEW C
  PROVE  /\ CancelNoted(C) \in Counters
         /\ \A o \in Oid : CancelNoted(C)[o] \in
               {cOrd[o], [cOrd[o] EXCEPT !.creq = TRUE]}
BY DEF CancelNoted, CounterOrder, Counters

LEMMA CounterUpdateType ==
  ASSUME NEW c \in CounterOrder, NEW st \in {"none", "live", "filled", "dead"},
         NEW f \in Nat, NEW b \in BOOLEAN
  PROVE  /\ [c EXCEPT !.filled = f, !.st = st] \in CounterOrder
         /\ [c EXCEPT !.st = st] \in CounterOrder
         /\ [c EXCEPT !.vis = b] \in CounterOrder
         /\ [c EXCEPT !.vis = b, !.st = st] \in CounterOrder
BY DEF CounterOrder

LEMMA SubscribingType ==
  ASSUME mem \in PilotState, sub \subseteq Sym, NEW S \in Subscribing PROVE S \subseteq Sym
BY DEF Subscribing, Watchlist, PilotState, Order, Live

LEMMA TypeInit == Init => TypeOK
<1> SUFFICES ASSUME Init PROVE TypeOK
  OBVIOUS
<1>1. blocked \in BOOLEAN
  BY DEF Init
<1>2. cOrd \in Counters /\ snap \in Counters /\ cPos \in [Sym -> Nat] /\ vol \in [Sym -> Nat]
  BY NoSnapType DEF Init
<1>3. disk \in PilotState /\ mem \in PilotState
  BY InitialStateType DEF Init
<1>4. tick \in [sym : Sym, px : Nat, acted : BOOLEAN]
  BY NoTickType DEF Init
<1>5. /\ day \in Nat \ {0} /\ phase = "pre" /\ young = {} /\ crashes \in Nat /\ sub = {}
      /\ fired \in Nat /\ job = "down" /\ step = "none" /\ todo = {} /\ oids = {}
  BY DEF Init
<1> QED
  BY <1>1, <1>2, <1>3, <1>4, <1>5 DEF TypeOK, Counters, Job, Step

\* What TickExit does with one outcome of the count of days.
ExitOn(today) ==
    LET s == tick.sym
        p == mem.pos[s]
        v == DecidePosition(tick.px, p, today)
        done == \/ step' = "exit_save" /\ UNCHANGED <<job, tick, todo>>
                \/ job' = "idle" /\ step' = "none" /\ tick' = NoTick /\ todo' = {}
    IN  \/ done /\ UNCHANGED <<cOrd, young, mem>>
        \/ done /\ mem' = [mem EXCEPT !.pos[s].tp2_done = TRUE] /\ UNCHANGED <<cOrd, young>>
        \/ /\ v.qty > 0 /\ ~HasOpenSell(mem, s)
           /\ Failed(s, "sell", v.qty) /\ done /\ UNCHANGED mem
        \/ /\ v.qty > 0 /\ ~HasOpenSell(mem, s)
           /\ \E o \in FreeOid :
                 /\ Take(o, s, "sell", v.qty)
                 /\ mem' = [Recorded(mem, o, s, v.reason, v.qty)
                               EXCEPT !.pos[s] = AfterSell(p, v.reason)]
           /\ step' = "exit_save" /\ UNCHANGED <<job, tick, todo>>

LEMMA ExitDay ==
  ASSUME TypeOK, TickExit PROVE \E today \in Nat : ExitOn(today)
<1>1. \A today \in Today(mem.pos[tick.sym].entry) : today \in Nat
  BY DEF Today, TypeOK, PilotState, Position
<1>2. \E today \in Today(mem.pos[tick.sym].entry) : ExitOn(today)
  BY ZenonT(40) DEF TickExit, ExitOn
<1> QED
  BY <1>1, <1>2

LEMMA TypeStep == TypeOK /\ [Next]_vars => TypeOK'
<1> SUFFICES ASSUME TypeOK, [Next]_vars PROVE TypeOK'
  OBVIOUS
<1> USE DEF TypeOK, vars, counter, world, pilot, ctl, Job, Step, Counters
<1>1. ASSUME NEW o \in Oid, CounterFill(o) PROVE TypeOK'
  <2> DEFINE st == IF cOrd[o].filled + 1 >= cOrd[o].qty THEN "filled" ELSE "live"
  <2>1. cOrd[o].sym \in Sym /\ cOrd[o].filled + 1 \in Nat /\ cOrd[o].side \in {"buy", "sell"}
    BY DEF CounterOrder
  <2>2. cOrd' = [cOrd EXCEPT ![o] = [cOrd[o] EXCEPT !.filled = cOrd[o].filled + 1,
                                                    !.st = st]]
    BY <1>1 DEF CounterFill
  <2>3. cOrd' \in Counters
    BY <2>1, <2>2, CounterUpdateType
  <2>4. cPos' \in [Sym -> Nat]
    BY <1>1, <2>1 DEF CounterFill
  <2> QED
    BY <1>1, <2>3, <2>4 DEF CounterFill
<1>2. ASSUME NEW o \in Oid, CounterClose(o) PROVE TypeOK'
  <2>1. [cOrd[o] EXCEPT !.st = "dead"] \in CounterOrder
    BY CounterUpdateType
  <2> QED
    BY <1>2, <2>1 DEF CounterClose
<1>3. ASSUME NEW o \in Oid, CounterReveal(o) PROVE TypeOK'
  <2>1. [cOrd[o] EXCEPT !.vis = TRUE] \in CounterOrder
    BY CounterUpdateType
  <2> QED
    BY <1>3, <2>1 DEF CounterReveal
<1>4. ASSUME NEW o \in Oid, GraceEnds(o) PROVE TypeOK'
  BY <1>4 DEF GraceEnds
<1>5. CASE Clock
  BY <1>5 DEF Clock
<1>6. CASE NewDay
  <2> DEFINE gone(o) == [cOrd[o] EXCEPT !.vis = FALSE,
                                        !.st = IF @ = "live" THEN "dead" ELSE @]
  <2>1. ASSUME NEW o \in Oid PROVE gone(o) \in CounterOrder
    <3>1. (IF cOrd[o].st = "live" THEN "dead" ELSE cOrd[o].st)
             \in {"none", "live", "filled", "dead"}
      BY DEF CounterOrder
    <3> QED
      BY <3>1, CounterUpdateType
  <2>2. PICK kept \in SUBSET Oid :
           cOrd' = [o \in Oid |-> IF o \in kept \/ cOrd[o].st = "none" THEN cOrd[o]
                                  ELSE gone(o)]
    BY <1>6 DEF NewDay
  <2> HIDE DEF gone
  <2>3. cOrd' \in Counters
    BY <2>1, <2>2
  <2>4. /\ day' = day + 1 /\ phase' = "pre" /\ young' = {}
        /\ UNCHANGED <<cPos, blocked, crashes, pilot>>
    BY <1>6 DEF NewDay
  <2> QED
    BY <2>3, <2>4
<1>7. CASE Flag
  BY <1>7 DEF Flag
<1>8. CASE Crash
  BY <1>8, NoSnapType, NoTickType DEF Crash
<1>9. CASE Start
  BY <1>9 DEF Start
<1>10. CASE BootSubscribe
  <2>1. sub' \subseteq Sym
    BY <1>10, SubscribingType DEF BootSubscribe
  <2> QED
    BY <1>10, <2>1, NoTickType DEF BootSubscribe, Idle
<1>11. CASE GetOrders
  BY <1>11, NoSnapType DEF GetOrders, NoSnap
<1>12. CASE GetPositions
  <2>1. mem' \in PilotState
    BY <1>12, AbsorbType DEF GetPositions
  <2>2. oids' \subseteq Oid
    BY <1>12 DEF GetPositions, TickEntries, Entries
  <2> QED
    BY <1>12, <2>1, <2>2, NoSnapType DEF GetPositions, AfterReconcile
<1>13. CASE QueryFails
  <2>1. oids' \subseteq Oid
    BY <1>13 DEF QueryFails, TickEntries, Entries
  <2> QED
    BY <1>13, <2>1, NoSnapType DEF QueryFails, AfterReconcile
<1>14. CASE SaveOrder
  BY <1>14 DEF SaveOrder
<1>15. CASE PreOpenJob
  BY <1>15 DEF PreOpenJob, PilotState
<1>16. ASSUME NEW o \in Oid, PreOpenCancel(o) PROVE TypeOK'
  <2>1. PICK C : cOrd' = CancelNoted(C) /\ mem' = Synced(mem, C)
    BY <1>16 DEF PreOpenCancel
  <2>2. cOrd' \in Counters /\ mem' \in PilotState
    BY <2>1, CancelNotedType, SyncedType
  <2> QED
    BY <1>16, <2>2 DEF PreOpenCancel
<1>30. CASE PreOpenQuery
  <2>1. sub' \subseteq Sym
    BY <1>30, SubscribingType DEF PreOpenQuery
  <2> QED
    BY <1>30, <2>1 DEF PreOpenQuery, YesterdaysBuys
<1>31. CASE PreOpenDuplicates
  BY <1>31 DEF PreOpenDuplicates, Duplicates
<1>32. CASE PreOpenOverdue
  BY <1>32 DEF PreOpenOverdue, Overdue
<1>17. ASSUME NEW s \in Sym, PreOpenExpire(s) PROVE TypeOK'
  <2>1. mem.pos[s].rem \in Nat
    BY DEF PilotState, Position
  <2>2. cOrd' \in Counters /\ young' \subseteq Oid
    BY <1>17, <2>1, TakeType, FailedType DEF PreOpenExpire, FreeOid
  <2>3. \A o \in Oid : Recorded(mem, o, s, "EXPIRE", mem.pos[s].rem) \in PilotState
    BY <2>1, RecordedType DEF Purpose, SellSide
  <2>4. mem' \in PilotState
    BY <1>17, <2>3 DEF PreOpenExpire, FreeOid
  <2> QED
    BY <1>17, <2>2, <2>4 DEF PreOpenExpire
<1>18. CASE PreOpenScan
  <2>1. mem' \in PilotState /\ todo' \subseteq Sym
    <3>1. CASE day \in mem.scan /\ todo' = {} /\ mem' = mem
      BY <3>1
    <3>2. ASSUME NEW S \in SUBSET {s \in Sym : Signalable(s)},
                 mem' = [mem EXCEPT !.scan = @ \cup {day},
                                    !.sig = [s \in Sym |-> IF s \in S THEN day
                                                           ELSE mem.sig[s]]],
                 todo' \in IF blocked THEN {{}} ELSE AmihudKeeps(S)
          PROVE  mem' \in PilotState /\ todo' \subseteq Sym
      <4>1. todo' \subseteq Sym
        BY <3>2 DEF AmihudKeeps
      <4>2. day \in Nat
        OBVIOUS
      <4> QED
        BY <3>2, <4>1, <4>2 DEF PilotState
    <3> QED
      BY <1>18, <3>1, <3>2 DEF PreOpenScan
  <2> QED
    BY <1>18, <2>1 DEF PreOpenScan
<1>19. ASSUME NEW s \in Sym, PreOpenBuy(s) PROVE TypeOK'
  <2>1. OrderQty \in Nat
    BY LedgerAssumption
  <2>2. cOrd' \in Counters /\ young' \subseteq Oid
    BY <1>19, <2>1, TakeType, FailedType DEF PreOpenBuy, FreeOid
  <2>3. \A o \in Oid : Recorded(mem, o, s, "OPEN", OrderQty) \in PilotState
    BY <2>1, RecordedType DEF Purpose, BuyAmount, BuySide
  <2>4. mem' \in PilotState
    BY <1>19, <2>3 DEF PreOpenBuy, FreeOid
  <2> QED
    BY <1>19, <2>2, <2>4 DEF PreOpenBuy
<1>20. CASE PreOpenRepairs
  BY <1>20 DEF PreOpenRepairs, DeadOrders
<1>21. ASSUME NEW d \in Oid, PreOpenRepair(d) PROVE TypeOK'
  <2>1. OrderQty \in Nat /\ mem.ord[d].sym \in Sym
    BY LedgerAssumption DEF PilotState, Order
  <2>2. cOrd' \in Counters /\ young' \subseteq Oid
    BY <1>21, <2>1, TakeType, FailedType DEF PreOpenRepair, FreeOid
  <2>3. \A o \in Oid : Recorded(mem, o, mem.ord[d].sym, "OPEN", OrderQty) \in PilotState
    BY <2>1, RecordedType DEF Purpose, BuyAmount, BuySide
  <2>4. mem' \in PilotState
    BY <1>21, <2>3 DEF PreOpenRepair, FreeOid
  <2> QED
    BY <1>21, <2>2, <2>4 DEF PreOpenRepair
<1>22. CASE PreOpenEnd
  <2>1. sub' \subseteq Sym
    BY <1>22, SubscribingType DEF PreOpenEnd
  <2> QED
    BY <1>22, <2>1, NoTickType, NoSnapType DEF PreOpenEnd, Idle
<1>23. CASE Repair
  BY <1>23 DEF Repair
<1>24. ASSUME NEW s \in Sym, NEW px \in Prices, TickStart(s, px) PROVE TypeOK'
  BY <1>24, PilotAssumption DEF TickStart, Entries
<1>25. ASSUME NEW o \in Oid, TickPending(o) PROVE TypeOK'
  <2>1. tick.sym \in Sym /\ mem.ord[o].qty \in Nat
    BY DEF PilotState, Order
  <2>2. \A C : Synced(mem, C) \in PilotState /\ CancelNoted(C) \in Counters
    BY SyncedType, CancelNotedType
  <2>3. \A n \in Oid : NewOrder(tick.sym, "buy", mem.ord[o].qty) \in CounterOrder
    BY <2>1, NewOrderType
  <2>4. \A C : \A n \in Oid :
           Recorded(Synced(mem, C), n, tick.sym, "CHASE", mem.ord[o].qty) \in PilotState
    BY <2>1, <2>2, RecordedType DEF Purpose, BuyAmount, BuySide
  <2>5. cOrd' \in Counters /\ mem' \in PilotState /\ young' \subseteq Oid
    BY <1>25, <2>2, <2>3, <2>4 DEF TickPending, FreeOid, PlacedNow
  <2> QED
    BY <1>25, <2>5 DEF TickPending
<1>26. CASE TickExit
  <2>0. PICK today \in Nat : ExitOn(today)
    BY <1>26, ExitDay
  <2> DEFINE s == tick.sym
             p == mem.pos[s]
             v == DecidePosition(tick.px, p, today)
  <2>1. s \in Sym /\ p \in Position
    BY DEF PilotState
  <2>2. v.qty \in Nat /\ (v.qty > 0 => v.reason \in Purpose)
    BY <2>1, VerdictType DEF Purpose
  <2> HIDE DEF v
  <2>3. cOrd' \in Counters /\ young' \subseteq Oid
    BY <2>0, <2>1, <2>2, TakeType, FailedType DEF ExitOn, FreeOid, v
  <2>4. mem' \in PilotState
    <3>1. [mem EXCEPT !.pos[s].tp2_done = TRUE] \in PilotState
      BY <2>1 DEF PilotState, Position
    <3>2. ASSUME NEW o \in Oid, v.qty > 0
          PROVE  [Recorded(mem, o, s, v.reason, v.qty)
                     EXCEPT !.pos[s] = AfterSell(p, v.reason)] \in PilotState
      <4>1. Recorded(mem, o, s, v.reason, v.qty) \in PilotState
        BY <2>1, <2>2, <3>2, RecordedType
      <4>2. AfterSell(p, v.reason) \in Position
        BY <2>1, AfterSellType
      <4> QED
        BY <4>1, <4>2, <2>1 DEF PilotState
    <3>3. \/ mem' = mem
          \/ mem' = [mem EXCEPT !.pos[s].tp2_done = TRUE]
          \/ v.qty > 0 /\ \E o \in Oid :
                mem' = [Recorded(mem, o, s, v.reason, v.qty)
                           EXCEPT !.pos[s] = AfterSell(p, v.reason)]
      <4> DEFINE After(o) == [Recorded(mem, o, s, v.reason, v.qty)
                                EXCEPT !.pos[s] = AfterSell(p, v.reason)]
      <4>1. \/ mem' = mem
            \/ mem' = [mem EXCEPT !.pos[s].tp2_done = TRUE]
            \/ v.qty > 0 /\ \E o \in FreeOid : mem' = After(o)
        BY <2>0, ZenonT(40) DEF ExitOn, v
      <4>2. FreeOid \subseteq Oid
        BY DEF FreeOid
      <4> QED
        BY <4>1, <4>2, Zenon
    <3>4. CASE \E o \in Oid : v.qty > 0 /\
                 mem' = [Recorded(mem, o, s, v.reason, v.qty)
                           EXCEPT !.pos[s] = AfterSell(p, v.reason)]
      BY <3>2, <3>4, Zenon
    <3>5. mem \in PilotState
      OBVIOUS
    <3> QED
      BY <3>1, <3>3, <3>4, <3>5, Zenon
  <2> QED
    BY <1>26, <2>0, <2>3, <2>4, NoTickType DEF TickExit, ExitOn
<1>27. CASE TickSave
  BY <1>27, NoTickType DEF TickSave, Idle
<1>28. CASE AfterClose
  <2>1. ASSUME NEW s \in Sym PROVE Swept(mem.pos[s]) \in Position
    <3>1. mem.pos[s] \in Position
      BY DEF PilotState
    <3> QED
      BY <3>1, SweptType
  <2>2. mem' \in PilotState
    BY <1>28, <2>1 DEF AfterClose, PilotState
  <2> QED
    BY <1>28, <2>2 DEF AfterClose
<1>29. CASE UNCHANGED vars
  BY <1>29
<1> QED
  BY <1>1, <1>2, <1>3, <1>4, <1>5, <1>6, <1>7, <1>8, <1>9, <1>10, <1>11, <1>12, <1>13,
     <1>14, <1>15, <1>16, <1>17, <1>18, <1>19, <1>20, <1>21, <1>22, <1>23, <1>24, <1>25,
     <1>26, <1>27, <1>28, <1>29, <1>30, <1>31, <1>32
     DEF Next, CounterStep, WorldStep, PilotStep, PreOpen, OnTick

\* Type correctness, whatever the faults: no callback, however cut short, leaves a
\* count negative or a state outside the table of statuses.
THEOREM TypeCorrect == Spec => []TypeOK
<1>1. Init => TypeOK
  BY TypeInit
<1>2. TypeOK /\ [Next]_vars => TypeOK'
  BY TypeStep
<1> QED
  BY <1>1, <1>2, PTL DEF Spec

(***************************************************************************)
(* SellsCovered.  The parts of SellInv that speak of orders and counts are *)
(* Books; the others say where the pilot is.                               *)
(***************************************************************************)
KnowsSells == \A o \in Oid : WorkingSell(o) => Live(mem, o)

WithinAccount == \A s \in Sym : KnownSells(s) = {} => mem.pos[s].rem <= cPos[s]

Books ==
    /\ Visible /\ Matches(mem) /\ Matches(disk)
    /\ KnowsSells /\ OneSell /\ Covered /\ WithinAccount

\* A symbol without a live record of a sell has no working sell, and what it is
\* booked with is in the account.
LEMMA FreeToSell ==
  ASSUME TypeOK, Matches(mem), KnowsSells, WithinAccount,
         NEW s \in Sym, ~HasOpenSell(mem, s)
  PROVE  /\ \A o \in Oid : WorkingSell(o) => cOrd[o].sym # s
         /\ mem.pos[s].rem <= cPos[s]
<1>1. KnownSells(s) = {}
  BY DEF KnownSells, HasOpenSell, Matches, Live
<1>2. ASSUME NEW o \in Oid, WorkingSell(o), cOrd[o].sym = s PROVE FALSE
  BY <1>1, <1>2 DEF KnowsSells, KnownSells, WorkingSell
<1> QED
  BY <1>1, <1>2 DEF WithinAccount

SameOrder(c, d) ==
    /\ c.sym = d.sym /\ c.side = d.side /\ c.qty = d.qty /\ c.filled = d.filled
    /\ c.st = d.st /\ c.vis = d.vis

\* The pilot cancels the orders C and places the orders N, at most one: the books
\* stay right if no working sell is cancelled and a new sell finds the way free.
LEMMA Move ==
  ASSUME TypeOK, TypeOK', Books,
         NEW C \in SUBSET Oid, NEW N \in SUBSET Oid,
         \A o \in C : Live(mem, o) => cOrd[o].side # "sell",
         \A n \in N : /\ cOrd[n].st = "none" /\ cOrd'[n].st = "live" /\ cOrd'[n].vis
                      /\ mem'.ord[n].st = "SUBMITTED" /\ mem'.ord[n].sym = cOrd'[n].sym
                      /\ cOrd'[n].side = "sell" =>
                            /\ mem'.ord[n].purpose \notin BuySide
                            /\ ~HasOpenSell(mem, cOrd'[n].sym)
                            /\ cOrd'[n].qty <= mem.pos[cOrd'[n].sym].rem
                            /\ cOrd'[n].filled = 0,
         \A n, k \in N : n = k,
         \A o \in Oid \ N : SameOrder(cOrd'[o], cOrd[o]),
         \A o \in Oid \ N : \/ mem'.ord[o] = mem.ord[o]
                            \/ /\ o \in C /\ Live(mem, o)
                               /\ mem'.ord[o] = [mem.ord[o] EXCEPT !.st = "CANCELLED"],
         \A s \in Sym : mem'.pos[s].rem = mem.pos[s].rem,
         cPos' = cPos, disk' = disk \/ disk' = mem \/ disk' = mem'
  PROVE  Books'
<1> USE DEF Books
<1>1. \A o \in Oid \ N : mem'.ord[o].sym = mem.ord[o].sym
                         /\ mem'.ord[o].purpose = mem.ord[o].purpose
                         /\ (mem'.ord[o].st = "NONE" => mem.ord[o].st = "NONE")
                         /\ (mem.ord[o].st = "NONE" => mem'.ord[o].st = "NONE")
                         /\ (mem'.ord[o].st = "SUBMITTED" => mem.ord[o].st = "SUBMITTED")
                         /\ (mem.ord[o].st = "SUBMITTED" /\ cOrd[o].side = "sell"
                                => mem'.ord[o].st = "SUBMITTED")
  <2> SUFFICES ASSUME NEW o \in Oid \ N
               PROVE  LET old == mem.ord[o]
                          new == mem'.ord[o]
                      IN  /\ new.sym = old.sym /\ new.purpose = old.purpose
                          /\ new.st = "NONE" => old.st = "NONE"
                          /\ old.st = "NONE" => new.st = "NONE"
                          /\ new.st = "SUBMITTED" => old.st = "SUBMITTED"
                          /\ old.st = "SUBMITTED" /\ cOrd[o].side = "sell"
                                => new.st = "SUBMITTED"
    BY Zenon
  <2>1. CASE mem'.ord[o] = mem.ord[o]
    BY <2>1
  <2>2. CASE /\ o \in C /\ Live(mem, o)
             /\ mem'.ord[o] = [mem.ord[o] EXCEPT !.st = "CANCELLED"]
    <3>1. mem.ord[o] \in Order
      BY DEF TypeOK, PilotState
    <3> QED
      BY <2>2, <3>1 DEF Order, Live
  <2> QED
    BY <2>1, <2>2
<1>2. Visible'
  BY DEF Visible, CLive, SameOrder
<1>3. Matches(mem)'
  BY <1>1 DEF Matches, SameOrder
<1>4. Matches(disk)'
  <2>1. CASE disk' = disk
    BY <2>1 DEF Matches, SameOrder
  <2>2. CASE disk' = mem
    BY <2>2 DEF Matches, SameOrder
  <2>3. CASE disk' = mem'
    BY <2>3, <1>3 DEF Matches
  <2> QED
    BY <2>1, <2>2, <2>3
<1>5. KnowsSells'
  BY <1>1 DEF KnowsSells, WorkingSell, CLive, Live, SameOrder
<1>6. \A n \in N : cOrd'[n].side = "sell" =>
          /\ \A o \in Oid : WorkingSell(o) => cOrd[o].sym # cOrd'[n].sym
          /\ mem.pos[cOrd'[n].sym].rem <= cPos[cOrd'[n].sym]
  BY FreeToSell DEF TypeOK, CounterOrder
<1>7. OneSell'
  BY <1>6 DEF OneSell, WorkingSell, CLive, SameOrder
<1>8. Covered'
  <2> SUFFICES ASSUME NEW o \in Oid, WorkingSell(o)'
               PROVE  Rest(o)' <= cPos[cOrd'[o].sym]
    BY DEF Covered
  <2>1. CASE o \in N
    BY <2>1, <1>6 DEF WorkingSell, Rest, TypeOK, CounterOrder, PilotState, Position
  <2>2. CASE o \notin N
    BY <2>2 DEF Covered, WorkingSell, CLive, Rest, SameOrder
  <2> QED
    BY <2>1, <2>2
<1>9. WithinAccount'
  <2> SUFFICES ASSUME NEW s \in Sym, KnownSells(s)' = {}
               PROVE  mem.pos[s].rem <= cPos[s]
    BY DEF WithinAccount
  <2>1. ASSUME NEW o \in Oid, o \in KnownSells(s) PROVE FALSE
    <3>1. o \notin N
      BY <2>1 DEF KnownSells, Live, Matches
    <3>2. o \in KnownSells(s)'
      BY <2>1, <3>1, <1>1 DEF KnownSells, Live, SameOrder
    <3> QED
      BY <3>2
  <2> QED
    BY <2>1 DEF WithinAccount, KnownSells
<1> QED
  BY <1>2, <1>3, <1>4, <1>5, <1>7, <1>8, <1>9

\* The counter fills, closes or shows orders; it opens none.
LEMMA CounterMove ==
  ASSUME TypeOK, TypeOK', SellInv, UNCHANGED pilot,
         \A o \in Oid : /\ cOrd'[o].sym = cOrd[o].sym /\ cOrd'[o].side = cOrd[o].side
                        /\ cOrd'[o].st = "none" <=> cOrd[o].st = "none"
                        /\ cOrd'[o].st = "live" => cOrd[o].st = "live" /\ cOrd'[o].vis
                        /\ cOrd'[o].vis => cOrd'[o].st # "none",
         \A o \in Oid : WorkingSell(o)' => Rest(o)' <= cPos'[cOrd[o].sym],
         InStep => \A s \in Sym : KnownSells(s) = {} => cPos[s] <= cPos'[s],
         (\A o \in Oid : cOrd[o].st = "none") => cPos' = cPos
  PROVE  SellInv'
<1> USE DEF SellInv, pilot, ctl
<1>1. JobInv' /\ TodoInv'
  BY DEF JobInv, TodoInv, HasOpenSell, Live
<1>9. EntryInv'
  <2>1. oids' = oids /\ step' = step /\ mem' = mem /\ oids \subseteq Oid /\ EntryInv
    BY DEF TypeOK
  <2> QED
    BY <2>1, SMTT(30) DEF EntryInv
<1>2. Visible'
  BY DEF Visible, CLive
<1>3. Matches(mem)' /\ Matches(disk)'
  BY DEF Matches
<1>4. SnapInv'
  BY DEF SnapInv, CLive
<1>5. FreshInv'
  BY DEF FreshInv
<1>6. Tracked' /\ OneSell'
  BY DEF Tracked, OneSell, InStep, WorkingSell, CLive, Live
<1>7. Covered'
  BY DEF Covered
<1>8. Booked'
  <2> SUFFICES ASSUME InStep, NEW s \in Sym, KnownSells(s)' = {}
               PROVE  mem.pos[s].rem <= cPos'[s]
    BY DEF Booked, InStep
  <2>1. KnownSells(s) = {}
    BY DEF KnownSells, Live
  <2>2. mem.pos[s].rem <= cPos[s] /\ cPos[s] <= cPos'[s]
    BY <2>1 DEF Booked
  <2>3. mem.pos[s].rem \in Nat /\ cPos[s] \in Nat /\ cPos'[s] \in Nat
    BY DEF TypeOK, PilotState, Position
  <2> QED
    BY <2>2, <2>3
<1> QED
  BY <1>1, <1>2, <1>3, <1>4, <1>5, <1>6, <1>7, <1>8, <1>9

\* A pilot that works through a callback is in step, and its books are right.
LEMMA InStepBooks == SellInv /\ InStep => Books
BY DEF SellInv, Books, Tracked, Booked, KnowsSells, WithinAccount

LEMMA BooksSuffice ==
  ASSUME Books', JobInv', SnapInv', FreshInv', TodoInv', EntryInv'
  PROVE  SellInv'
BY DEF SellInv, Books, Tracked, Booked, KnowsSells, WithinAccount

LEMMA TakeFacts ==
  ASSUME TypeOK, GoodFaults, NEW o \in FreeOid, NEW s \in Sym,
         NEW side \in {"buy", "sell"}, NEW q \in Nat, Take(o, s, side, q)
  PROVE  /\ o \in Oid /\ cOrd[o].st = "none"
         /\ cOrd'[o].st = "live" /\ cOrd'[o].vis /\ cOrd'[o].sym = s
         /\ cOrd'[o].side = side /\ cOrd'[o].qty = q /\ cOrd'[o].filled = 0
         /\ \A x \in Oid \ {o} : cOrd'[x] = cOrd[x]
BY DEF TypeOK, GoodFaults, FreeOid, Take, NewOrder

LEMMA FailedFacts ==
  ASSUME GoodFaults, NEW s, NEW side, NEW q, Failed(s, side, q)
  PROVE  cOrd' = cOrd
BY DEF GoodFaults, Failed

\* One order is placed and recorded; nothing is cancelled.
LEMMA Placed ==
  ASSUME TypeOK, TypeOK', GoodFaults, Books, NEW o \in FreeOid, NEW s \in Sym,
         NEW side \in {"buy", "sell"}, NEW p \in Purpose, NEW q \in Nat,
         Take(o, s, side, q), mem'.ord = Recorded(mem, o, s, p, q).ord,
         \A x \in Sym : mem'.pos[x].rem = mem.pos[x].rem,
         side = "sell" => /\ p \notin BuySide /\ ~HasOpenSell(mem, s)
                          /\ q <= mem.pos[s].rem,
         cPos' = cPos, disk' = disk
  PROVE  Books'
<1>1. /\ o \in Oid /\ cOrd[o].st = "none"
      /\ cOrd'[o].st = "live" /\ cOrd'[o].vis /\ cOrd'[o].sym = s
      /\ cOrd'[o].side = side /\ cOrd'[o].qty = q /\ cOrd'[o].filled = 0
      /\ \A x \in Oid \ {o} : cOrd'[x] = cOrd[x]
  BY TakeFacts
<1>2. /\ mem'.ord[o].st = "SUBMITTED" /\ mem'.ord[o].sym = s /\ mem'.ord[o].purpose = p
      /\ \A x \in Oid \ {o} : mem'.ord[x] = mem.ord[x]
  <2>1. day \in Nat /\ mem \in PilotState
    BY DEF TypeOK
  <2>2. /\ Recorded(mem, o, s, p, q).ord[o] =
              [sym |-> s, purpose |-> p, qty |-> q, filled |-> 0,
               st |-> "SUBMITTED", day |-> day]
        /\ \A x \in Oid \ {o} : Recorded(mem, o, s, p, q).ord[x] = mem.ord[x]
    BY <1>1, <2>1, RecordedType
  <2> QED
    BY <2>2
<1> DEFINE N == {o}
           C == {}
<1>3. \A x \in Oid \ N : SameOrder(cOrd'[x], cOrd[x]) /\ mem'.ord[x] = mem.ord[x]
  BY <1>1, <1>2 DEF SameOrder
<1>4. \A n \in N : /\ cOrd[n].st = "none" /\ cOrd'[n].st = "live" /\ cOrd'[n].vis
                   /\ mem'.ord[n].st = "SUBMITTED" /\ mem'.ord[n].sym = cOrd'[n].sym
                   /\ cOrd'[n].side = "sell" =>
                         /\ mem'.ord[n].purpose \notin BuySide
                         /\ ~HasOpenSell(mem, cOrd'[n].sym)
                         /\ cOrd'[n].qty <= mem.pos[cOrd'[n].sym].rem
                         /\ cOrd'[n].filled = 0
  BY <1>1, <1>2
<1>5. N \in SUBSET Oid /\ \A n, k \in N : n = k
  BY <1>1
<1>6. C \in SUBSET Oid /\ \A x \in C : Live(mem, x) => cOrd[x].side # "sell"
  OBVIOUS
<1> HIDE DEF N, C
<1> QED
  BY <1>3, <1>4, <1>5, <1>6, Move, ZenonT(40)

\* Nothing is placed and nothing is cancelled.
LEMMA Noted ==
  ASSUME TypeOK, TypeOK', Books, UNCHANGED <<cOrd, cPos>>, mem'.ord = mem.ord,
         \A x \in Sym : mem'.pos[x].rem = mem.pos[x].rem,
         disk' = disk \/ disk' = mem \/ disk' = mem'
  PROVE  Books'
<1> DEFINE N == {}
           C == {}
<1>1. \A o \in Oid \ N : SameOrder(cOrd'[o], cOrd[o]) /\ mem'.ord[o] = mem.ord[o]
  BY DEF SameOrder
<1>2. N \in SUBSET Oid /\ \A n, k \in N : n = k
  OBVIOUS
<1>3. \A n \in N : /\ cOrd[n].st = "none" /\ cOrd'[n].st = "live" /\ cOrd'[n].vis
                   /\ mem'.ord[n].st = "SUBMITTED" /\ mem'.ord[n].sym = cOrd'[n].sym
                   /\ cOrd'[n].side = "sell" =>
                         /\ mem'.ord[n].purpose \notin BuySide
                         /\ ~HasOpenSell(mem, cOrd'[n].sym)
                         /\ cOrd'[n].qty <= mem.pos[cOrd'[n].sym].rem
                         /\ cOrd'[n].filled = 0
  OBVIOUS
<1>4. C \in SUBSET Oid /\ \A x \in C : Live(mem, x) => cOrd[x].side # "sell"
  OBVIOUS
<1> HIDE DEF N, C
<1> QED
  BY <1>1, <1>2, <1>3, <1>4, Move

LEMMA SellInit == Init => SellInv
<1> SUFFICES ASSUME Init PROVE SellInv
  OBVIOUS
<1>1. \A o \in Oid : cOrd[o].st = "none" /\ ~cOrd[o].vis
  BY DEF Init, NoSnap, NoOrder
<1>2. \A o \in Oid : mem.ord[o].st = "NONE" /\ disk.ord[o].st = "NONE"
  BY DEF Init, InitialState
<1>3. \A s \in Sym : mem.pos[s].rem = 0 /\ disk.pos[s].rem = 0 /\ cPos[s] = 0
  BY DEF Init, InitialState, NoPosition, NoVol
<1>4. job = "down" /\ step = "none"
  BY DEF Init
<1> QED
  BY <1>1, <1>2, <1>3, <1>4
     DEF SellInv, JobInv, Visible, Matches, SnapInv, FreshInv, Tracked, OneSell, Covered,
         Booked, TodoInv, EntryInv, InStep, WorkingSell, CLive

(***************************************************************************)
(* SellInv is inductive: the counter's steps, the reconciliation, the      *)
(* callbacks.                                                              *)
(***************************************************************************)
LEMMA SellFill ==
  ASSUME TypeOK, TypeOK', SellInv, NEW o \in Oid, CounterFill(o)
  PROVE  SellInv'
<1> DEFINE s == cOrd[o].sym
<1>1. /\ CLive(o) /\ s \in Sym /\ cOrd[o].filled \in Nat /\ cOrd[o].qty \in Nat
      /\ cOrd[o].side \in {"buy", "sell"} /\ cPos \in [Sym -> Nat]
      /\ cOrd[o].side = "sell" => cPos[s] > 0
  BY DEF CounterFill, TypeOK, CounterOrder
<1>2. /\ cOrd'[o].filled = cOrd[o].filled + 1 /\ cOrd'[o].qty = cOrd[o].qty
      /\ cOrd'[o].sym = s /\ cOrd'[o].side = cOrd[o].side /\ cOrd'[o].vis = cOrd[o].vis
      /\ cOrd'[o].st \in {"filled", "live"}
      /\ \A x \in Oid \ {o} : cOrd'[x] = cOrd[x]
  BY DEF CounterFill, TypeOK, CounterOrder
<1>3. /\ cPos'[s] = IF cOrd[o].side = "buy" THEN cPos[s] + 1 ELSE cPos[s] - 1
      /\ \A x \in Sym \ {s} : cPos'[x] = cPos[x]
  BY <1>1 DEF CounterFill
<1>4. UNCHANGED pilot
  BY DEF CounterFill
<1>5. \A x \in Oid : /\ cOrd'[x].sym = cOrd[x].sym /\ cOrd'[x].side = cOrd[x].side
                     /\ cOrd'[x].st = "none" <=> cOrd[x].st = "none"
                     /\ cOrd'[x].st = "live" => cOrd[x].st = "live" /\ cOrd'[x].vis
                     /\ cOrd'[x].vis => cOrd'[x].st # "none"
  BY <1>1, <1>2 DEF CLive, SellInv, Visible
<1>6. ASSUME NEW x \in Oid, WorkingSell(x)' PROVE Rest(x)' <= cPos'[cOrd[x].sym]
  <2>1. WorkingSell(x) /\ cOrd[x].sym \in Sym /\ cOrd[x].filled \in Nat /\ cOrd[x].qty \in Nat
    BY <1>5, <1>6 DEF WorkingSell, CLive, TypeOK, CounterOrder
  <2>2. Rest(x) <= cPos[cOrd[x].sym]
    BY <2>1 DEF SellInv, Covered
  <2>3. CASE x = o
    BY <1>1, <1>2, <1>3, <2>1, <2>2, <2>3 DEF Rest, WorkingSell
  <2>4. CASE x # o
    <3>1. cOrd[o].side = "sell" => cOrd[x].sym # s
      BY <1>1, <2>1, <2>4 DEF SellInv, OneSell, WorkingSell
    <3>2. Rest(x)' = Rest(x)
      BY <1>2, <2>4 DEF Rest
    <3> QED
      BY <1>1, <1>3, <2>1, <2>2, <3>1, <3>2 DEF Rest
  <2> QED
    BY <2>3, <2>4
<1>7. ASSUME InStep, NEW x \in Sym, KnownSells(x) = {} PROVE cPos[x] <= cPos'[x]
  <2>1. cOrd[o].side = "sell" => x # s
    BY <1>1, <1>7 DEF SellInv, Tracked, KnownSells, WorkingSell
  <2> QED
    BY <1>1, <1>3, <2>1
<1>8. ~ \A x \in Oid : cOrd[x].st = "none"
  BY <1>1 DEF CLive
<1> QED
  BY <1>4, <1>5, <1>6, <1>7, <1>8, CounterMove

\* An order ends, is shown, or is gone with the day.
LEMMA SellEnd ==
  ASSUME TypeOK, TypeOK', SellInv, UNCHANGED <<cPos, pilot>>,
         \A o \in Oid : /\ cOrd'[o].sym = cOrd[o].sym /\ cOrd'[o].side = cOrd[o].side
                        /\ cOrd'[o].qty = cOrd[o].qty /\ cOrd'[o].filled = cOrd[o].filled
                        /\ cOrd'[o].st = "none" <=> cOrd[o].st = "none"
                        /\ cOrd'[o].st = "live" => cOrd[o].st = "live" /\ cOrd'[o].vis
                        /\ cOrd'[o].vis => cOrd'[o].st # "none"
  PROVE  SellInv'
<1>1. ASSUME NEW o \in Oid, WorkingSell(o)' PROVE Rest(o)' <= cPos'[cOrd[o].sym]
  BY <1>1 DEF WorkingSell, CLive, Rest, SellInv, Covered
<1>2. \A s \in Sym : cPos[s] <= cPos'[s]
  BY DEF TypeOK
<1> QED
  BY <1>1, <1>2, CounterMove

LEMMA SellCounter ==
  ASSUME TypeOK, TypeOK', SellInv,
         NewDay \/ \E o \in Oid : CounterClose(o) \/ CounterReveal(o)
  PROVE  SellInv'
<1>1. \A o \in Oid : /\ cOrd[o] \in CounterOrder /\ (cOrd[o].st = "live" => cOrd[o].vis)
                     /\ cOrd[o].vis => cOrd[o].st # "none"
  BY DEF TypeOK, SellInv, Visible, CLive
<1>2. ASSUME NEW o \in Oid, CounterClose(o) PROVE SellInv'
  BY <1>1, <1>2, SellEnd DEF CounterClose, CounterOrder, CLive, TypeOK
<1>3. ASSUME NEW o \in Oid, CounterReveal(o) PROVE SellInv'
  BY <1>1, <1>3, SellEnd DEF CounterReveal, CounterOrder, TypeOK
<1>4. CASE NewDay
  <2>1. PICK kept \in SUBSET Oid :
           cOrd' = [o \in Oid |->
                IF o \in kept \/ cOrd[o].st = "none" THEN cOrd[o]
                ELSE [cOrd[o] EXCEPT !.vis = FALSE,
                                     !.st = IF @ = "live" THEN "dead" ELSE @]]
    BY <1>4 DEF NewDay
  <2>2. UNCHANGED <<cPos, pilot>>
    BY <1>4 DEF NewDay
  <2>3. ASSUME NEW o \in Oid
        PROVE  /\ cOrd'[o].sym = cOrd[o].sym /\ cOrd'[o].side = cOrd[o].side
               /\ cOrd'[o].qty = cOrd[o].qty /\ cOrd'[o].filled = cOrd[o].filled
               /\ cOrd'[o].st = "none" <=> cOrd[o].st = "none"
               /\ cOrd'[o].st = "live" => cOrd[o].st = "live" /\ cOrd'[o].vis
               /\ cOrd'[o].vis => cOrd'[o].st # "none"
    BY <1>1, <2>1 DEF CounterOrder
  <2> QED
    BY <2>2, <2>3, SellEnd
<1> QED
  BY <1>2, <1>3, <1>4

\* The process dies, starts again, and asks the counter for its orders.
LEMMA SellProcess ==
  ASSUME TypeOK, TypeOK', SellInv, Crash \/ Start \/ BootSubscribe \/ GetOrders
  PROVE  SellInv'
<1> USE DEF SellInv
<1>1. CASE Crash
  <2>1. /\ "crash" \in Faults /\ job' = "down" /\ step' = "none" /\ mem' = disk
        /\ UNCHANGED <<cOrd, cPos, disk>>
    BY <1>1 DEF Crash, counter
  <2> QED
    BY <2>1 DEF JobInv, Visible, Matches, SnapInv, FreshInv, Tracked, OneSell, Covered,
                Booked, TodoInv, EntryInv, InStep, WorkingSell, CLive, Rest
<1>2. CASE Start
  <2>1. /\ job = "down" /\ job' = "boot" /\ step' = "orders" /\ mem' = disk
        /\ UNCHANGED <<cOrd, cPos, disk>>
    BY <1>2 DEF Start, counter
  <2> QED
    BY <2>1 DEF JobInv, Visible, Matches, SnapInv, FreshInv, Tracked, OneSell, Covered,
                Booked, TodoInv, EntryInv, InStep, WorkingSell, CLive, Rest
<1>3. CASE BootSubscribe
  <2>1. /\ InStep /\ UNCHANGED <<cOrd, cPos, disk, mem>>
        /\ \/ job' = "pre_open" /\ step' = "orders"
           \/ job' = "idle" /\ step' = "none"
    BY <1>3 DEF BootSubscribe, Idle, counter, InStep
  <2>2. Books
    BY <2>1, InStepBooks
  <2>3. Books'
    BY <2>1, <2>2, Noted
  <2>4. JobInv' /\ SnapInv' /\ FreshInv' /\ TodoInv' /\ EntryInv'
    BY <2>1 DEF JobInv, SnapInv, FreshInv, TodoInv, EntryInv
  <2> QED
    BY <2>3, <2>4, BooksSuffice
<1>4. CASE GetOrders
  <2>1. /\ step = "orders" /\ step' = "positions" /\ UNCHANGED <<cOrd, cPos, disk, mem, job>>
        /\ snap' = [o \in Oid |-> IF cOrd[o].vis THEN cOrd[o] ELSE NoOrder]
    BY <1>4 DEF GetOrders, counter
  <2>2. JobInv' /\ FreshInv' /\ TodoInv' /\ EntryInv'
    BY <2>1 DEF JobInv, FreshInv, TodoInv, EntryInv
  <2>3. SnapInv'
    <3>1. \A o \in Oid : CLive(o)' => snap'[o].vis /\ snap'[o].st = "live"
      BY <2>1 DEF Visible, CLive
    <3>2. \A o \in Oid : snap'[o].vis => cOrd'[o].st # "none" /\ snap'[o].sym = cOrd'[o].sym
      BY <2>1 DEF NoOrder, Visible
    <3> QED
      BY <3>1, <3>2 DEF SnapInv
  <2> QED
    BY <2>1, <2>2, <2>3 DEF Visible, Matches, Tracked, OneSell, Covered, Booked, InStep,
                            WorkingSell, CLive, Rest, KnownSells, Live
<1> QED
  BY <1>1, <1>2, <1>3, <1>4

\* The answer is absorbed: the state knows every working sell again, and counts what
\* the account holds.
LEMMA SellAbsorb ==
  ASSUME TypeOK, TypeOK', SellInv, GetPositions
  PROVE  SellInv'
<1> USE DEF SellInv
<1>1. /\ step = "positions" /\ step' = AfterReconcile /\ job' = job
      /\ UNCHANGED <<cOrd, cPos>> /\ mem' = Absorb(mem, snap, cPos, young) /\ disk' = mem'
      /\ oids' = TickEntries(mem')
  BY DEF GetPositions, counter
<1>2. job \in {"boot", "pre_open", "on_tick"}
  BY <1>1 DEF JobInv, TypeOK, Job
<1>3. /\ \A o \in Oid : mem'.ord[o] = AbsorbOrder(mem, snap, young, o)
      /\ \A s \in Sym : mem'.pos[s].rem = cPos[s]
  BY <1>1, AbsorbType DEF TypeOK
<1>4. \A o \in Oid : CLive(o) => mem'.ord[o].st = "SUBMITTED"
  <2> SUFFICES ASSUME NEW o \in Oid, CLive(o) PROVE mem'.ord[o].st = "SUBMITTED"
    OBVIOUS
  <2>1. snap[o].vis /\ snap[o].st = "live"
    BY <1>1 DEF SnapInv
  <2> QED
    BY <1>3, <2>1, LocalStatusLive, AbsorbOrderFacts DEF TypeOK
<1>5. Matches(mem)'
  <2> SUFFICES ASSUME NEW o \in Oid, mem'.ord[o].st # "NONE"
               PROVE  /\ cOrd[o].st # "none" /\ mem'.ord[o].sym = cOrd[o].sym
                      /\ cOrd[o].side = "sell" => mem'.ord[o].purpose \notin BuySide
    BY <1>1 DEF Matches
  <2>1. mem'.ord[o] = AbsorbOrder(mem, snap, young, o)
    BY <1>3
  <2>2. CASE snap[o].vis /\ mem.ord[o].st = "NONE"
    <3>1. mem'.ord[o].sym = snap[o].sym /\ mem'.ord[o].purpose = "UNKNOWN"
      BY <2>1, <2>2, AbsorbOrderFacts DEF TypeOK
    <3> QED
      BY <1>1, <2>2, <3>1 DEF SnapInv, BuySide
  <2>3. CASE mem.ord[o].st # "NONE"
    <3>1. mem'.ord[o].sym = mem.ord[o].sym /\ mem'.ord[o].purpose = mem.ord[o].purpose
      BY <2>1, <2>3, AbsorbOrderFacts DEF TypeOK
    <3> QED
      BY <2>3, <3>1 DEF Matches
  <2>4. CASE ~snap[o].vis /\ mem.ord[o].st = "NONE"
    BY <2>1, <2>4, AbsorbOrderFacts DEF TypeOK
  <2> QED
    BY <2>2, <2>3, <2>4
<1>6. Books'
  BY <1>1, <1>3, <1>4, <1>5
     DEF Books, Visible, Matches, KnowsSells, OneSell, Covered, WithinAccount, WorkingSell,
         CLive, Live, Rest, TypeOK
<1>7. step' \in {"subscribe", "cancel", "pending"}
  BY <1>1 DEF AfterReconcile
<1>8. JobInv'
  BY <1>1, <1>2 DEF JobInv, AfterReconcile
<1>9. SnapInv' /\ TodoInv'
  BY <1>7 DEF SnapInv, TodoInv
<1>10. FreshInv'
  BY <1>1, <1>3 DEF FreshInv
<1>11. EntryInv'
  BY <1>1, <1>7 DEF EntryInv, TickEntries, Entries, BuySide
<1> QED
  BY <1>6, <1>8, <1>9, <1>10, <1>11, BooksSuffice

\* A query fails.  At boot that happens only to a pilot that does not crash: it has
\* nothing at the counter.
LEMMA SellQueryFails ==
  ASSUME TypeOK, TypeOK', SellInv, GoodFaults, QueryFails
  PROVE  SellInv'
<1> USE DEF SellInv
<1>1. /\ step \in {"orders", "positions"} /\ step' = AfterReconcile /\ job' = job
      /\ UNCHANGED <<cOrd, cPos, mem, disk>> /\ oids' = TickEntries(mem)
      /\ "crash" \notin Faults
  BY DEF QueryFails, counter, GoodFaults
<1>2. job \in {"boot", "pre_open", "on_tick"}
  BY <1>1 DEF JobInv, TypeOK, Job
<1>3. Books
  <2>1. CASE job = "boot"
    BY <1>1, <2>1
       DEF FreshInv, Books, KnowsSells, WithinAccount, WorkingSell, CLive
  <2>2. CASE job # "boot"
    BY <1>2, <2>2, InStepBooks DEF InStep
  <2> QED
    BY <2>1, <2>2
<1>4. Books'
  BY <1>1, <1>3, Noted
<1>5. step' \in {"subscribe", "cancel", "pending"}
  BY <1>1 DEF AfterReconcile
<1>6. JobInv'
  BY <1>1, <1>2 DEF JobInv, AfterReconcile
<1>7. SnapInv' /\ TodoInv' /\ FreshInv'
  BY <1>1, <1>5 DEF SnapInv, TodoInv, FreshInv
<1>8. EntryInv'
  BY <1>1, <1>5 DEF EntryInv, TickEntries, Entries, BuySide
<1> QED
  BY <1>4, <1>6, <1>7, <1>8, BooksSuffice

\* A callback goes on, with right books.
LEMMA OnGoing ==
  ASSUME Books', job' \notin {"down", "boot"}, job' = "idle" => step' = "none",
         step' # "positions", TodoInv', EntryInv'
  PROVE  SellInv'
<1>1. JobInv' /\ SnapInv' /\ FreshInv'
  BY DEF JobInv, SnapInv, FreshInv
<1> QED
  BY <1>1, BooksSuffice

\* Grace ends, the clock and the flag move, or nothing happens.
LEMMA SellIdle ==
  ASSUME TypeOK, TypeOK', SellInv,
         (\E o \in Oid : GraceEnds(o)) \/ Clock \/ Flag \/ UNCHANGED vars
  PROVE  SellInv'
<1>1. UNCHANGED <<counter, pilot>>
  BY DEF GraceEnds, Clock, Flag, vars
<1>2. UNCHANGED <<cOrd, cPos, pilot>>
  BY <1>1 DEF counter
<1> QED
  BY <1>2, SellEnd DEF SellInv, Visible, CLive

\* Where a callback is, its step tells.
LEMMA Working ==
  ASSUME TypeOK, SellInv, job \notin {"down", "idle"}
  PROVE  /\ job = "boot" => step \in {"orders", "positions", "subscribe"}
         /\ job \in {"boot", "pre_open", "on_tick"}
BY DEF SellInv, JobInv, TypeOK, Job

LEMMA AtWork ==
  ASSUME TypeOK, SellInv, step \notin {"none", "orders", "positions", "subscribe"}
  PROVE  job \in {"pre_open", "on_tick"} /\ InStep
<1>1. job \notin {"down", "idle"}
  BY DEF SellInv, JobInv
<1> QED
  BY <1>1, Working DEF InStep

\* A step that places and cancels nothing.
Quiet ==
    /\ InStep /\ job' \notin {"down", "boot"}
    /\ UNCHANGED <<cOrd, cPos>> /\ mem'.ord = mem.ord
    /\ \A x \in Sym : mem'.pos[x].rem = mem.pos[x].rem
    /\ disk' = disk \/ disk' = mem \/ disk' = mem'
    /\ job' = "idle" => step' = "none"
    /\ step' \notin {"positions", "expire"}
    /\ EntryInv'

LEMMA QuietKeeps ==
  ASSUME TypeOK, TypeOK', SellInv, Quiet PROVE SellInv'
<1>1. Books
  BY InStepBooks DEF Quiet
<1>2. Books'
  BY <1>1, Noted DEF Quiet
<1>3. TodoInv'
  BY DEF Quiet, TodoInv
<1> QED
  BY <1>2, <1>3, OnGoing DEF Quiet

\* Such are the saves, the marks, the scan, the start and the end of a callback.
LEMMA SellQuiet ==
  ASSUME TypeOK, TypeOK', SellInv,
         SaveOrder \/ PreOpenJob \/ PreOpenQuery \/ PreOpenDuplicates \/ PreOpenScan
         \/ PreOpenRepairs \/ PreOpenEnd \/ Repair
         \/ (\E s \in Sym, px \in Prices : TickStart(s, px)) \/ TickSave \/ AfterClose
  PROVE  SellInv'
<1>0. mem \in PilotState /\ EntryInv
  BY DEF SellInv, TypeOK
<1> SUFFICES Quiet
  BY QuietKeeps
<1>1. CASE SaveOrder
  <2>1. job \in {"pre_open", "on_tick"} /\ InStep
    BY <1>1, AtWork DEF SaveOrder
  <2>2. EntryInv'
    BY <1>0, <1>1 DEF SaveOrder, EntryInv, counter
  <2> QED
    BY <1>1, <2>1, <2>2 DEF SaveOrder, counter, Quiet
<1>2. CASE PreOpenJob
  <2>1. mem'.ord = mem.ord /\ mem'.pos = mem.pos
    BY <1>0, <1>2 DEF PreOpenJob, PilotState
  <2> QED
    BY <1>2, <2>1 DEF PreOpenJob, counter, EntryInv, Quiet, InStep
<1>3. CASE PreOpenScan
  <2>1. mem'.ord = mem.ord /\ mem'.pos = mem.pos
    BY <1>0, <1>3 DEF PreOpenScan, PilotState
  <2>2. job \in {"pre_open", "on_tick"} /\ InStep
    BY <1>3, AtWork DEF PreOpenScan
  <2> QED
    BY <1>3, <2>1, <2>2 DEF PreOpenScan, counter, EntryInv, Quiet
<1>4. CASE PreOpenRepairs
  <2>1. job \in {"pre_open", "on_tick"} /\ InStep
    BY <1>4, AtWork DEF PreOpenRepairs
  <2> QED
    BY <1>4, <2>1 DEF PreOpenRepairs, counter, EntryInv, Quiet
<1>5. CASE PreOpenEnd
  <2>1. job \in {"pre_open", "on_tick"} /\ InStep
    BY <1>5, AtWork DEF PreOpenEnd
  <2> QED
    BY <1>5, <2>1 DEF PreOpenEnd, Idle, counter, EntryInv, Quiet
<1>6. CASE Repair
  BY <1>6 DEF Repair, counter, EntryInv, Quiet, InStep
<1>7. CASE \E s \in Sym, px \in Prices : TickStart(s, px)
  BY <1>7 DEF TickStart, counter, EntryInv, Entries, BuySide, Quiet, InStep
<1>8. CASE TickSave
  <2>1. job \in {"pre_open", "on_tick"} /\ InStep
    BY <1>8, AtWork DEF TickSave
  <2> QED
    BY <1>8, <2>1 DEF TickSave, Idle, counter, EntryInv, Quiet
<1>9. CASE AfterClose
  <2>1. mem'.ord = mem.ord /\ mem'.pos = [s \in Sym |-> Swept(mem.pos[s])]
    BY <1>0, <1>9 DEF AfterClose, PilotState
  <2>2. \A s \in Sym : mem'.pos[s].rem = mem.pos[s].rem
    BY <1>0, <2>1, SweptType DEF PilotState
  <2>3. step = "none"
    BY <1>9 DEF AfterClose, SellInv, JobInv
  <2>4. /\ job = "idle" /\ UNCHANGED <<cOrd, cPos, job, step>> /\ disk' = mem'
    BY <1>9 DEF AfterClose, counter, ctl
  <2> QED
    BY <2>1, <2>2, <2>3, <2>4 DEF EntryInv, Quiet, InStep
<1>10. CASE PreOpenQuery
  <2>1. job = "pre_open" /\ InStep
    BY <1>10 DEF PreOpenQuery, InStep
  <2>2. \A o \in oids' : cOrd[o].side # "sell"
    BY <1>10 DEF PreOpenQuery, YesterdaysBuys
  <2> QED
    BY <1>10, <2>1, <2>2 DEF PreOpenQuery, counter, EntryInv, Quiet
<1>11. CASE PreOpenDuplicates
  <2>1. job \in {"pre_open", "on_tick"} /\ InStep
    BY <1>11, AtWork DEF PreOpenDuplicates
  <2>2. \A o \in oids' : mem.ord[o].purpose \in BuySide
    BY <1>11 DEF PreOpenDuplicates, Duplicates, Entries, BuySide
  <2> QED
    BY <1>11, <2>1, <2>2 DEF PreOpenDuplicates, counter, EntryInv, Quiet
<1> QED
  BY <1>1, <1>2, <1>3, <1>4, <1>5, <1>6, <1>7, <1>8, <1>9, <1>10, <1>11

\* Phase 2 takes the overdue positions that have no working sell.
LEMMA SellOverdue ==
  ASSUME TypeOK, TypeOK', SellInv, PreOpenOverdue PROVE SellInv'
<1>1. /\ step = "duplicates" /\ step' \in {"expire", "buy"}
      /\ todo' \subseteq Overdue(mem) /\ UNCHANGED <<cOrd, cPos, disk, mem, job>>
  BY DEF PreOpenOverdue, counter
<1>2. job \in {"pre_open", "on_tick"} /\ Books
  BY <1>1, AtWork, InStepBooks
<1>3. Books'
  BY <1>1, <1>2, Noted
<1>4. TodoInv' /\ EntryInv'
  BY <1>1 DEF TodoInv, EntryInv, Overdue
<1> QED
  BY <1>1, <1>2, <1>3, <1>4, OnGoing

\* Phase 2 sells a symbol it found without a working sell, and drops it from its list.
LEMMA SellExpire ==
  ASSUME TypeOK, TypeOK', SellInv, GoodFaults, NEW s \in Sym, PreOpenExpire(s)
  PROVE  SellInv'
<1> DEFINE q == mem.pos[s].rem
<1>1. /\ step = "expire" /\ s \in todo /\ todo' = todo \ {s} /\ todo \subseteq Sym
      /\ UNCHANGED <<cPos, disk, job, step>>
      /\ \/ \E o \in FreeOid : Take(o, s, "sell", q) /\ mem' = Recorded(mem, o, s, "EXPIRE", q)
         \/ Failed(s, "sell", q) /\ mem' = mem
  BY DEF PreOpenExpire, TypeOK
<1>2. job \in {"pre_open", "on_tick"} /\ Books
  BY <1>1, AtWork, InStepBooks
<1>3. \A x \in todo : ~HasOpenSell(mem, x)
  BY <1>1 DEF SellInv, TodoInv
<1>4. q \in Nat /\ mem \in PilotState /\ day \in Nat
  BY DEF TypeOK, PilotState, Position
<1> HIDE DEF q
<1>5. EntryInv'
  BY <1>1 DEF EntryInv
<1>6. CASE Failed(s, "sell", q) /\ mem' = mem
  <2>1. cOrd' = cOrd
    BY <1>6, FailedFacts
  <2>2. Books'
    BY <1>1, <1>2, <1>6, <2>1, Noted
  <2>3. TodoInv'
    BY <1>1, <1>3, <1>6 DEF TodoInv
  <2> QED
    BY <1>1, <1>2, <1>5, <2>2, <2>3, OnGoing
<1>7. ASSUME NEW o \in FreeOid, Take(o, s, "sell", q), mem' = Recorded(mem, o, s, "EXPIRE", q)
      PROVE  SellInv'
  <2>1. o \in Oid /\ "EXPIRE" \in Purpose /\ "EXPIRE" \notin BuySide
    BY DEF FreeOid, Purpose, SellSide, BuySide
  <2>2. /\ mem'.pos = mem.pos /\ mem'.ord[o].sym = s
        /\ \A x \in Oid \ {o} : mem'.ord[x] = mem.ord[x]
    <3>1. /\ Recorded(mem, o, s, "EXPIRE", q).pos = mem.pos
          /\ Recorded(mem, o, s, "EXPIRE", q).ord[o] =
                [sym |-> s, purpose |-> "EXPIRE", qty |-> q, filled |-> 0,
                 st |-> "SUBMITTED", day |-> day]
          /\ \A x \in Oid \ {o} : Recorded(mem, o, s, "EXPIRE", q).ord[x] = mem.ord[x]
      BY <1>4, <2>1, RecordedType
    <3> QED
      BY <1>7, <3>1
  <2>3. Books'
    BY <1>1, <1>2, <1>3, <1>4, <1>7, <2>1, <2>2, Placed DEF q
  <2>4. TodoInv'
    <3> SUFFICES ASSUME NEW x \in todo, x # s, HasOpenSell(mem', x) PROVE FALSE
      BY <1>1 DEF TodoInv
    <3> QED
      BY <1>1, <1>3, <2>2 DEF HasOpenSell, Live
  <2> QED
    BY <1>1, <1>2, <1>5, <2>3, <2>4, OnGoing
<1> QED
  BY <1>1, <1>6, <1>7

\* Phases 5 and 5'' place buys only.
LEMMA SellBuy ==
  ASSUME TypeOK, TypeOK', SellInv, GoodFaults,
         (\E s \in Sym : PreOpenBuy(s)) \/ (\E d \in Oid : PreOpenRepair(d))
  PROVE  SellInv'
<1>1. /\ step \in {"buy", "repair"} /\ step' \in {"buy", "repair", "buy_save", "repair_save"}
      /\ UNCHANGED <<cPos, disk, job>>
      /\ \/ UNCHANGED <<cOrd, mem>>
         \/ \E s \in Sym :
              \/ Failed(s, "buy", OrderQty) /\ mem' = mem
              \/ \E o \in FreeOid : /\ Take(o, s, "buy", OrderQty)
                                    /\ mem' = Recorded(mem, o, s, "OPEN", OrderQty)
  <2>1. ASSUME NEW s \in Sym, PreOpenBuy(s) PROVE <1>1!:
    BY <2>1 DEF PreOpenBuy
  <2>2. ASSUME NEW d \in Oid, PreOpenRepair(d) PROVE <1>1!:
    <3>1. mem.ord[d].sym \in Sym
      BY DEF TypeOK, PilotState, Order
    <3> QED
      BY <2>2, <3>1 DEF PreOpenRepair
  <2> QED
    BY <2>1, <2>2
<1>2. job \in {"pre_open", "on_tick"} /\ Books
  BY <1>1, AtWork, InStepBooks
<1>3. mem \in PilotState /\ day \in Nat /\ OrderQty \in Nat
  BY LedgerAssumption DEF TypeOK
<1>4. Books'
  <2>1. CASE UNCHANGED <<cOrd, mem>>
    BY <1>1, <1>2, <2>1, Noted
  <2>2. ASSUME NEW s \in Sym, Failed(s, "buy", OrderQty), mem' = mem PROVE Books'
    BY <1>1, <1>2, <2>2, FailedFacts, Noted
  <2>3. ASSUME NEW s \in Sym, NEW o \in FreeOid, Take(o, s, "buy", OrderQty),
               mem' = Recorded(mem, o, s, "OPEN", OrderQty)
        PROVE  Books'
    <3>1. o \in Oid /\ "OPEN" \in Purpose
      BY DEF FreeOid, Purpose, BuyAmount, BuySide
    <3>2. mem'.pos = mem.pos
      <4>1. Recorded(mem, o, s, "OPEN", OrderQty).pos = mem.pos
        BY <1>3, <3>1, RecordedType, ZenonT(60)
      <4> QED
        BY <2>3, <4>1
    <3> QED
      BY <1>1, <1>2, <1>3, <2>3, <3>1, <3>2, Placed
  <2> QED
    BY <1>1, <2>1, <2>2, <2>3
<1>5. TodoInv' /\ EntryInv'
  BY <1>1 DEF TodoInv, EntryInv
<1> QED
  BY <1>1, <1>2, <1>4, <1>5, OnGoing

\* Phases 1 and 1' cancel buys only: yesterday's by the counter's word, the duplicates
\* by that of the state, which books no sell as an entry.
LEMMA SellCancel ==
  ASSUME TypeOK, TypeOK', SellInv, NEW x \in Oid, PreOpenCancel(x)
  PROVE  SellInv'
<1>1. PICK K \in SUBSET {x} : cOrd' = CancelNoted(K) /\ mem' = Synced(mem, K)
  BY DEF PreOpenCancel, CancelCalls
<1>2. /\ step \in {"yesterday", "duplicates"} /\ x \in oids /\ oids' = oids \ {x}
      /\ oids \subseteq Oid /\ UNCHANGED <<cPos, disk, job, step>>
  BY DEF PreOpenCancel, TypeOK
<1>3. job \in {"pre_open", "on_tick"} /\ Books
  BY <1>2, AtWork, InStepBooks
<1>4. mem \in PilotState /\ cOrd \in Counters
  BY DEF TypeOK, Counters
<1> DEFINE N == {}
<1>5. K \in SUBSET Oid /\ \A o \in K : Live(mem, o) => cOrd[o].side # "sell"
  BY <1>2, <1>3 DEF SellInv, EntryInv, Books, Matches, Live
<1>6. \A o \in Oid \ N : SameOrder(cOrd'[o], cOrd[o])
  <2>1. ASSUME NEW o \in Oid PROVE SameOrder(cOrd'[o], cOrd[o])
    <3>1. cOrd'[o] \in {cOrd[o], [cOrd[o] EXCEPT !.creq = TRUE]} /\ cOrd[o] \in CounterOrder
      BY <1>1, <1>4, CancelNotedType DEF Counters
    <3> QED
      BY <3>1 DEF SameOrder, CounterOrder
  <2> QED
    BY <2>1
<1>7. /\ \A o \in Oid \ N : \/ mem'.ord[o] = mem.ord[o]
                            \/ /\ o \in K /\ Live(mem, o)
                               /\ mem'.ord[o] = [mem.ord[o] EXCEPT !.st = "CANCELLED"]
      /\ mem'.pos = mem.pos
  BY <1>1, <1>4, SyncedType
<1>8. \A n \in N : /\ cOrd[n].st = "none" /\ cOrd'[n].st = "live" /\ cOrd'[n].vis
                   /\ mem'.ord[n].st = "SUBMITTED" /\ mem'.ord[n].sym = cOrd'[n].sym
                   /\ cOrd'[n].side = "sell" =>
                         /\ mem'.ord[n].purpose \notin BuySide
                         /\ ~HasOpenSell(mem, cOrd'[n].sym)
                         /\ cOrd'[n].qty <= mem.pos[cOrd'[n].sym].rem
                         /\ cOrd'[n].filled = 0
  OBVIOUS
<1>9. N \in SUBSET Oid /\ \A n, k \in N : n = k
  OBVIOUS
<1> HIDE DEF N
<1>10. Books'
  BY <1>2, <1>3, <1>5, <1>6, <1>7, <1>8, <1>9, Move
<1>11. TodoInv'
  BY <1>2 DEF TodoInv
<1>12. EntryInv'
  <2> SUFFICES ASSUME NEW o \in oids
               PROVE  /\ mem'.ord[o].purpose = mem.ord[o].purpose
                      /\ cOrd'[o].side = cOrd[o].side
    BY <1>2 DEF SellInv, EntryInv
  <2>1. mem.ord[o] \in Order
    BY <1>2, <1>4 DEF PilotState
  <2> QED
    BY <1>2, <1>6, <1>7, <2>1 DEF N, Order, SameOrder
<1> QED
  BY <1>2, <1>3, <1>10, <1>11, <1>12, OnGoing

\* The orders C are cancelled, and an order of N is placed to buy, if there is one.
Rearranged(C, N, s, q) ==
    /\ \A n, k \in N : n = k
    /\ N = {} => \/ cOrd' = CancelNoted(C) /\ mem' = Synced(mem, C)
                 \/ UNCHANGED <<cOrd, mem>>
    /\ \A n \in N : /\ cOrd' = [CancelNoted(C) EXCEPT ![n] = NewOrder(s, "buy", q)]
                    /\ mem' = Recorded(Synced(mem, C), n, s, "CHASE", q)

\* on_tick goes through entries: what it cancels is no sell, what it places is a buy.
LEMMA SellPending ==
  ASSUME TypeOK, TypeOK', SellInv, GoodFaults, NEW o \in Oid, TickPending(o)
  PROVE  SellInv'
<1> DEFINE s == tick.sym
           q == mem.ord[o].qty
<1>1. PICK C \in SUBSET {o}, N \in SUBSET FreeOid : Rearranged(C, N, s, q)
  <2>1. \/ UNCHANGED <<cOrd, mem>>
        \/ \E C \in SUBSET {o} : cOrd' = CancelNoted(C) /\ mem' = Synced(mem, C)
        \/ \E C \in SUBSET {o} : \E n \in FreeOid :
              /\ cOrd' = [CancelNoted(C) EXCEPT ![n] = NewOrder(s, "buy", q)]
              /\ mem' = Recorded(Synced(mem, C), n, s, "CHASE", q)
    BY DEF TickPending, CancelCalls, GoodFaults
  <2>2. ASSUME UNCHANGED <<cOrd, mem>> PROVE Rearranged({}, {}, s, q)
    BY <2>2 DEF Rearranged
  <2>3. ASSUME NEW C \in SUBSET {o}, cOrd' = CancelNoted(C), mem' = Synced(mem, C)
        PROVE  Rearranged(C, {}, s, q)
    BY <2>3 DEF Rearranged
  <2>4. ASSUME NEW C \in SUBSET {o}, NEW n \in FreeOid,
               cOrd' = [CancelNoted(C) EXCEPT ![n] = NewOrder(s, "buy", q)],
               mem' = Recorded(Synced(mem, C), n, s, "CHASE", q)
        PROVE  Rearranged(C, {n}, s, q)
    BY <2>4 DEF Rearranged
  <2> QED
    BY <2>1, <2>2, <2>3, <2>4
<1>2. /\ step = "pending" /\ step' \in {"pending", "pending_save"}
      /\ o \in oids /\ oids' = oids \ {o} /\ oids \subseteq Oid
      /\ UNCHANGED <<cPos, disk, job>>
  BY DEF TickPending, TypeOK
<1>3. job \in {"pre_open", "on_tick"} /\ Books
  BY <1>2, AtWork, InStepBooks
<1>4. /\ mem \in PilotState /\ cOrd \in Counters /\ day \in Nat /\ s \in Sym /\ q \in Nat
      /\ N \in SUBSET Oid
  BY DEF TypeOK, Counters, PilotState, Order, FreeOid
<1>5. C \in SUBSET Oid /\ \A x \in C : Live(mem, x) => cOrd[x].side # "sell"
  BY <1>2, <1>3 DEF SellInv, EntryInv, Books, Matches, Live
<1>6. \A x \in Oid : Synced(mem, C).ord[x] =
         IF x \in C /\ Live(mem, x) THEN [mem.ord[x] EXCEPT !.st = "CANCELLED"]
         ELSE mem.ord[x]
  BY <1>4, SyncedType
<1>7. Synced(mem, C) \in PilotState /\ Synced(mem, C).pos = mem.pos /\ "CHASE" \in Purpose
  BY <1>4, SyncedType DEF Purpose, BuyAmount, BuySide
<1>8. ASSUME NEW n \in N
      PROVE  LET m == Recorded(Synced(mem, C), n, s, "CHASE", q)
             IN  /\ m.pos = mem.pos
                 /\ m.ord[n] = [sym |-> s, purpose |-> "CHASE", qty |-> q, filled |-> 0,
                                st |-> "SUBMITTED", day |-> day]
                 /\ \A x \in Oid \ {n} : m.ord[x] = Synced(mem, C).ord[x]
  <2> DEFINE y == Synced(mem, C)
  <2>1. n \in Oid /\ y \in PilotState /\ y.pos = mem.pos
    BY <1>4, <1>7
  <2> HIDE DEF y, s, q
  <2>2. /\ Recorded(y, n, s, "CHASE", q).pos = y.pos
        /\ Recorded(y, n, s, "CHASE", q).ord[n] =
              [sym |-> s, purpose |-> "CHASE", qty |-> q, filled |-> 0,
               st |-> "SUBMITTED", day |-> day]
        /\ \A x \in Oid \ {n} : Recorded(y, n, s, "CHASE", q).ord[x] = y.ord[x]
    BY <1>4, <1>7, <2>1, RecordedType
  <2> QED
    BY <2>1, <2>2 DEF y
<1>9. /\ \A x \in Oid \ N : \/ mem'.ord[x] = mem.ord[x]
                            \/ /\ x \in C /\ Live(mem, x)
                               /\ mem'.ord[x] = [mem.ord[x] EXCEPT !.st = "CANCELLED"]
      /\ mem'.pos = mem.pos
  <2>1. CASE N = {}
    BY <1>1, <1>6, <1>7, <2>1 DEF Rearranged
  <2>2. ASSUME NEW n \in N PROVE <1>9!:
    <3>1. N = {n} /\ mem' = Recorded(Synced(mem, C), n, s, "CHASE", q)
      BY <1>1, <2>2 DEF Rearranged
    <3> QED
      BY <1>6, <1>8, <3>1
  <2> QED
    BY <2>1, <2>2
<1>10. \A x \in Oid \ N : SameOrder(cOrd'[x], cOrd[x])
  <2>1. ASSUME NEW x \in Oid PROVE SameOrder(CancelNoted(C)[x], cOrd[x])
    <3>1. CancelNoted(C)[x] \in {cOrd[x], [cOrd[x] EXCEPT !.creq = TRUE]}
          /\ cOrd[x] \in CounterOrder
      BY <1>4, CancelNotedType DEF Counters
    <3> QED
      BY <3>1 DEF SameOrder, CounterOrder
  <2>2. ASSUME NEW x \in Oid \ N PROVE cOrd'[x] \in {CancelNoted(C)[x], cOrd[x]}
    <3>1. CancelNoted(C) \in Counters
      BY <1>4, CancelNotedType
    <3> QED
      BY <1>1, <3>1, <2>2 DEF Counters, Rearranged
  <2> QED
    BY <2>1, <2>2 DEF SameOrder
<1>11. ASSUME NEW n \in N
       PROVE  /\ cOrd[n].st = "none" /\ cOrd'[n].st = "live" /\ cOrd'[n].vis
              /\ cOrd'[n].side = "buy" /\ cOrd'[n].sym = s
              /\ mem'.ord[n].st = "SUBMITTED" /\ mem'.ord[n].sym = s
              /\ mem'.ord[n].purpose = "CHASE"
  <2>1. cOrd'[n] = NewOrder(s, "buy", q)
    BY <1>1, <1>4, <1>11, CancelNotedType DEF Counters, Rearranged
  <2>2. cOrd[n].st = "none"
    BY <1>1, <1>11 DEF FreeOid
  <2>3. mem'.ord[n] = [sym |-> s, purpose |-> "CHASE", qty |-> q, filled |-> 0,
                       st |-> "SUBMITTED", day |-> day]
    BY <1>1, <1>8, <1>11 DEF Rearranged
  <2>4. /\ NewOrder(s, "buy", q).st = "live" /\ NewOrder(s, "buy", q).vis
        /\ NewOrder(s, "buy", q).side = "buy" /\ NewOrder(s, "buy", q).sym = s
    BY DEF NewOrder, GoodFaults
  <2> QED
    BY <2>1, <2>2, <2>3, <2>4
<1>12. EntryInv'
  <2> SUFFICES ASSUME NEW x \in oids PROVE mem'.ord[x].purpose \in BuySide
    BY <1>2 DEF EntryInv
  <2>1. x \in Oid /\ mem.ord[x].purpose \in BuySide /\ mem.ord[x] \in Order
    BY <1>2, <1>4 DEF SellInv, EntryInv, PilotState
  <2>2. CASE x \in N
    BY <1>11, <2>2 DEF BuySide
  <2>3. CASE x \notin N
    BY <1>9, <2>1, <2>3 DEF Order
  <2> QED
    BY <2>2, <2>3
<1>13. \A n \in N : /\ cOrd[n].st = "none" /\ cOrd'[n].st = "live" /\ cOrd'[n].vis
                    /\ mem'.ord[n].st = "SUBMITTED" /\ mem'.ord[n].sym = cOrd'[n].sym
                    /\ cOrd'[n].side = "sell" =>
                          /\ mem'.ord[n].purpose \notin BuySide
                          /\ ~HasOpenSell(mem, cOrd'[n].sym)
                          /\ cOrd'[n].qty <= mem.pos[cOrd'[n].sym].rem
                          /\ cOrd'[n].filled = 0
  BY <1>11
<1>14. Books'
  BY <1>1, <1>2, <1>3, <1>4, <1>5, <1>9, <1>10, <1>13, Move DEF Rearranged
<1>15. TodoInv'
  BY <1>2 DEF TodoInv
<1> QED
  BY <1>2, <1>3, <1>12, <1>14, <1>15, OnGoing

\* The exit of a tick sells a symbol without a working sell, and no more than the
\* state books for it.
LEMMA SellExit ==
  ASSUME TypeOK, TypeOK', SellInv, GoodFaults, TickExit
  PROVE  SellInv'
<1> DEFINE s == tick.sym
           p == mem.pos[s]
<1>0. PICK today \in Nat : ExitOn(today)
  BY ExitDay
<1> DEFINE v == DecidePosition(tick.px, p, today)
<1>1. /\ s \in Sym /\ p \in Position /\ mem \in PilotState /\ day \in Nat
      /\ tick.px \in Nat
  BY DEF TypeOK, PilotState
<1>2. v.qty \in Nat /\ v.qty <= p.rem /\ (v.qty > 0 => v.reason \in SellSide)
  BY <1>1, VerdictType
<1> HIDE DEF v
<1>3. /\ step = "pending" /\ UNCHANGED <<cPos, disk, oids>>
      /\ \/ job' = job /\ step' = "exit_save"
         \/ job' = "idle" /\ step' = "none"
      /\ \/ cOrd' = cOrd /\ mem' \in {mem, [mem EXCEPT !.pos[s].tp2_done = TRUE]}
         \/ Failed(s, "sell", v.qty) /\ mem' = mem
         \/ /\ ~HasOpenSell(mem, s) /\ v.qty > 0
            /\ \E o \in FreeOid :
                  /\ Take(o, s, "sell", v.qty)
                  /\ mem' = [Recorded(mem, o, s, v.reason, v.qty)
                                EXCEPT !.pos[s] = AfterSell(p, v.reason)]
  BY <1>0 DEF TickExit, ExitOn, v
<1>4. job \in {"pre_open", "on_tick"} /\ Books
  BY <1>3, AtWork, InStepBooks
<1>5. ASSUME cOrd' = cOrd, mem' \in {mem, [mem EXCEPT !.pos[s].tp2_done = TRUE]}
      PROVE  Books'
  <2>1. mem'.ord = mem.ord /\ \A x \in Sym : mem'.pos[x].rem = mem.pos[x].rem
    BY <1>1, <1>5 DEF PilotState, Position
  <2> QED
    BY <1>3, <1>4, <1>5, <2>1, Noted
<1>6. ASSUME Failed(s, "sell", v.qty), mem' = mem PROVE Books'
  BY <1>3, <1>4, <1>6, FailedFacts, Noted
<1>7. ASSUME ~HasOpenSell(mem, s), v.qty > 0, NEW o \in FreeOid, Take(o, s, "sell", v.qty),
             mem' = [Recorded(mem, o, s, v.reason, v.qty)
                        EXCEPT !.pos[s] = AfterSell(p, v.reason)]
      PROVE  Books'
  <2>1. o \in Oid /\ v.reason \in Purpose /\ v.reason \notin BuySide
    BY <1>2, <1>7 DEF FreeOid, Purpose, SellSide, BuySide
  <2> DEFINE m == Recorded(mem, o, s, v.reason, v.qty)
  <2>2. m \in PilotState /\ m.pos = mem.pos
    <3>1. /\ v.qty \in Nat /\ v.reason \in Purpose /\ s \in Sym /\ o \in Oid
          /\ mem \in PilotState /\ day \in Nat
      BY <1>1, <1>2, <2>1
    <3> QED
      BY <3>1, RecordedPositions
  <2>3. mem' = [m EXCEPT !.pos[s] = AfterSell(p, v.reason)]
    BY <1>7
  <2> HIDE DEF m
  <2>4. mem'.ord = m.ord /\ mem'.pos = [mem.pos EXCEPT ![s] = AfterSell(p, v.reason)]
    BY <2>2, <2>3 DEF PilotState
  <2>5. \A x \in Sym : mem'.pos[x].rem = mem.pos[x].rem
    BY <1>1, <2>4, AfterSellType DEF PilotState
  <2> QED
    BY <1>1, <1>2, <1>3, <1>4, <1>7, <2>1, <2>4, <2>5, Placed DEF m
<1>8. Books'
  BY <1>3, <1>5, <1>6, <1>7
<1>9. TodoInv' /\ EntryInv'
  BY <1>3 DEF TodoInv, EntryInv
<1> QED
  BY <1>3, <1>4, <1>8, <1>9, OnGoing

LEMMA SellStep ==
  ASSUME TypeOK, TypeOK', SellInv, GoodFaults, [Next]_vars
  PROVE  SellInv'
BY SellFill, SellCounter, SellIdle, SellProcess, SellAbsorb, SellQueryFails, SellQuiet,
   SellCancel, SellOverdue, SellExpire, SellBuy, SellPending, SellExit
   DEF Next, CounterStep, WorldStep, PilotStep, PreOpen, OnTick

\* No order to sell that the account cannot serve: with crashes, rejected, refused and
\* surviving orders, cancels that fail and a flag that comes and goes, and with failing
\* queries unless the process may crash as well, SellsCovered holds for any number of
\* symbols, orders, days and prices and any parameters of the strategy.
THEOREM SellsAreCovered == ASSUME GoodFaults PROVE Spec => []SellsCovered
<1>1. Init => TypeOK /\ SellInv
  BY TypeInit, SellInit
<1>2. (TypeOK /\ SellInv) /\ [Next]_vars => (TypeOK /\ SellInv)'
  BY TypeStep, SellStep
<1>3. TypeOK /\ SellInv => SellsCovered
  BY DEF SellInv, OneSell, Covered, SellsCovered
<1> QED
  BY <1>1, <1>2, <1>3, PTL DEF Spec

\* Under the same faults a pilot that has booted never books, for a symbol it takes for
\* free to sell, more than the account holds.
THEOREM BooksAreRight == ASSUME GoodFaults PROVE Spec => []BookWithinAccount
<1>1. Init => TypeOK /\ SellInv
  BY TypeInit, SellInit
<1>2. (TypeOK /\ SellInv) /\ [Next]_vars => (TypeOK /\ SellInv)'
  BY TypeStep, SellStep
<1>3. TypeOK /\ SellInv => BookWithinAccount
  <2> SUFFICES ASSUME TypeOK, SellInv, job \notin {"down", "boot"}, NEW s \in Sym,
                      ~HasOpenSell(mem, s)
               PROVE  mem.pos[s].rem <= cPos[s]
    BY DEF BookWithinAccount
  <2>1. Books
    BY InStepBooks DEF InStep
  <2> QED
    BY <2>1, FreeToSell DEF Books
<1> QED
  BY <1>1, <1>2, <1>3, PTL DEF Spec

=============================================================================
