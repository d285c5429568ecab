---------------------------- MODULE PilotLedger ----------------------------
(***************************************************************************)
(* The decision rules of the GoldMiner pilot (emquant/pilot_body.py) as    *)
(* pure operators: the order and position records of its state file, the   *)
(* purchase gates, the exit rules and the reconciliation absorb_reality.   *)
(*                                                                         *)
(* Quantities are whole lots of 100 shares, the entry price is one money   *)
(* unit per lot, and the prices a rule compares with are levels on an      *)
(* integer scale.  Days are counted from 1, 0 stands for a missing date;   *)
(* every day is a trading day.                                             *)
(***************************************************************************)
EXTENDS Integers, FiniteSets, FiniteSetsExt

CONSTANTS
    Sym,          \* symbols of the UNIVERSE
    MaxOrders,    \* bound: orders the counter numbers
    OrderQty,     \* lots of one entry, floor(equity * pos_cap / entry / 100)
    MinLot,       \* _min_order_qty in lots: 1, or 2 on the STAR board
    PNum, PDen,   \* tp1_portion as a fraction
    StopPx,       \* compute_stop_price of the day
    Tp1Px, Tp2Px, \* take-profit levels; Tp1Px > Tp2Px is the inverted regime
    CancelPx,     \* cancel_on of an entry, 0 when cancel_thresh_mult is None
    ChaseSkipPx,  \* neckline + CHASE_SKIP_ATR * ATR, above which no chase
    ChaseEntry,   \* exec_params.chase_entry
    MaxWait,      \* exec_params.max_wait
    MaxHolding,   \* exec_params.max_holding
    TimeStop,     \* exec_params.time_stop_days, 0 is off
    Cooldown,     \* EXEC_PARAMS.cooldown
    KeepTop,      \* AMIHUD_FILTER.keep_top
    MaxNew,       \* PILOT_MAX_NEW_ORDERS_PER_DAY
    CapAmt,       \* equity * CAP
    PosAmt        \* PILOT_MAX_POSITION_PCT * equity

ASSUME LedgerAssumption ==
    /\ Sym # {} /\ IsFiniteSet(Sym)
    /\ MaxOrders \in Nat /\ OrderQty \in Nat \ {0} /\ MinLot \in Nat \ {0}
    /\ PNum \in Nat /\ PDen \in Nat \ {0} /\ PNum <= PDen
    /\ ChaseEntry \in BOOLEAN
    /\ {StopPx, Tp1Px, Tp2Px, CancelPx, ChaseSkipPx} \subseteq Nat
    /\ {MaxWait, MaxHolding, TimeStop, Cooldown, KeepTop} \subseteq Nat
    /\ {MaxNew, CapAmt, PosAmt} \subseteq Nat

Oid == 1..MaxOrders

BuySide   == {"OPEN", "CHASE"}                       \* _BUY_SIDE_PURPOSES
BuyAmount == BuySide \cup {"UNKNOWN"}                \* _BUY_AMOUNT_PURPOSES
SellSide  == {"EXPIRE", "TP2_EOD_SWEEP", "STOP_LOSS", "TP2", "TP2_SHARE",
              "TP1", "TIME_STOP"}
\* REJECTED, FAILED and PARTIAL_CANCELLED lead to the same decisions as
\* CANCELLED, PENDING and PARTIAL_FILLED to the same as SUBMITTED.
Terminal  == {"FILLED", "CANCELLED"}                 \* _TERMINAL_ORDER_STATES

\* An order at the counter: what get_orders returns for it.  vis: the query
\* returns it; creq: a cancel request has reached the counter.
CounterOrder == [sym : Sym, side : {"buy", "sell"}, qty : Nat, filled : Nat,
                 st : {"none", "live", "filled", "dead"}, vis : BOOLEAN,
                 creq : BOOLEAN, day : Nat]

\* state["orders"][cl_ord_id]; st = "NONE" when the key is absent.
Order == [sym : Sym, purpose : BuyAmount \cup SellSide, qty : Nat,
          filled : Nat, st : {"NONE", "SUBMITTED"} \cup Terminal, day : Nat]

\* state["positions"][symbol]: entry is entry_date, ep tells whether the
\* exec_params snapshot is there, priced whether stop and targets are set.
Position == [present : BOOLEAN, rem : Nat, entry : Nat, ep : BOOLEAN,
             priced : BOOLEAN, tp1_done : BOOLEAN, tp2_done : BOOLEAN,
             force_exit : BOOLEAN]

\* The state file.  lpo, lac: last_pre_open_date and last_after_close_date;
\* sig: the day whose scan took the last signal, one after last_signal.
PilotState == [ord : [Oid -> Order], pos : [Sym -> Position],
               scan : SUBSET Nat, lpo : Nat, lac : Nat, sig : [Sym -> Nat]]

NoPosition == [present |-> FALSE, rem |-> 0, entry |-> 0, ep |-> FALSE,
               priced |-> FALSE, tp1_done |-> FALSE, tp2_done |-> FALSE,
               force_exit |-> FALSE]

InitialState ==
    [ord |-> [o \in Oid |-> [sym |-> CHOOSE s \in Sym : TRUE,
                             purpose |-> "UNKNOWN", qty |-> 0, filled |-> 0,
                             st |-> "NONE", day |-> 0]],
     pos |-> [s \in Sym |-> NoPosition],
     scan |-> {}, lpo |-> 0, lac |-> 0, sig |-> [s \in Sym |-> 0]]

(***************************************************************************)
(* Readers of the state.  A definition marked "Variant" is the rule after  *)
(* it with a plausible mistake; no specification uses one.                 *)
(***************************************************************************)
Live(m, o) == m.ord[o].st = "SUBMITTED"

Held(m, s) == m.pos[s].rem > 0

\* Variant: a list of the sell reasons known at the time.
HasListedSell(m, s) ==
    \E o \in Oid : /\ Live(m, o) /\ m.ord[o].sym = s
                   /\ m.ord[o].purpose \in {"EXPIRE", "STOP_LOSS", "TP1", "TP2"}

HasOpenSell(m, s) ==
    \E o \in Oid : /\ Live(m, o)
                   /\ m.ord[o].sym = s
                   /\ m.ord[o].purpose \notin BuySide

\* Variant: an order absorbed from the counter is not taken for a buy.
HasOwnBuy(m, s) ==
    \E o \in Oid : Live(m, o) /\ m.ord[o].sym = s /\ m.ord[o].purpose \in BuySide

HasOpenBuy(m, s) ==
    \E o \in Oid : /\ Live(m, o)
                   /\ m.ord[o].sym = s
                   /\ m.ord[o].purpose \in BuyAmount

OpenBuyAmount(m) ==
    MapThenSumSet(LAMBDA o : m.ord[o].qty - m.ord[o].filled,
                  {o \in Oid : Live(m, o) /\ m.ord[o].purpose \in BuyAmount})

\* Variant: only orders with a fill count.
EffectiveFilled(m, today) ==
    {o \in Oid : /\ m.ord[o].purpose \in BuySide /\ m.ord[o].day = today
                 /\ m.ord[o].filled > 0}

\* check_caps, gate 3: state["placed"][today] holds exactly the orders the
\* pilot recorded as OPEN or CHASE that day; dead ones without a fill do not count.
Effective(m, today) ==
    {o \in Oid : /\ m.ord[o].st # "NONE"
                 /\ m.ord[o].purpose \in BuySide
                 /\ m.ord[o].day = today
                 /\ m.ord[o].filled > 0 \/ Live(m, o)}

MarketValue(vol) == MapThenSumSet(LAMBDA s : vol[s], Sym)

\* Variant: what is held takes nothing from the room.
CapsWithoutHoldings(m, vol, qty, today) ==
    /\ qty <= CapAmt - OpenBuyAmount(m)
    /\ Cardinality(Effective(m, today)) < MaxNew
    /\ qty <= PosAmt

CheckCaps(m, vol, qty, today) ==
    /\ qty <= CapAmt - MarketValue(vol) - OpenBuyAmount(m)
    /\ Cardinality(Effective(m, today)) < MaxNew
    /\ qty <= PosAmt

\* The dead orders of today that the repair stage may place again.
DeadOrders(m, today) ==
    {o \in Oid : /\ m.ord[o].day = today
                 /\ m.ord[o].purpose = "OPEN"
                 /\ m.ord[o].st \in Terminal
                 /\ m.ord[o].filled = 0}

Watchlist(m) ==
    {s \in Sym : Held(m, s)} \cup {m.ord[o].sym : o \in {p \in Oid : Live(m, p)}}

\* The price source of a position: an OPEN order of the symbol carries the geometry.
HasOrigin(ord, s) ==
    \E o \in Oid : ord[o].st # "NONE" /\ ord[o].sym = s /\ ord[o].purpose = "OPEN"

(***************************************************************************)
(* decide_pending: an entry is anchored on formed_at, which is the day     *)
(* before the day it was placed (signals are scanned up to T-1, repairs    *)
(* inherit the anchor of the same day's dead order).                       *)
(***************************************************************************)
DecidePending(px, order, today) ==
    IF CancelPx # 0 /\ px >= CancelPx THEN "cancel_on"
    ELSE IF today - (order.day - 1) > MaxWait
         THEN IF ChaseEntry THEN "chase" ELSE "max_wait"
         ELSE "keep"

\* The two guards of a chase: the target is used up, the price ran too far.
ChaseAbandoned(px) == px >= Tp2Px \/ px > ChaseSkipPx

(***************************************************************************)
(* decide_position: [qty, reason], reason "hold" when nothing triggers.    *)
(***************************************************************************)
Portion(p) == IF p.ep THEN PNum ELSE 0

Tp1Qty(p) == LET q == (p.rem * Portion(p)) \div PDen
             IN IF q < MinLot THEN p.rem ELSE q

Tp2ShareQty(p) == (p.rem * (PDen - Portion(p))) \div PDen

Inverted == Tp1Px > Tp2Px

Verdict(q, r) == [qty |-> q, reason |-> r]

DecidePosition(px, p, today) ==
    IF p.force_exit THEN Verdict(p.rem, "TP2_EOD_SWEEP")
    ELSE IF p.priced /\ px <= StopPx THEN Verdict(p.rem, "STOP_LOSS")
    ELSE IF p.priced /\ px >= Tp2Px /\ ~Inverted THEN Verdict(p.rem, "TP2")
    ELSE IF p.priced /\ px >= Tp2Px /\ ~p.tp2_done
         THEN IF Tp2ShareQty(p) < MinLot THEN Verdict(0, "TP2_DUST")
              ELSE Verdict(Tp2ShareQty(p), "TP2_SHARE")
    ELSE IF p.priced /\ px >= Tp1Px /\ ~p.tp1_done
         THEN Verdict(IF Inverted THEN p.rem ELSE Tp1Qty(p), "TP1")
    ELSE IF p.ep /\ TimeStop > 0 /\ p.entry # 0 /\ today - p.entry >= TimeStop
         THEN Verdict(p.rem, "TIME_STOP")
    ELSE Verdict(0, "hold")

\* The flags a placed sell sets at once.
AfterSell(p, reason) ==
    [p EXCEPT !.tp2_done = @ \/ reason = "TP2_SHARE",
              !.tp1_done = @ \/ reason = "TP1",
              !.force_exit = @ /\ reason # "TP2_EOD_SWEEP"]

\* Phase 2 of pre_open: longer held than max_holding up to T-1.
Expired(p, today) == p.rem > 0 /\ p.entry # 0 /\ (today - 1) - p.entry > MaxHolding

(***************************************************************************)
(* absorb_reality: snap is the answer of get_orders, vol that of           *)
(* get_position, young the orders placed at most 60 s ago.                 *)
(***************************************************************************)
\* Variant: a status outside the table is passed on.
LocalStatusRaw(st) == CASE st = "filled" -> "FILLED"
                        [] st = "dead"   -> "CANCELLED"
                        [] OTHER         -> st

LocalStatus(st) == CASE st = "filled" -> "FILLED"
                     [] st = "dead"   -> "CANCELLED"
                     [] OTHER         -> "SUBMITTED"     \* _GM_STATUS_TO_LOCAL

\* Variant: no grace for what was placed a moment ago.
AbsorbAtOnce(m, snap, young, o) ==
    IF snap[o].vis
    THEN [sym |-> snap[o].sym,
          purpose |-> IF m.ord[o].st = "NONE" THEN "UNKNOWN" ELSE m.ord[o].purpose,
          qty |-> snap[o].qty, filled |-> snap[o].filled,
          st |-> LocalStatus(snap[o].st), day |-> snap[o].day]
    ELSE [m.ord[o] EXCEPT !.st = IF @ = "SUBMITTED" THEN "CANCELLED" ELSE @]

\* Variant: an order the state does not know is left alone.
AbsorbKnown(m, snap, young, o) ==
    IF snap[o].vis /\ m.ord[o].st # "NONE"
    THEN [m.ord[o] EXCEPT !.st = LocalStatus(snap[o].st),
                          !.qty = snap[o].qty, !.filled = snap[o].filled]
    ELSE m.ord[o]

AbsorbOrder(m, snap, young, o) ==
    IF snap[o].vis
    THEN IF m.ord[o].st = "NONE"
         THEN [sym |-> snap[o].sym, purpose |-> "UNKNOWN", qty |-> snap[o].qty,
               filled |-> snap[o].filled, st |-> LocalStatus(snap[o].st),
               day |-> snap[o].day]
         ELSE [m.ord[o] EXCEPT !.st = LocalStatus(snap[o].st),
                               !.qty = snap[o].qty, !.filled = snap[o].filled]
    ELSE IF Live(m, o) /\ ~(m.ord[o].purpose = "OPEN" /\ o \in young)
         THEN [m.ord[o] EXCEPT !.st = "CANCELLED"]
         ELSE m.ord[o]

\* Buys of s whose fill the state has not counted yet.  (Counted fills of an
\* absent order are 0: the state record is created with filled = 0.)
NewFills(m, snap, s) ==
    {o \in Oid : /\ snap[o].vis /\ snap[o].side = "buy" /\ snap[o].sym = s
                 /\ snap[o].filled > IF m.ord[o].st = "NONE" THEN 0
                                     ELSE m.ord[o].filled}

\* Variant: a known position keeps its count.
AbsorbNewPosition(m, ord, snap, vol, s) ==
    IF m.pos[s].present THEN m.pos[s]
    ELSE IF vol[s] > 0 THEN [NoPosition EXCEPT !.present = TRUE, !.rem = vol[s]]
    ELSE NoPosition

\* Part 1 turns new fills into a position when there is none, dated by the order
\* it meets first; what it adds to a count is overwritten by part 3, which takes the
\* counter's volume and zeroes what the counter does not hold.
FromFills(m, ord, snap, s) ==
    LET fresh == NewFills(m, snap, s)
        first == ord[CHOOSE o \in fresh : TRUE]
    IN  IF fresh # {} /\ ~m.pos[s].present
        THEN [NoPosition EXCEPT !.present = TRUE, !.entry = first.day,
                                !.ep = first.purpose \in BuySide]
        ELSE m.pos[s]

AbsorbPosition(m, ord, snap, vol, s) ==
    [FromFills(m, ord, snap, s) EXCEPT !.present = @ \/ vol[s] > 0, !.rem = vol[s]]

\* _enrich_positions_from_orders
Enrich(ord, p, s) ==
    IF p.rem > 0 /\ HasOrigin(ord, s) THEN [p EXCEPT !.priced = TRUE] ELSE p

Absorb(m, snap, vol, young) ==
    LET ord == [o \in Oid |-> AbsorbOrder(m, snap, young, o)]
    IN  [m EXCEPT !.ord = ord,
                  !.pos = [s \in Sym |->
                              Enrich(ord, AbsorbPosition(m, ord, snap, vol, s), s)]]

=============================================================================
