------------------------------- MODULE Pilot -------------------------------
(***************************************************************************)
(* The GoldMiner pilot process (emquant/pilot_body.py, PilotRuntime and    *)
(* the gm callbacks) against the counter that holds its orders.            *)
(*                                                                         *)
(* The pilot is one thread: gm runs its callbacks one after the other.     *)
(* What interleaves with it is the counter (fills, cancels and rejections  *)
(* between any two of its remote calls) and a crash, after which only the  *)
(* state file is left.  A callback is therefore cut into steps at its      *)
(* remote calls and at its saves: an order and its record in memory are    *)
(* one step, the save that follows is another.                             *)
(*                                                                         *)
(* Faults names what the environment may do to the pilot:                  *)
(*   crash     the process dies between two steps                          *)
(*   query     get_orders or get_position raises                           *)
(*   refuse    an order call raises or returns an empty receipt            *)
(*   lost      it does so although the counter has taken the order         *)
(*   lag       get_orders does not show a new order at once                *)
(*   cancel    order_cancel raises                                         *)
(*   reject    the counter rejects an order it had taken                   *)
(*   overnight an order survives the close of the day                      *)
(*   flag      RISK_BLOCK.flag comes and goes                              *)
(*   subscribe subscribe raises                                            *)
(*   calendar  build_calendar comes back empty                             *)
(***************************************************************************)
EXTENDS PilotLedger

CONSTANTS
    Faults,
    Prices,      \* price levels a tick may show
    MaxDay,      \* bound: days of a run
    MaxCrashes   \* bound: crashes of a run

FaultKind == {"crash", "query", "refuse", "lost", "lag", "cancel", "reject",
              "overnight", "flag", "subscribe", "calendar"}

ASSUME PilotAssumption ==
    /\ Faults \subseteq FaultKind /\ Prices \subseteq Nat
    /\ MaxDay \in Nat \ {0} /\ MaxCrashes \in Nat

VARIABLES
    \* the counter
    cOrd,      \* its orders
    cPos,      \* shares it holds for the account
    \* the world
    day, phase,  \* phase: before 09:31, the session, after 15:36
    young,     \* orders placed at most 60 s ago
    blocked,   \* RISK_BLOCK.flag is there
    crashes,
    \* the pilot
    disk,      \* state.pkl
    mem,       \* self.state
    sub,       \* self._subscribed
    fired,     \* self._repair_fired_date
    job, step, \* the callback that runs and where it is
    tick,      \* the tick on_tick works on
    snap,      \* the answer of get_orders
    vol,       \* the answer of get_position
    todo,      \* symbols the callback still has to go through
    oids       \* orders the callback still has to go through

counter == <<cOrd, cPos>>
world   == <<day, phase, young, blocked, crashes>>
ctl     == <<job, step, tick, snap, vol, todo, oids>>
pilot   == <<disk, mem, sub, fired, ctl>>
vars    == <<counter, world, pilot>>

NoOrder == [sym |-> CHOOSE s \in Sym : TRUE, side |-> "buy", qty |-> 0,
            filled |-> 0, st |-> "none", vis |-> FALSE, creq |-> FALSE,
            day |-> 0]
NoSnap == [o \in Oid |-> NoOrder]
NoVol  == [s \in Sym |-> 0]
NoTick == [sym |-> CHOOSE s \in Sym : TRUE, px |-> 0, acted |-> FALSE]

Job  == {"down", "idle", "boot", "pre_open", "on_tick"}
Step == {"none", "orders", "positions", "subscribe", "cancel", "yesterday",
         "duplicates", "expire", "buy", "buy_save", "repair", "repair_save",
         "pending", "pending_save", "exit_save"}

TypeOK ==
    /\ cOrd \in [Oid -> CounterOrder] /\ cPos \in [Sym -> Nat]
    /\ day \in Nat \ {0} /\ phase \in {"pre", "open", "post"}
    /\ young \subseteq Oid /\ blocked \in BOOLEAN /\ crashes \in Nat
    /\ disk \in PilotState /\ mem \in PilotState
    /\ sub \subseteq Sym /\ fired \in Nat
    /\ job \in Job /\ step \in Step
    /\ tick \in [sym : Sym, px : Nat, acted : BOOLEAN]
    /\ snap \in [Oid -> CounterOrder] /\ vol \in [Sym -> Nat]
    /\ todo \subseteq Sym /\ oids \subseteq Oid

Init ==
    /\ cOrd = NoSnap /\ cPos = NoVol
    /\ day = 1 /\ phase = "pre" /\ young = {} /\ crashes = 0
    /\ blocked \in IF "flag" \in Faults THEN BOOLEAN ELSE {FALSE}
    /\ disk = InitialState /\ mem = InitialState
    /\ sub = {} /\ fired = 0
    /\ job = "down" /\ step = "none" /\ tick = NoTick
    /\ snap = NoSnap /\ vol = NoVol /\ todo = {} /\ oids = {}

(***************************************************************************)
(* The counter.                                                            *)
(***************************************************************************)
CLive(o) == cOrd[o].st = "live"

\* Lots bought today cannot be sold before tomorrow.
BoughtToday(s) ==
    MapThenSumSet(LAMBDA o : cOrd[o].filled,
                  {o \in Oid : /\ cOrd[o].sym = s /\ cOrd[o].side = "buy"
                               /\ cOrd[o].day = day})

\* One lot of an order trades; a sell trades what is held since yesterday.
CounterFill(o) ==
    /\ CLive(o) /\ phase \in {"pre", "open"}
    /\ cOrd[o].side = "sell" => /\ cPos[cOrd[o].sym] > 0
                                /\ cPos[cOrd[o].sym] > BoughtToday(cOrd[o].sym)
    /\ cOrd' = [cOrd EXCEPT ![o].filled = @ + 1,
                            ![o].st = IF cOrd[o].filled + 1 >= cOrd[o].qty
                                      THEN "filled" ELSE "live"]
    /\ cPos' = [cPos EXCEPT ![cOrd[o].sym] =
                   IF cOrd[o].side = "buy" THEN @ + 1 ELSE @ - 1]
    /\ UNCHANGED <<world, pilot>>

\* A cancel takes effect, or the order is rejected.
CounterClose(o) ==
    /\ CLive(o)
    /\ cOrd[o].creq \/ ("reject" \in Faults /\ cOrd[o].filled = 0)
    /\ cOrd' = [cOrd EXCEPT ![o].st = "dead"]
    /\ UNCHANGED <<cPos, world, pilot>>

\* get_orders starts to show an order of the day.
CounterReveal(o) ==
    /\ cOrd[o].st \in {"live", "filled"} /\ ~cOrd[o].vis /\ cOrd[o].day = day
    /\ cOrd' = [cOrd EXCEPT ![o].vis = TRUE]
    /\ UNCHANGED <<cPos, world, pilot>>

(***************************************************************************)
(* The world.  The lag of get_orders is shorter than the 60 s of grace, no *)
(* grace ends between the two queries of a reconciliation, and the day     *)
(* moves on between callbacks.                                             *)
(***************************************************************************)
GraceEnds(o) ==
    /\ o \in young /\ step # "positions" /\ (cOrd[o].vis \/ cOrd[o].st = "dead")
    /\ young' = young \ {o}
    /\ UNCHANGED <<counter, day, phase, blocked, crashes, pilot>>

Between == job \in {"idle", "down"}

Clock ==
    /\ Between /\ phase \in {"pre", "open"}
    /\ phase' = IF phase = "pre" THEN "open" ELSE "post"
    /\ UNCHANGED <<counter, day, young, blocked, crashes, pilot>>

\* get_orders returns the orders of the day, and those that are still working.
NewDay ==
    /\ Between /\ phase = "post" /\ day < MaxDay
    /\ day' = day + 1 /\ phase' = "pre" /\ young' = {}
    /\ \E kept \in SUBSET {o \in Oid : CLive(o)} :
          /\ kept # {} => "overnight" \in Faults
          /\ cOrd' = [o \in Oid |->
                IF o \in kept \/ cOrd[o].st = "none" THEN cOrd[o]
                ELSE [cOrd[o] EXCEPT !.vis = FALSE,
                                     !.st = IF @ = "live" THEN "dead" ELSE @]]
    /\ UNCHANGED <<cPos, blocked, crashes, pilot>>

Flag ==
    /\ "flag" \in Faults /\ blocked' = ~blocked
    /\ UNCHANGED <<counter, day, phase, young, crashes, pilot>>

(***************************************************************************)
(* Orders leave the pilot.                                                 *)
(***************************************************************************)
FreeOid == {o \in Oid : cOrd[o].st = "none" /\ \A p \in Oid : p < o => cOrd[p].st # "none"}

NewOrder(s, side, q) ==
    [sym |-> s, side |-> side, qty |-> q, filled |-> 0, st |-> "live",
     vis |-> "lag" \notin Faults, creq |-> FALSE, day |-> day]

PlacedNow(o) == young' = IF "lag" \in Faults THEN young \cup {o} ELSE young

\* The counter takes order o.
Take(o, s, side, q) ==
    cOrd' = [cOrd EXCEPT ![o] = NewOrder(s, side, q)] /\ PlacedNow(o)

\* The call fails: without effect, or after the counter took the order.
Failed(s, side, q) ==
    \/ /\ "refuse" \in Faults \/ FreeOid = {}
       /\ UNCHANGED <<cOrd, young>>
    \/ /\ "lost" \in Faults
       /\ \E o \in FreeOid : Take(o, s, side, q)

Recorded(m, o, s, purpose, q) ==
    [m EXCEPT !.ord[o] = [sym |-> s, purpose |-> purpose, qty |-> q, filled |-> 0,
                          st |-> "SUBMITTED", day |-> day]]

\* _cancel_and_sync for the orders of set C whose call goes through: what the
\* counter notes, and what the state notes at once.
CancelNoted(C) ==
    [o \in Oid |-> IF o \in C /\ CLive(o) THEN [cOrd[o] EXCEPT !.creq = TRUE]
                   ELSE cOrd[o]]

Synced(m, C) ==
    [m EXCEPT !.ord = [o \in Oid |-> IF o \in C /\ Live(m, o)
                                     THEN [m.ord[o] EXCEPT !.st = "CANCELLED"]
                                     ELSE m.ord[o]]]

\* The calls that go through among those for the orders of set C.
CancelCalls(C) == IF "cancel" \in Faults THEN SUBSET C ELSE {C}

(***************************************************************************)
(* The process: crash, and init -> bootstrap.                              *)
(***************************************************************************)
Crash ==
    /\ "crash" \in Faults /\ job # "down" /\ crashes < MaxCrashes
    /\ crashes' = crashes + 1
    /\ job' = "down" /\ step' = "none" /\ mem' = disk
    /\ sub' = {} /\ fired' = 0 /\ tick' = NoTick
    /\ snap' = NoSnap /\ vol' = NoVol /\ todo' = {} /\ oids' = {}
    /\ UNCHANGED <<counter, day, phase, young, blocked, disk>>

Start ==
    /\ job = "down" /\ job' = "boot" /\ step' = "orders" /\ mem' = disk
    /\ UNCHANGED <<counter, world, disk, sub, fired, tick, snap, vol, todo, oids>>

\* _repair_pass: the window and a dead order of today.
RepairDue == phase = "open" /\ mem.lpo = day /\ DeadOrders(mem, day) # {}

Idle == job' = "idle" /\ step' = "none" /\ tick' = NoTick /\ todo' = {} /\ oids' = {}

\* Variant: a restart during the day subscribes nothing.
BootBlind ==
    /\ job = "boot" /\ step = "subscribe" /\ ~RepairDue /\ Idle
    /\ UNCHANGED <<counter, world, disk, mem, sub, fired, snap, vol>>

\* _subscribe_watchlist: all that is missing, or nothing when the call raises.
Subscribing ==
    {sub \cup Watchlist(mem)} \cup (IF "subscribe" \in Faults THEN {sub} ELSE {})

BootSubscribe ==
    /\ job = "boot" /\ step = "subscribe"
    /\ sub' \in Subscribing
    /\ \/ /\ RepairDue /\ job' = "pre_open" /\ step' = "orders"
          /\ UNCHANGED <<tick, todo, oids>>
       \/ ~RepairDue /\ Idle
    /\ UNCHANGED <<counter, world, disk, mem, fired, snap, vol>>

(***************************************************************************)
(* reconcile: two queries, then absorb_reality, enrichment and the save.   *)
(***************************************************************************)
AfterReconcile == CASE job = "boot" -> "subscribe"
                    [] job = "pre_open" -> "cancel"
                    [] OTHER -> "pending"

\* The entries on_tick goes through after the reconciliation.
Entries(m, s) ==
    {o \in Oid : Live(m, o) /\ m.ord[o].sym = s /\ m.ord[o].purpose = "OPEN"}

TickEntries(m) == IF job = "on_tick" THEN Entries(m, tick.sym) ELSE {}

GetOrders ==
    /\ step = "orders"
    /\ snap' = [o \in Oid |-> IF cOrd[o].vis THEN cOrd[o] ELSE NoOrder]
    /\ step' = "positions"
    /\ UNCHANGED <<counter, world, disk, mem, sub, fired, job, tick, vol, todo, oids>>

GetPositions ==
    /\ step = "positions"
    /\ mem' = Absorb(mem, snap, cPos, young) /\ disk' = mem'
    /\ snap' = NoSnap /\ step' = AfterReconcile
    /\ oids' = TickEntries(mem')
    /\ UNCHANGED <<counter, world, sub, fired, job, tick, vol, todo>>

QueryFails ==
    /\ "query" \in Faults /\ step \in {"orders", "positions"}
    /\ snap' = NoSnap /\ step' = AfterReconcile
    /\ oids' = TickEntries(mem)
    /\ UNCHANGED <<counter, world, disk, mem, sub, fired, job, tick, vol, todo>>

(***************************************************************************)
(* pre_open.                                                               *)
(***************************************************************************)
\* pre_open_job: by schedule, or by the first tick after 09:32; the mark is
\* set before the work.
PreOpenJob ==
    /\ job = "idle" /\ mem.lpo # day
    /\ phase = "open" \/ (phase = "post" /\ sub # {})
    /\ mem' = [mem EXCEPT !.lpo = day]
    /\ job' = "pre_open" /\ step' = "orders"
    /\ UNCHANGED <<counter, world, disk, sub, fired, tick, snap, vol, todo, oids>>

\* Variant: all working buys, whatever their day.
AllBuys == {o \in Oid : CLive(o) /\ cOrd[o].vis /\ cOrd[o].side = "buy"}

\* Phases 1 and 1': yesterday's buys, then all but the newest entry of a symbol.
YesterdaysBuys ==
    {o \in Oid : CLive(o) /\ cOrd[o].vis /\ cOrd[o].side = "buy" /\ cOrd[o].day # day}

Duplicates(m) ==
    {o \in Oid : \E p \in Entries(m, m.ord[o].sym) :
                    o \in Entries(m, m.ord[o].sym) /\ o < p}

\* Phase 2 takes the overdue positions without a working sell.
Overdue(m) == {s \in Sym : Expired(m.pos[s], day) /\ ~HasOpenSell(m, s)}

PreOpenQuery ==
    /\ job = "pre_open" /\ step = "cancel" /\ step' = "yesterday"
    /\ sub' \in Subscribing
    /\ oids' \in {YesterdaysBuys} \cup (IF "query" \in Faults THEN {{}} ELSE {})
    /\ UNCHANGED <<counter, world, disk, mem, fired, job, tick, snap, vol, todo>>

\* One order of a phase, duplicates oldest first; it may have been filled meanwhile.
PreOpenCancel(o) ==
    /\ step \in {"yesterday", "duplicates"} /\ o \in oids /\ oids' = oids \ {o}
    /\ step = "duplicates" =>
           \A p \in oids : mem.ord[p].sym = mem.ord[o].sym => o <= p
    /\ \E C \in CancelCalls({o}) : cOrd' = CancelNoted(C) /\ mem' = Synced(mem, C)
    /\ UNCHANGED <<cPos, world, disk, sub, fired, job, step, tick, snap, vol, todo>>

PreOpenDuplicates ==
    /\ step = "yesterday" /\ oids = {} /\ step' = "duplicates" /\ oids' = Duplicates(mem)
    /\ UNCHANGED <<counter, world, disk, mem, sub, fired, job, tick, snap, vol, todo>>

\* Without a calendar there is no T-1: neither phase 2 nor the scan.
PreOpenOverdue ==
    /\ step = "duplicates" /\ oids = {}
    /\ \/ todo' = Overdue(mem) /\ step' = "expire" /\ vol' = vol
       \/ "calendar" \in Faults /\ todo' = {} /\ step' = "buy" /\ vol' = cPos
    /\ UNCHANGED <<counter, world, disk, mem, sub, fired, job, tick, snap, oids>>

\* Phase 2, one symbol: the limit-down sell.
PreOpenExpire(s) ==
    /\ step = "expire" /\ s \in todo /\ todo' = todo \ {s}
    /\ LET q == mem.pos[s].rem
       IN  \/ \E o \in FreeOid : /\ Take(o, s, "sell", q)
                                 /\ mem' = Recorded(mem, o, s, "EXPIRE", q)
           \/ Failed(s, "sell", q) /\ mem' = mem
    /\ UNCHANGED <<cPos, day, phase, blocked, crashes, disk, sub, fired, job, step,
                   tick, snap, vol, oids>>

\* The save after phase 2, then phases 3, 4 and 4'.
Signalable(s) ==
    /\ ~(mem.sig[s] # 0 /\ day - (mem.sig[s] - 1) < Cooldown)
    /\ ~Held(mem, s) /\ ~HasOpenBuy(mem, s)

AmihudKeeps(S) ==
    IF Cardinality(S) <= KeepTop THEN {S}
    ELSE {S} \cup {K \in SUBSET S : Cardinality(K) = KeepTop}

\* Variant: the flag ends the run before the scan.
ScanUnlessBlocked ==
    /\ step = "expire" /\ todo = {} /\ disk' = mem
    /\ IF blocked \/ day \in mem.scan
       THEN UNCHANGED <<mem, todo>>
       ELSE \E S \in SUBSET {s \in Sym : Signalable(s)} :
               /\ mem' = [mem EXCEPT !.scan = @ \cup {day}] /\ todo' = S
    /\ step' = "buy" /\ vol' = cPos
    /\ UNCHANGED <<counter, world, sub, fired, job, tick, snap, oids>>

PreOpenScan ==
    /\ step = "expire" /\ todo = {}
    /\ disk' = mem
    /\ \/ /\ day \in mem.scan /\ todo' = {} /\ mem' = mem
       \/ /\ day \notin mem.scan
          /\ \E S \in SUBSET {s \in Sym : Signalable(s)} :
                /\ mem' = [mem EXCEPT !.scan = @ \cup {day},
                                      !.sig = [s \in Sym |-> IF s \in S THEN day
                                                             ELSE mem.sig[s]]]
                /\ todo' \in IF blocked THEN {{}} ELSE AmihudKeeps(S)
    /\ step' = "buy" /\ vol' = cPos
    /\ UNCHANGED <<counter, world, sub, fired, job, tick, snap, oids>>

\* check_caps refuses, for want of an account figure too.
GateShut == ~CheckCaps(mem, vol, OrderQty, day) \/ "query" \in Faults

\* Phase 5, one signal.
PreOpenBuy(s) ==
    /\ step = "buy" /\ s \in todo /\ todo' = todo \ {s}
    /\ \/ /\ GateShut
          /\ UNCHANGED <<cOrd, young, mem, step>>
       \/ /\ CheckCaps(mem, vol, OrderQty, day)
          /\ \/ /\ Failed(s, "buy", OrderQty) /\ UNCHANGED <<mem, step>>
             \/ /\ \E o \in FreeOid : /\ Take(o, s, "buy", OrderQty)
                                      /\ mem' = Recorded(mem, o, s, "OPEN", OrderQty)
                /\ step' = "buy_save"
    /\ UNCHANGED <<cPos, day, phase, blocked, crashes, disk, sub, fired, job, tick,
                   snap, vol, oids>>

\* The save after each order.
SaveOrder ==
    /\ step \in {"buy_save", "repair_save", "pending_save"}
    /\ disk' = mem
    /\ step' = CASE step = "buy_save" -> "buy"
                 [] step = "repair_save" -> "repair"
                 [] OTHER -> "pending"
    /\ UNCHANGED <<counter, world, mem, sub, fired, job, tick, snap, vol, todo, oids>>

\* Phase 5'': the dead orders of today, with a fresh account query.
PreOpenRepairs ==
    /\ step = "buy" /\ todo = {}
    /\ oids' = IF blocked THEN {} ELSE DeadOrders(mem, day)
    /\ vol' = cPos /\ step' = "repair"
    /\ UNCHANGED <<counter, world, disk, mem, sub, fired, job, tick, snap, todo>>

PreOpenRepair(d) ==
    /\ step = "repair" /\ d \in oids /\ oids' = oids \ {d}
    /\ LET s == mem.ord[d].sym
           free == ~Held(mem, s) /\ ~HasOpenBuy(mem, s)
       IN  \/ (~free \/ GateShut) /\ UNCHANGED <<cOrd, young, mem, step>>
           \/ /\ free /\ CheckCaps(mem, vol, OrderQty, day)
              /\ \/ Failed(s, "buy", OrderQty) /\ UNCHANGED <<mem, step>>
                 \/ /\ \E o \in FreeOid :
                          /\ Take(o, s, "buy", OrderQty)
                          /\ mem' = Recorded(mem, o, s, "OPEN", OrderQty)
                    /\ step' = "repair_save"
    /\ UNCHANGED <<cPos, day, phase, blocked, crashes, disk, sub, fired, job, tick,
                   snap, vol, todo>>

\* Phase 5' and the last save.
PreOpenEnd ==
    /\ step = "repair" /\ oids = {}
    /\ sub' \in Subscribing /\ disk' = mem /\ vol' = NoVol
    /\ Idle
    /\ UNCHANGED <<counter, world, mem, fired, snap>>

\* schedule_probe_job, or a tick that has not yet fired the repair today.
Repair ==
    /\ job = "idle" /\ RepairDue
    /\ \/ UNCHANGED fired
       \/ fired # day /\ sub # {} /\ fired' = day
    /\ job' = "pre_open" /\ step' = "orders"
    /\ UNCHANGED <<counter, world, disk, mem, sub, tick, snap, vol, todo, oids>>

(***************************************************************************)
(* on_tick: the catch-ups come first, so a tick is worked on when none is  *)
(* due; whether it reconciles depends on the time of the last success.     *)
(***************************************************************************)
CatchUpDue ==
    \/ phase # "pre" /\ mem.lpo # day
    \/ phase = "post" /\ mem.lac # day
    \/ RepairDue /\ fired # day

TickStart(s, px) ==
    /\ job = "idle" /\ s \in sub /\ ~CatchUpDue
    /\ job' = "on_tick" /\ tick' = [sym |-> s, px |-> px, acted |-> FALSE]
    /\ \/ step' = "orders" /\ oids' = {}
       \/ step' = "pending" /\ oids' = Entries(mem, s)
    /\ UNCHANGED <<counter, world, disk, mem, sub, fired, snap, vol, todo>>

\* The day up to which a number of days is counted; without a calendar it is 0.
Today(since) == {day} \cup (IF "calendar" \in Faults THEN {since} ELSE {})

\* One entry of the symbol: keep it, cancel it, or cancel it and chase.
TickPending(o) ==
    /\ step = "pending" /\ o \in oids /\ oids' = oids \ {o}
    /\ \E today \in Today(mem.ord[o].day - 1) :
       LET s == tick.sym
           q == mem.ord[o].qty
           v == DecidePending(tick.px, mem.ord[o], today)
           chase == v = "chase" /\ ~ChaseAbandoned(tick.px)
       IN  \/ v = "keep" /\ UNCHANGED <<cOrd, young, mem, step, tick>>
           \/ /\ v # "keep" /\ ~chase
              /\ \E C \in CancelCalls({o}) : cOrd' = CancelNoted(C) /\ mem' = Synced(mem, C)
              /\ tick' = [tick EXCEPT !.acted = TRUE] /\ UNCHANGED <<young, step>>
           \/ /\ chase
              /\ \E C \in CancelCalls({o}) :
                    \/ /\ "refuse" \in Faults \/ FreeOid = {}
                       /\ cOrd' = CancelNoted(C) /\ mem' = Synced(mem, C)
                       /\ UNCHANGED <<young, step, tick>>
                    \/ \E n \in FreeOid :
                       /\ cOrd' = [CancelNoted(C) EXCEPT ![n] = NewOrder(s, "buy", q)]
                       /\ PlacedNow(n)
                       /\ \/ /\ mem' = Recorded(Synced(mem, C), n, s, "CHASE", q)
                             /\ step' = "pending_save"
                             /\ tick' = [tick EXCEPT !.acted = TRUE]
                          \/ /\ "lost" \in Faults /\ mem' = Synced(mem, C)
                             /\ UNCHANGED <<step, tick>>
    /\ UNCHANGED <<cPos, day, phase, blocked, crashes, disk, sub, fired, job, snap,
                   vol, todo>>

\* The position of the symbol: hold it, sink a dust share, or sell.
TickExit ==
    /\ step = "pending" /\ oids = {}
    /\ \E today \in Today(mem.pos[tick.sym].entry) :
       LET s == tick.sym
           p == mem.pos[s]
           v == DecidePosition(tick.px, p, today)
           sells == p.rem > 0 /\ ~HasOpenSell(mem, s) /\ v.reason # "hold"
           done == IF tick.acted THEN /\ step' = "exit_save"
                                      /\ UNCHANGED <<job, tick, todo>>
                                 ELSE job' = "idle" /\ step' = "none" /\ tick' = NoTick
                                      /\ todo' = {}
       IN  \/ ~sells /\ done /\ UNCHANGED <<cOrd, young, mem>>
           \/ /\ sells /\ v.qty = 0 /\ done
              /\ mem' = [mem EXCEPT !.pos[s].tp2_done = TRUE]
              /\ UNCHANGED <<cOrd, young>>
           \/ /\ sells /\ v.qty > 0
              /\ \/ Failed(s, "sell", v.qty) /\ done /\ UNCHANGED mem
                 \/ /\ \E o \in FreeOid :
                          /\ Take(o, s, "sell", v.qty)
                          /\ mem' = [Recorded(mem, o, s, v.reason, v.qty)
                                        EXCEPT !.pos[s] = AfterSell(p, v.reason)]
                    /\ step' = "exit_save" /\ UNCHANGED <<job, tick, todo>>
    /\ UNCHANGED <<cPos, day, phase, blocked, crashes, disk, sub, fired, snap, vol, oids>>

TickSave ==
    /\ step = "exit_save" /\ disk' = mem /\ Idle
    /\ UNCHANGED <<counter, world, mem, sub, fired, snap, vol>>

(***************************************************************************)
(* after_close_job.                                                        *)
(***************************************************************************)
Swept(p) == IF p.rem > 0 /\ p.tp2_done /\ ~p.tp1_done
            THEN [p EXCEPT !.force_exit = TRUE] ELSE p

AfterClose ==
    /\ job = "idle" /\ phase = "post" /\ mem.lac # day
    /\ mem' = [mem EXCEPT !.lac = day, !.pos = [s \in Sym |-> Swept(mem.pos[s])]]
    /\ disk' = mem' /\ sub' = {}
    /\ UNCHANGED <<counter, world, fired, ctl>>

-----------------------------------------------------------------------------
CounterStep == \E o \in Oid : CounterFill(o) \/ CounterClose(o) \/ CounterReveal(o)

WorldStep == (\E o \in Oid : GraceEnds(o)) \/ Clock \/ NewDay \/ Flag \/ Crash

PreOpen ==
    \/ PreOpenJob \/ PreOpenQuery \/ PreOpenDuplicates \/ PreOpenOverdue \/ PreOpenScan
    \/ PreOpenRepairs \/ PreOpenEnd \/ Repair
    \/ \E s \in Sym : PreOpenExpire(s) \/ PreOpenBuy(s)
    \/ \E o \in Oid : PreOpenCancel(o) \/ PreOpenRepair(o)

OnTick ==
    \/ \E s \in Sym, px \in Prices : TickStart(s, px)
    \/ \E o \in Oid : TickPending(o)
    \/ TickExit \/ TickSave

PilotStep ==
    \/ Start \/ BootSubscribe \/ GetOrders \/ GetPositions \/ QueryFails
    \/ SaveOrder \/ PreOpen \/ OnTick \/ AfterClose

Next == CounterStep \/ WorldStep \/ PilotStep

Spec == Init /\ [][Next]_vars

-----------------------------------------------------------------------------
(***************************************************************************)
(* Safety.                                                                 *)
(***************************************************************************)
WorkingSell(o) == CLive(o) /\ cOrd[o].side = "sell"
WorkingBuy(o)  == CLive(o) /\ cOrd[o].side = "buy" /\ ~cOrd[o].creq

Rest(o) == cOrd[o].qty - cOrd[o].filled

\* A symbol without a working sell is booked with no more than the account holds:
\* the next exit cannot sell what an earlier one has already sold (absorb_reality,
\* which reads the orders before the positions).
BookWithinAccount ==
    job \notin {"down", "boot"} =>
        \A s \in Sym : ~HasOpenSell(mem, s) => mem.pos[s].rem <= cPos[s]

\* What works on the sell side of a symbol is one order, and the account holds
\* what it still has to sell: no short position can come of it (the purpose of
\* _has_open_sell).
SellsCovered ==
    \A o \in Oid : WorkingSell(o) =>
        /\ Rest(o) <= cPos[cOrd[o].sym]
        /\ \A p \in Oid : WorkingSell(p) /\ cOrd[p].sym = cOrd[o].sym => p = o

\* A symbol never has two working buys, however often the scan, the repair and the
\* chase come round to it (the in-flight guards of phases 3 and 5'').
OneWorkingBuy ==
    \A o, p \in Oid : WorkingBuy(o) /\ WorkingBuy(p) /\ cOrd[o].sym = cOrd[p].sym
                       => o = p

\* One entry per symbol: what the account holds of it and what is working to buy
\* more, cancels under way included, is never above one order's size ("held or in
\* flight: skip" of phases 3 and 5'').
OneEntry ==
    \A s \in Sym :
        cPos[s] + MapThenSumSet(Rest, {o \in Oid : /\ CLive(o) /\ cOrd[o].sym = s
                                                   /\ cOrd[o].side = "buy"}) <= OrderQty

\* The counter never carries more effective buys of one day than the pilot's
\* daily limit (check_caps, gate 3).
DailyLimit ==
    Cardinality({o \in Oid : /\ cOrd[o].st # "none" /\ cOrd[o].side = "buy"
                             /\ cOrd[o].day = day
                             /\ CLive(o) \/ cOrd[o].filled > 0}) <= MaxNew

\* Holdings and working buys together stay within equity * CAP (check_caps, gate 2).
ExposureCapped ==
    MarketValue(cPos) + MapThenSumSet(Rest, {o \in Oid : WorkingBuy(o)}) <= CapAmt

\* A running pilot has every order that works at the counter in its state as
\* working, unless it asked to cancel it (absorb_reality, part 2).
NoForgottenOrder ==
    job \notin {"down", "boot"} =>
        \A o \in Oid : CLive(o) /\ ~cOrd[o].creq => Live(mem, o)

\* After pre_open every held symbol is subscribed during the session, so that
\* its stop is watched (the three subscription points of _subscribe_watchlist).  A
\* subscribe that raises takes it away until the next of these points: the code notes
\* the failure and goes on.
HeldIsWatched ==
    job = "idle" /\ phase = "open" /\ mem.lpo = day =>
        \A s \in Sym : Held(mem, s) => s \in sub

\* A day whose pre_open is marked as run has been scanned once the pilot is idle:
\* the mark is what on_tick consults to catch up.  Without its calendar the pilot
\* gives up the scan and keeps the mark (the degradation pre_open documents), and a
\* crash can lose the scan.
MarkedIsScanned ==
    job = "idle" /\ mem.lpo = day => day \in mem.scan

\* pre_open never cancels an entry of the same day unless it is a duplicate
\* (guard I-2 of phase 1: a second pass must not kill the day's entries).
PreOpenSparesToday ==
    [][job = "pre_open" => \A o \in Oid :
          cOrd'[o].creq /\ ~cOrd[o].creq /\ cOrd[o].day = day =>
              \E p \in Oid : p # o /\ Live(mem, p) /\ mem.ord[p].sym = mem.ord[o].sym]_vars

-----------------------------------------------------------------------------
(***************************************************************************)
(* What the documents say and the code does not keep ("Divergences" in the *)
(* README, with the constants under which TLC shows it).                   *)
(***************************************************************************)
\* A position that came from an entry of the pilot carries the entry's date, the
\* anchor of max_holding (absorb_reality, "entry_date from the order's date").
EntryIsDated ==
    \A s \in Sym : Held(mem, s) /\ HasOrigin(mem.ord, s) => mem.pos[s].entry # 0

\* The repair stage places again only what the counter refused or lost (the comment of
\* phase 5''): the dead order it takes was never cancelled by the pilot itself.
RepairsRefused ==
    [][\A d \in oids : d \notin oids' /\ step = "repair" /\ mem' # mem
                          => ~cOrd[d].creq]_vars

\* When a symbol is held again after it was sold out, its position is dated by the
\* order that bought it, not by the entry before.
ReentryIsDated ==
    [][step = "positions" => \A s \in Sym :
          ~Held(mem, s) /\ Held(mem', s) /\ mem'.pos[s].entry # 0 =>
              \E o \in NewFills(mem, snap, s) : mem'.ord[o].day = mem'.pos[s].entry]_vars

-----------------------------------------------------------------------------
\* Through crashes, restarts and late answers the sell side is an ExitDesk: an
\* offer is only made when none works, for no more than the account holds.
OnOffer == [s \in Sym |-> MapThenSumSet(Rest, {o \in Oid : WorkingSell(o) /\ cOrd[o].sym = s})]

Desk == INSTANCE ExitDesk WITH shares <- cPos, offer <- OnOffer

SellsLikeADesk == Desk!Spec

=============================================================================
