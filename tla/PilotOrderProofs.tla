-------------------------- MODULE PilotOrderProofs --------------------------
(***************************************************************************)
(* Proofs about the orders of Pilot, beside those about its sells in       *)
(* PilotProofs: what a step does to the orders of the counter and to the   *)
(* records of the state, and what follows for the day's mark, the          *)
(* subscriptions, the cancels, the purchases and the caps.                 *)
(***************************************************************************)
EXTENDS PilotProofs, SumTheorems

-----------------------------------------------------------------------------
(***************************************************************************)
(* What a callback does to orders: it asks to cancel those of C, and it    *)
(* places those of N, of which there is at most one.                       *)
(***************************************************************************)
NewRecord(s, p, q) ==
    [sym |-> s, purpose |-> p, qty |-> q, filled |-> 0, st |-> "SUBMITTED", day |-> day]

Moves(C, N, s, side, p, q) ==
    /\ \A n, k \in N : n = k
    /\ \A n \in N : /\ n \in FreeOid /\ cOrd'[n] = NewOrder(s, side, q)
                    /\ \/ mem'.ord[n] = NewRecord(s, p, q)
                       \/ "lost" \in Faults /\ mem'.ord[n] = Synced(mem, C).ord[n]
    /\ \A o \in Oid \ N : /\ cOrd'[o] = CancelNoted(C)[o]
                          /\ mem'.ord[o] = Synced(mem, C).ord[o]
    /\ young' = IF "lag" \in Faults THEN young \cup N ELSE young

\* Why it may cancel: pre_open has the order on its list, or it is an entry that has
\* waited too long or whose price ran away.
MayCancel(o) ==
    /\ o \in oids
    /\ \/ step \in {"yesterday", "duplicates"}
       \/ /\ step = "pending"
          /\ \E today \in Today(mem.ord[o].day - 1) :
                DecidePending(tick.px, mem.ord[o], today) # "keep"

\* Why it may place: an overdue position, a signal, a dead entry, a chase, an exit.
MayPlace(s, side, p, q) ==
    \/ /\ step = "expire" /\ s \in todo /\ todo' = todo \ {s}
       /\ side = "sell" /\ p = "EXPIRE" /\ q = mem.pos[s].rem
    \/ /\ step = "buy" /\ s \in todo /\ todo' = todo \ {s}
       /\ side = "buy" /\ p = "OPEN" /\ q = OrderQty /\ CheckCaps(mem, vol, q, day)
    \/ /\ step = "repair" /\ ~Held(mem, s) /\ ~HasOpenBuy(mem, s)
       /\ side = "buy" /\ p = "OPEN" /\ q = OrderQty /\ CheckCaps(mem, vol, q, day)
    \/ /\ step = "pending" /\ s = tick.sym /\ ChaseEntry /\ side = "buy" /\ p = "CHASE"
    \/ /\ step = "pending" /\ s = tick.sym /\ side = "sell" /\ p \in SellSide
       /\ q > 0 /\ ~HasOpenSell(mem, s)

\* Where a callback that cancels or places goes on.
GoesOn ==
    /\ UNCHANGED <<cPos, day, phase, disk, snap, vol>>
    /\ \/ job' = job /\ step' # "none"
       \/ job' = "idle" /\ step' = "none"
    /\ step' \notin {"positions", "cancel", "orders", "subscribe"} /\ sub' = sub
    /\ step' \in {"yesterday", "duplicates"} => step' = step
    /\ step \in {"yesterday", "duplicates"} => step' = step /\ oids' \subseteq oids
    /\ step = "expire" => step' = "expire"
    /\ step = "buy" => step' \in {"buy", "buy_save"} /\ todo' \subseteq todo
    /\ step = "repair" => step' \in {"repair", "repair_save"}
    /\ step = "pending" => step' \in {"pending", "pending_save", "exit_save", "none"}
    /\ step \in {"yesterday", "duplicates", "expire", "buy", "repair", "pending"}
    /\ mem'.lpo = mem.lpo /\ mem'.scan = mem.scan
    /\ \A x \in Sym : mem'.pos[x].rem = mem.pos[x].rem
    /\ job' # "idle" => tick'.sym = tick.sym

Turn(C, N, s, side, p, q) ==
    /\ Moves(C, N, s, side, p, q) /\ C \in SUBSET Oid /\ s \in Sym
    /\ side \in {"buy", "sell"} /\ p \in Purpose /\ q \in Nat
    /\ \A o \in C : MayCancel(o)
    /\ \A n \in N : MayPlace(s, side, p, q)
    /\ GoesOn

TurnStep ==
    \/ TickExit
    \/ \E s \in Sym : PreOpenExpire(s) \/ PreOpenBuy(s)
    \/ \E o \in Oid : PreOpenCancel(o) \/ PreOpenRepair(o) \/ TickPending(o)

LEMMA NoneNoted ==
  ASSUME TypeOK
  PROVE  \A o \in Oid : CancelNoted({})[o] = cOrd[o] /\ Synced(mem, {}).ord[o] = mem.ord[o]
<1>1. mem \in PilotState
  BY DEF TypeOK
<1> QED
  BY <1>1, SyncedType DEF CancelNoted

LEMMA NothingMoves ==
  ASSUME TypeOK, cOrd' = cOrd, young' = young, mem'.ord = mem.ord, NEW s, NEW side, NEW p, NEW q
  PROVE  Moves({}, {}, s, side, p, q)
BY NoneNoted DEF Moves

LEMMA TakeMoves ==
  ASSUME TypeOK, NEW o \in FreeOid, NEW s \in Sym, NEW side \in {"buy", "sell"},
         NEW p \in Purpose, NEW q \in Nat, Take(o, s, side, q),
         mem'.ord = Recorded(mem, o, s, p, q).ord
  PROVE  Moves({}, {o}, s, side, p, q)
<1>1. mem \in PilotState /\ day \in Nat /\ o \in Oid /\ cOrd \in [Oid -> CounterOrder]
  BY DEF TypeOK, FreeOid
<1>2. /\ mem'.ord[o] = NewRecord(s, p, q)
      /\ \A x \in Oid \ {o} : mem'.ord[x] = mem.ord[x]
  BY <1>1, RecordedType DEF NewRecord
<1>3. cOrd'[o] = NewOrder(s, side, q) /\ \A x \in Oid \ {o} : cOrd'[x] = cOrd[x]
  BY <1>1 DEF Take
<1> QED
  BY <1>1, <1>2, <1>3, NoneNoted DEF Moves, Take, PlacedNow

LEMMA FailedMoves ==
  ASSUME TypeOK, NEW s \in Sym, NEW side \in {"buy", "sell"}, NEW p, NEW q \in Nat,
         Failed(s, side, q), mem'.ord = mem.ord
  PROVE  \E N \in SUBSET FreeOid : Moves({}, N, s, side, p, q)
<1>1. CASE cOrd' = cOrd /\ young' = young
  BY <1>1, NothingMoves
<1>2. ASSUME "lost" \in Faults, NEW o \in FreeOid, Take(o, s, side, q)
      PROVE  Moves({}, {o}, s, side, p, q)
  <2>1. o \in Oid /\ cOrd \in [Oid -> CounterOrder]
    BY DEF FreeOid, TypeOK
  <2>2. cOrd'[o] = NewOrder(s, side, q) /\ \A x \in Oid \ {o} : cOrd'[x] = cOrd[x]
    BY <1>2, <2>1 DEF Take
  <2> QED
    BY <1>2, <2>1, <2>2, NoneNoted DEF Moves, Take, PlacedNow
<1> QED
  BY <1>1, <1>2 DEF Failed

LEMMA ExpireTurns ==
  ASSUME TypeOK, NEW s \in Sym, PreOpenExpire(s)
  PROVE  \E N \in SUBSET FreeOid : Turn({}, N, s, "sell", "EXPIRE", mem.pos[s].rem)
<1>1. PICK q \in Nat : q = mem.pos[s].rem
  BY DEF TypeOK, PilotState, Position
<1>2. "EXPIRE" \in Purpose /\ mem \in PilotState /\ day \in Nat
  BY DEF Purpose, SellSide, TypeOK
<1>3. /\ step = "expire" /\ s \in todo /\ todo' = todo \ {s} /\ step' = step /\ job' = job
      /\ UNCHANGED <<cPos, day, phase, disk, snap, vol, sub, tick>>
      /\ \/ \E o \in FreeOid : Take(o, s, "sell", q) /\ mem' = Recorded(mem, o, s, "EXPIRE", q)
         \/ Failed(s, "sell", q) /\ mem' = mem
  BY <1>1 DEF PreOpenExpire
<1>4. ASSUME NEW o \in FreeOid, Take(o, s, "sell", q), mem' = Recorded(mem, o, s, "EXPIRE", q)
      PROVE  Moves({}, {o}, s, "sell", "EXPIRE", q)
  BY <1>2, <1>4, TakeMoves
<1>5. mem'.pos = mem.pos /\ mem'.lpo = mem.lpo /\ mem'.scan = mem.scan
  <2>1. CASE mem' = mem
    BY <2>1
  <2>2. ASSUME NEW o \in FreeOid, mem' = Recorded(mem, o, s, "EXPIRE", q) PROVE <1>5!:
    BY <1>2, <2>2 DEF Recorded, PilotState
  <2> QED
    BY <1>3, <2>1, <2>2
<1>6. PICK N \in SUBSET FreeOid : Moves({}, N, s, "sell", "EXPIRE", q)
  BY <1>3, <1>4, FailedMoves
<1>7. Turn({}, N, s, "sell", "EXPIRE", q)
  BY <1>1, <1>2, <1>3, <1>5, <1>6 DEF Turn, MayPlace, GoesOn
<1> QED
  BY <1>1, <1>7

LEMMA BuyTurns ==
  ASSUME TypeOK, NEW s \in Sym, PreOpenBuy(s)
  PROVE  \E N \in SUBSET FreeOid : Turn({}, N, s, "buy", "OPEN", OrderQty)
<1>2. "OPEN" \in Purpose /\ mem \in PilotState /\ day \in Nat /\ OrderQty \in Nat
  BY LedgerAssumption DEF Purpose, BuyAmount, BuySide, TypeOK
<1>3. /\ step = "buy" /\ s \in todo /\ todo' = todo \ {s} /\ step' \in {"buy", "buy_save"}
      /\ job' = job /\ UNCHANGED <<cPos, day, phase, disk, snap, vol, sub, tick>>
      /\ \/ UNCHANGED <<cOrd, young, mem>>
         \/ /\ CheckCaps(mem, vol, OrderQty, day)
            /\ \/ \E o \in FreeOid : /\ Take(o, s, "buy", OrderQty)
                                     /\ mem' = Recorded(mem, o, s, "OPEN", OrderQty)
               \/ Failed(s, "buy", OrderQty) /\ mem' = mem
  BY DEF PreOpenBuy
<1>4. ASSUME NEW o \in FreeOid, Take(o, s, "buy", OrderQty),
             mem' = Recorded(mem, o, s, "OPEN", OrderQty)
      PROVE  Moves({}, {o}, s, "buy", "OPEN", OrderQty)
  BY <1>2, <1>4, TakeMoves
<1>5. mem'.pos = mem.pos /\ mem'.lpo = mem.lpo /\ mem'.scan = mem.scan
  <2>1. CASE mem' = mem
    BY <2>1
  <2>2. ASSUME NEW o \in FreeOid, mem' = Recorded(mem, o, s, "OPEN", OrderQty) PROVE <1>5!:
    BY <1>2, <2>2 DEF Recorded, PilotState
  <2> QED
    BY <1>3, <2>1, <2>2
<1>6. PICK N \in SUBSET FreeOid : /\ Moves({}, N, s, "buy", "OPEN", OrderQty)
                                  /\ N # {} => CheckCaps(mem, vol, OrderQty, day)
  <2>1. CASE UNCHANGED <<cOrd, young, mem>>
    <3>1. Moves({}, {}, s, "buy", "OPEN", OrderQty)
      BY <2>1, NothingMoves
    <3> QED
      BY <3>1
  <2>2. CASE Failed(s, "buy", OrderQty) /\ mem' = mem /\ CheckCaps(mem, vol, OrderQty, day)
    <3>1. \E N \in SUBSET FreeOid : Moves({}, N, s, "buy", "OPEN", OrderQty)
      BY <1>2, <2>2, FailedMoves
    <3> QED
      BY <2>2, <3>1
  <2>3. ASSUME NEW o \in FreeOid, Take(o, s, "buy", OrderQty),
               mem' = Recorded(mem, o, s, "OPEN", OrderQty), CheckCaps(mem, vol, OrderQty, day)
        PROVE  \E M \in SUBSET FreeOid : /\ Moves({}, M, s, "buy", "OPEN", OrderQty)
                                         /\ M # {} => CheckCaps(mem, vol, OrderQty, day)
    <3>1. {o} \in SUBSET FreeOid /\ Moves({}, {o}, s, "buy", "OPEN", OrderQty)
      BY <1>4, <2>3
    <3> QED
      BY <2>3, <3>1
  <2> QED
    BY <1>3, <2>1, <2>2, <2>3
<1>7. Turn({}, N, s, "buy", "OPEN", OrderQty)
  BY <1>2, <1>3, <1>5, <1>6 DEF Turn, MayPlace, GoesOn
<1> QED
  BY <1>7

LEMMA RepairTurns ==
  ASSUME TypeOK, NEW d \in Oid, PreOpenRepair(d)
  PROVE  \E N \in SUBSET FreeOid : Turn({}, N, mem.ord[d].sym, "buy", "OPEN", OrderQty)
<1>1. PICK s \in Sym : s = mem.ord[d].sym
  BY DEF TypeOK, PilotState, Order
<1>2. "OPEN" \in Purpose /\ mem \in PilotState /\ day \in Nat /\ OrderQty \in Nat
  BY LedgerAssumption DEF Purpose, BuyAmount, BuySide, TypeOK
<1>3. /\ step = "repair" /\ step' \in {"repair", "repair_save"}
      /\ job' = job /\ UNCHANGED <<cPos, day, phase, disk, snap, vol, sub, tick>>
      /\ \/ UNCHANGED <<cOrd, young, mem>>
         \/ /\ ~Held(mem, s) /\ ~HasOpenBuy(mem, s) /\ CheckCaps(mem, vol, OrderQty, day)
            /\ \/ \E o \in FreeOid : /\ Take(o, s, "buy", OrderQty)
                                     /\ mem' = Recorded(mem, o, s, "OPEN", OrderQty)
               \/ Failed(s, "buy", OrderQty) /\ mem' = mem
  BY <1>1 DEF PreOpenRepair
<1>4. ASSUME NEW o \in FreeOid, Take(o, s, "buy", OrderQty),
             mem' = Recorded(mem, o, s, "OPEN", OrderQty)
      PROVE  Moves({}, {o}, s, "buy", "OPEN", OrderQty)
  BY <1>2, <1>4, TakeMoves
<1>5. mem'.pos = mem.pos /\ mem'.lpo = mem.lpo /\ mem'.scan = mem.scan
  <2>1. CASE mem' = mem
    BY <2>1
  <2>2. ASSUME NEW o \in FreeOid, mem' = Recorded(mem, o, s, "OPEN", OrderQty) PROVE <1>5!:
    BY <1>2, <2>2 DEF Recorded, PilotState
  <2> QED
    BY <1>3, <2>1, <2>2
<1>6. PICK N \in SUBSET FreeOid :
         /\ Moves({}, N, s, "buy", "OPEN", OrderQty)
         /\ N # {} => ~Held(mem, s) /\ ~HasOpenBuy(mem, s) /\ CheckCaps(mem, vol, OrderQty, day)
  <2>1. CASE UNCHANGED <<cOrd, young, mem>>
    <3>1. Moves({}, {}, s, "buy", "OPEN", OrderQty)
      BY <2>1, NothingMoves
    <3> QED
      BY <3>1
  <2>2. CASE /\ Failed(s, "buy", OrderQty) /\ mem' = mem
             /\ ~Held(mem, s) /\ ~HasOpenBuy(mem, s) /\ CheckCaps(mem, vol, OrderQty, day)
    <3>1. \E N \in SUBSET FreeOid : Moves({}, N, s, "buy", "OPEN", OrderQty)
      BY <1>2, <2>2, FailedMoves
    <3> QED
      BY <2>2, <3>1
  <2>3. ASSUME NEW o \in FreeOid, Take(o, s, "buy", OrderQty),
               mem' = Recorded(mem, o, s, "OPEN", OrderQty),
               ~Held(mem, s), ~HasOpenBuy(mem, s), CheckCaps(mem, vol, OrderQty, day)
        PROVE  \E M \in SUBSET FreeOid :
                  /\ Moves({}, M, s, "buy", "OPEN", OrderQty)
                  /\ M # {} => /\ ~Held(mem, s) /\ ~HasOpenBuy(mem, s)
                               /\ CheckCaps(mem, vol, OrderQty, day)
    <3>1. {o} \in SUBSET FreeOid /\ Moves({}, {o}, s, "buy", "OPEN", OrderQty)
      BY <1>4, <2>3
    <3> QED
      BY <2>3, <3>1
  <2> QED
    BY <1>3, <2>1, <2>2, <2>3
<1>7. Turn({}, N, s, "buy", "OPEN", OrderQty)
  BY <1>2, <1>3, <1>5, <1>6 DEF Turn, MayPlace, GoesOn
<1> QED
  BY <1>1, <1>7

LEMMA CancelTurns ==
  ASSUME TypeOK, NEW x \in Oid, PreOpenCancel(x)
  PROVE  \E C \in SUBSET Oid, s \in Sym : Turn(C, {}, s, "buy", "OPEN", OrderQty)
<1>1. PICK C \in SUBSET {x} : cOrd' = CancelNoted(C) /\ mem' = Synced(mem, C)
  BY DEF PreOpenCancel, CancelCalls
<1>2. /\ step \in {"yesterday", "duplicates"} /\ step' = step /\ job' = job /\ sub' = sub
      /\ x \in oids /\ oids' \subseteq oids
      /\ UNCHANGED <<cPos, day, phase, disk, snap, vol, tick, young>>
  BY DEF PreOpenCancel, world
<1>3. mem \in PilotState /\ OrderQty \in Nat /\ "OPEN" \in Purpose
  BY LedgerAssumption DEF TypeOK, Purpose, BuyAmount, BuySide
<1>4. PICK s \in Sym : TRUE
  BY LedgerAssumption
<1>5. Moves(C, {}, s, "buy", "OPEN", OrderQty)
  BY <1>1, <1>2 DEF Moves
<1>6. mem'.pos = mem.pos /\ mem'.lpo = mem.lpo /\ mem'.scan = mem.scan
  BY <1>1, <1>3 DEF Synced, PilotState
<1>7. \A o \in C : MayCancel(o)
  BY <1>2 DEF MayCancel
<1>8. GoesOn
  BY <1>2, <1>6 DEF GoesOn
<1>9. Turn(C, {}, s, "buy", "OPEN", OrderQty)
  BY <1>3, <1>5, <1>7, <1>8 DEF Turn
<1> QED
  BY <1>9

\* What TickPending does with one outcome of the count of days.
PendingOn(o, today) ==
    LET v == DecidePending(tick.px, mem.ord[o], today)
    IN  \/ UNCHANGED <<cOrd, young, mem>>
        \/ /\ v # "keep" /\ young' = young
           /\ \E C \in CancelCalls({o}) : cOrd' = CancelNoted(C) /\ mem' = Synced(mem, C)
        \/ /\ v # "keep" /\ v = "chase"
           /\ \E C \in CancelCalls({o}) : \E n \in FreeOid :
                 /\ cOrd' = [CancelNoted(C) EXCEPT
                               ![n] = NewOrder(tick.sym, "buy", mem.ord[o].qty)]
                 /\ PlacedNow(n)
                 /\ \/ mem' = Recorded(Synced(mem, C), n, tick.sym, "CHASE", mem.ord[o].qty)
                    \/ "lost" \in Faults /\ mem' = Synced(mem, C)

LEMMA PendingDay ==
  ASSUME NEW o \in Oid, TickPending(o)
  PROVE  \E today \in Today(mem.ord[o].day - 1) : PendingOn(o, today)
BY DEF TickPending, PendingOn

LEMMA PendingTurns ==
  ASSUME TypeOK, NEW o \in Oid, TickPending(o)
  PROVE  \E C \in SUBSET Oid, N \in SUBSET FreeOid :
            Turn(C, N, tick.sym, "buy", "CHASE", mem.ord[o].qty)
<1>1. PICK s \in Sym : s = tick.sym
  BY DEF TypeOK
<1>2. PICK q \in Nat : q = mem.ord[o].qty
  BY DEF TypeOK, PilotState, Order
<1>3. /\ step = "pending" /\ step' \in {"pending", "pending_save"} /\ job' = job
      /\ o \in oids
      /\ UNCHANGED <<cPos, day, phase, disk, snap, vol, sub>> /\ tick'.sym = tick.sym
  BY DEF TickPending, TypeOK
<1>4. mem \in PilotState /\ "CHASE" \in Purpose /\ day \in Nat /\ cOrd \in Counters
  BY DEF TypeOK, Purpose, BuyAmount, BuySide, Counters
<1>d. PICK today \in Today(mem.ord[o].day - 1) : PendingOn(o, today)
  BY PendingDay
<1> DEFINE v == DecidePending(tick.px, mem.ord[o], today)
<1>5. \/ UNCHANGED <<cOrd, young, mem>>
      \/ /\ v # "keep"
         /\ \E C \in SUBSET {o} : cOrd' = CancelNoted(C) /\ mem' = Synced(mem, C) /\ young' = young
      \/ /\ v # "keep" /\ v = "chase"
         /\ \E C \in SUBSET {o} : \E n \in FreeOid :
              /\ cOrd' = [CancelNoted(C) EXCEPT ![n] = NewOrder(s, "buy", q)] /\ PlacedNow(n)
              /\ \/ mem' = Recorded(Synced(mem, C), n, s, "CHASE", q)
                 \/ "lost" \in Faults /\ mem' = Synced(mem, C)
  BY <1>1, <1>2, <1>d DEF PendingOn, CancelCalls
<1>6. v = "chase" => ChaseEntry
  BY DEF DecidePending
<1> HIDE DEF v
<1>7. \A C \in SUBSET {o} : /\ Synced(mem, C) \in PilotState /\ Synced(mem, C).pos = mem.pos
                            /\ Synced(mem, C).lpo = mem.lpo /\ Synced(mem, C).scan = mem.scan
                            /\ CancelNoted(C) \in Counters
  BY <1>4, SyncedType, CancelNotedType DEF Synced, PilotState
<1>t. ASSUME NEW C \in SUBSET {o}, NEW N \in SUBSET FreeOid, Moves(C, N, s, "buy", "CHASE", q),
             C # {} \/ N # {} => v # "keep", N # {} => ChaseEntry,
             mem'.pos = mem.pos, mem'.lpo = mem.lpo, mem'.scan = mem.scan
      PROVE  \E D \in SUBSET Oid, M \in SUBSET FreeOid : Turn(D, M, s, "buy", "CHASE", q)
  <2>1. \A x \in C : MayCancel(x)
    BY <1>3, <1>t DEF MayCancel, v
  <2>2. \A n \in N : MayPlace(s, "buy", "CHASE", q)
    BY <1>1, <1>3, <1>t DEF MayPlace
  <2>3. GoesOn
    BY <1>3, <1>t DEF GoesOn
  <2>4. Turn(C, N, s, "buy", "CHASE", q)
    BY <1>4, <1>t, <2>1, <2>2, <2>3 DEF Turn
  <2> QED
    BY <2>4
<1>8. CASE UNCHANGED <<cOrd, young, mem>>
  <2>1. Moves({}, {}, s, "buy", "CHASE", q)
    BY <1>8, NothingMoves
  <2> QED
    BY <1>1, <1>2, <1>8, <1>t, <2>1
<1>9. ASSUME v # "keep", NEW C \in SUBSET {o}, cOrd' = CancelNoted(C), mem' = Synced(mem, C),
             young' = young
      PROVE  \E D \in SUBSET Oid, M \in SUBSET FreeOid : Turn(D, M, s, "buy", "CHASE", q)
  <2>1. Moves(C, {}, s, "buy", "CHASE", q)
    BY <1>9 DEF Moves
  <2> QED
    BY <1>7, <1>9, <1>t, <2>1
<1>10. ASSUME v # "keep", ChaseEntry, NEW C \in SUBSET {o}, NEW n \in FreeOid,
              cOrd' = [CancelNoted(C) EXCEPT ![n] = NewOrder(s, "buy", q)], PlacedNow(n),
              \/ mem' = Recorded(Synced(mem, C), n, s, "CHASE", q)
              \/ "lost" \in Faults /\ mem' = Synced(mem, C)
       PROVE  \E D \in SUBSET Oid, M \in SUBSET FreeOid : Turn(D, M, s, "buy", "CHASE", q)
  <2>1. n \in Oid
    BY DEF FreeOid
  <2>2. PICK y \in PilotState : y = Synced(mem, C)
    BY <1>7
  <2>3. y.pos = mem.pos /\ y.lpo = mem.lpo /\ y.scan = mem.scan
    BY <1>7, <2>2
  <2>4. cOrd'[n] = NewOrder(s, "buy", q) /\ \A x \in Oid \ {n} : cOrd'[x] = CancelNoted(C)[x]
    BY <1>7, <1>10, <2>1 DEF Counters
  <2>5. CASE mem' = Recorded(y, n, s, "CHASE", q)
    <3>1. /\ mem'.pos = y.pos /\ mem'.ord[n] = NewRecord(s, "CHASE", q)
          /\ \A x \in Oid \ {n} : mem'.ord[x] = y.ord[x]
      BY <1>4, <2>1, <2>5, RecordedType DEF NewRecord
    <3>2. mem'.lpo = y.lpo /\ mem'.scan = y.scan
      BY <2>5 DEF Recorded, PilotState
    <3>3. Moves(C, {n}, s, "buy", "CHASE", q)
      BY <1>10, <2>2, <2>4, <3>1 DEF Moves, PlacedNow
    <3> QED
      BY <1>10, <1>t, <2>3, <3>1, <3>2, <3>3
  <2>6. CASE "lost" \in Faults /\ mem' = y
    <3>1. Moves(C, {n}, s, "buy", "CHASE", q)
      BY <1>10, <2>2, <2>4, <2>6 DEF Moves, PlacedNow
    <3> QED
      BY <1>10, <1>t, <2>3, <2>6, <3>1
  <2> QED
    BY <1>10, <2>2, <2>5, <2>6
<1> QED
  BY <1>1, <1>2, <1>5, <1>6, <1>8, <1>9, <1>10

LEMMA RecordedKeeps ==
  ASSUME TypeOK, NEW o \in Oid, NEW s \in Sym, NEW p \in Purpose, NEW q \in Nat
  PROVE  LET m == Recorded(mem, o, s, p, q)
         IN  m \in PilotState /\ m.pos = mem.pos /\ m.lpo = mem.lpo /\ m.scan = mem.scan
<1>1. mem \in PilotState /\ NewRecord(s, p, q) \in Order
  BY DEF TypeOK, NewRecord, Order, Purpose
<1>2. Recorded(mem, o, s, p, q) = [mem EXCEPT !.ord[o] = NewRecord(s, p, q)]
  BY DEF Recorded, NewRecord
<1> QED
  BY <1>1, <1>2 DEF PilotState

LEMMA ExitTurns ==
  ASSUME TypeOK, TickExit
  PROVE  \E N \in SUBSET FreeOid, p \in SellSide, q \in Nat : Turn({}, N, tick.sym, "sell", p, q)
<1>1. PICK s \in Sym : s = tick.sym
  BY DEF TypeOK
<1>2. PICK h \in Position : h = mem.pos[s]
  BY DEF TypeOK, PilotState
<1>d. PICK today \in Nat : ExitOn(today)
  BY ExitDay
<1>3. PICK v : v = DecidePosition(tick.px, h, today)
  OBVIOUS
<1>4. mem \in PilotState /\ day \in Nat /\ tick.px \in Nat
  BY DEF TypeOK
<1>5. v.qty \in Nat /\ (v.qty > 0 => v.reason \in SellSide)
  BY <1>3, <1>4, VerdictType
<1>6. PICK q \in Nat, r \in SellSide : q = v.qty /\ (q > 0 => r = v.reason)
  BY <1>5 DEF SellSide
<1>7. /\ step = "pending" /\ UNCHANGED <<cPos, day, phase, disk, snap, vol, sub>>
      /\ \/ job' = job /\ step' = "exit_save" /\ tick' = tick
         \/ job' = "idle" /\ step' = "none"
      /\ \/ /\ cOrd' = cOrd /\ young' = young
            /\ mem' \in {mem, [mem EXCEPT !.pos[s].tp2_done = TRUE]}
         \/ /\ ~HasOpenSell(mem, s) /\ q > 0
            /\ \/ Failed(s, "sell", q) /\ mem' = mem
               \/ \E o \in FreeOid :
                     /\ Take(o, s, "sell", q)
                     /\ mem' = [Recorded(mem, o, s, r, q) EXCEPT !.pos[s] = AfterSell(h, r)]
  <2>1. step = "pending" /\ UNCHANGED <<cPos, day, phase, disk, snap, vol, sub>>
    BY DEF TickExit
  <2>2. \/ job' = job /\ step' = "exit_save" /\ tick' = tick
        \/ job' = "idle" /\ step' = "none"
    BY <1>d DEF ExitOn
  <2> QED
    BY <1>1, <1>2, <1>3, <1>6, <1>d, <2>1, <2>2 DEF ExitOn
<1>8. "sell" \in {"buy", "sell"} /\ r \in Purpose
  BY DEF Purpose
<1>t. ASSUME NEW N \in SUBSET FreeOid, Moves({}, N, s, "sell", r, q),
             N # {} => ~HasOpenSell(mem, s) /\ q > 0,
             \A x \in Sym : mem'.pos[x].rem = mem.pos[x].rem,
             mem'.lpo = mem.lpo, mem'.scan = mem.scan
      PROVE  Turn({}, N, s, "sell", r, q)
  <2>1. \A n \in N : MayPlace(s, "sell", r, q)
    BY <1>1, <1>7, <1>t DEF MayPlace
  <2>2. GoesOn
    BY <1>7, <1>t DEF GoesOn
  <2> QED
    BY <1>8, <1>t, <2>1, <2>2 DEF Turn
<1>9. CASE cOrd' = cOrd /\ young' = young /\ mem' \in {mem, [mem EXCEPT !.pos[s].tp2_done = TRUE]}
  <2>1. /\ mem'.ord = mem.ord /\ mem'.lpo = mem.lpo /\ mem'.scan = mem.scan
        /\ \A x \in Sym : mem'.pos[x].rem = mem.pos[x].rem
    BY <1>4, <1>9, SMTT(30) DEF PilotState, Position
  <2>2. Moves({}, {}, s, "sell", r, q)
    BY <1>9, <2>1, NothingMoves
  <2>3. Turn({}, {}, s, "sell", r, q)
    BY <1>t, <2>1, <2>2
  <2> QED
    BY <1>1, <2>3
<1>10. CASE ~HasOpenSell(mem, s) /\ q > 0 /\ Failed(s, "sell", q) /\ mem' = mem
  <2>1. PICK N \in SUBSET FreeOid : Moves({}, N, s, "sell", r, q)
    BY <1>8, <1>10, FailedMoves
  <2>2. Turn({}, N, s, "sell", r, q)
    BY <1>t, <1>10, <2>1
  <2> QED
    BY <1>1, <2>2
<1>11. ASSUME ~HasOpenSell(mem, s), q > 0, NEW o \in FreeOid, Take(o, s, "sell", q),
              mem' = [Recorded(mem, o, s, r, q) EXCEPT !.pos[s] = AfterSell(h, r)]
       PROVE  \E N \in SUBSET FreeOid : Turn({}, N, s, "sell", r, q)
  <2>1. PICK m : m = Recorded(mem, o, s, r, q)
    OBVIOUS
  <2>2. /\ m \in PilotState /\ m.pos = mem.pos /\ m.lpo = mem.lpo /\ m.scan = mem.scan
    <3>1. o \in Oid
      BY DEF FreeOid
    <3> QED
      BY <1>8, <2>1, <3>1, RecordedKeeps
  <2>3. /\ mem'.ord = m.ord /\ mem'.pos = [mem.pos EXCEPT ![s] = AfterSell(h, r)]
        /\ mem'.lpo = mem.lpo /\ mem'.scan = mem.scan
    BY <1>11, <2>1, <2>2 DEF PilotState
  <2>4. \A x \in Sym : mem'.pos[x].rem = mem.pos[x].rem
    BY <1>2, <1>4, <2>3, AfterSellType DEF PilotState
  <2>5. Moves({}, {o}, s, "sell", r, q)
    BY <1>8, <1>11, <2>1, <2>3, TakeMoves
  <2>6. Turn({}, {o}, s, "sell", r, q)
    BY <1>t, <1>11, <2>3, <2>4, <2>5
  <2> QED
    BY <2>6
<1> QED
  BY <1>1, <1>7, <1>9, <1>10, <1>11

\* Every step of a callback that cancels or places orders is such a turn.
LEMMA Turns ==
  ASSUME TypeOK, TurnStep
  PROVE  \E C \in SUBSET Oid, N \in SUBSET FreeOid, s \in Sym, side \in {"buy", "sell"},
            p \in Purpose, q \in Nat : Turn(C, N, s, side, p, q)
<1>1. ASSUME NEW C, NEW N \in SUBSET FreeOid, NEW s, NEW side, NEW p, NEW q,
             Turn(C, N, s, side, p, q)
      PROVE  \E D \in SUBSET Oid, M \in SUBSET FreeOid, x \in Sym, y \in {"buy", "sell"},
                z \in Purpose, n \in Nat : Turn(D, M, x, y, z, n)
  BY <1>1 DEF Turn
<1>2. CASE \E o \in Oid : PreOpenCancel(o)
  BY <1>1, <1>2, CancelTurns
<1>3. CASE TickExit
  BY <1>1, <1>3, ExitTurns
<1>4. CASE \E s \in Sym : PreOpenExpire(s)
  BY <1>1, <1>4, ExpireTurns
<1>5. CASE \E s \in Sym : PreOpenBuy(s)
  BY <1>1, <1>5, BuyTurns
<1>6. CASE \E o \in Oid : PreOpenRepair(o)
  BY <1>1, <1>6, RepairTurns
<1>7. CASE \E o \in Oid : TickPending(o)
  BY <1>1, <1>7, PendingTurns
<1> QED
  BY <1>2, <1>3, <1>4, <1>5, <1>6, <1>7 DEF TurnStep

\* A turn, field by field: what becomes of a record it does not write, the orders it
\* places, those it leaves, and those it cancels.
Kept(C, o) ==
    /\ mem'.ord[o].sym = mem.ord[o].sym /\ mem'.ord[o].purpose = mem.ord[o].purpose
    /\ mem'.ord[o].qty = mem.ord[o].qty /\ mem'.ord[o].filled = mem.ord[o].filled
    /\ mem'.ord[o].day = mem.ord[o].day
    /\ mem'.ord[o].st = IF o \in C /\ Live(mem, o) THEN "CANCELLED" ELSE mem.ord[o].st

Placing(C, N, s, side, p, q) ==
    /\ \A n, k \in N : n = k
    /\ \A n \in N : /\ n \in Oid /\ cOrd[n].st = "none"
                    /\ \A o \in Oid : o < n => cOrd[o].st # "none"
                    /\ cOrd'[n].sym = s /\ cOrd'[n].side = side /\ cOrd'[n].qty = q
                    /\ cOrd'[n].filled = 0 /\ cOrd'[n].st = "live" /\ ~cOrd'[n].creq
                    /\ cOrd'[n].day = day /\ cOrd'[n].vis = ("lag" \notin Faults)
                    /\ \/ mem'.ord[n] = NewRecord(s, p, q)
                       \/ "lost" \in Faults /\ Kept(C, n)
    /\ young' = IF "lag" \in Faults THEN young \cup N ELSE young

Leaving(C, N) ==
    \A o \in Oid \ N :
        /\ cOrd'[o].sym = cOrd[o].sym /\ cOrd'[o].side = cOrd[o].side
        /\ cOrd'[o].qty = cOrd[o].qty /\ cOrd'[o].filled = cOrd[o].filled
        /\ cOrd'[o].st = cOrd[o].st /\ cOrd'[o].vis = cOrd[o].vis
        /\ cOrd'[o].day = cOrd[o].day
        /\ cOrd'[o].creq = (cOrd[o].creq \/ (o \in C /\ CLive(o)))
        /\ Kept(C, o)

LEMMA SyncedKeeps ==
  ASSUME mem \in PilotState, NEW C, NEW o \in Oid, mem'.ord[o] = Synced(mem, C).ord[o]
  PROVE  Kept(C, o)
<1>1. mem.ord[o] \in Order
  BY DEF PilotState
<1>2. mem'.ord[o] = IF o \in C /\ Live(mem, o) THEN [mem.ord[o] EXCEPT !.st = "CANCELLED"]
                    ELSE mem.ord[o]
  BY SyncedType
<1> QED
  BY <1>1, <1>2 DEF Kept, Order

LEMMA MovesFacts ==
  ASSUME TypeOK, NEW C \in SUBSET Oid, NEW N \in SUBSET FreeOid, NEW s \in Sym, NEW side,
         NEW p, NEW q, Moves(C, N, s, side, p, q)
  PROVE  Placing(C, N, s, side, p, q) /\ Leaving(C, N)
<1>1. mem \in PilotState /\ cOrd \in Counters
  BY DEF TypeOK, Counters
<1>2. ASSUME NEW n \in N
      PROVE  /\ n \in Oid /\ cOrd[n].st = "none" /\ \A o \in Oid : o < n => cOrd[o].st # "none"
             /\ cOrd'[n].sym = s /\ cOrd'[n].side = side /\ cOrd'[n].qty = q
             /\ cOrd'[n].filled = 0 /\ cOrd'[n].st = "live" /\ ~cOrd'[n].creq
             /\ cOrd'[n].day = day /\ cOrd'[n].vis = ("lag" \notin Faults)
  <2>1. n \in Oid /\ cOrd[n].st = "none" /\ \A o \in Oid : o < n => cOrd[o].st # "none"
    BY DEF FreeOid
  <2>2. cOrd'[n] = NewOrder(s, side, q)
    BY DEF Moves
  <2>3. PICK v \in BOOLEAN : v = ("lag" \notin Faults)
    OBVIOUS
  <2>4. cOrd'[n] = [sym |-> s, side |-> side, qty |-> q, filled |-> 0, st |-> "live",
                    vis |-> v, creq |-> FALSE, day |-> day]
    BY <2>2, <2>3, Zenon DEF NewOrder
  <2>5. cOrd'[n].vis = v
    BY <2>4
  <2> QED
    BY <2>1, <2>3, <2>4, <2>5
<1>3. ASSUME NEW n \in N
      PROVE  mem'.ord[n] = NewRecord(s, p, q) \/ ("lost" \in Faults /\ Kept(C, n))
  BY <1>1, <1>2, SyncedKeeps DEF Moves
<1>4. ASSUME NEW o \in Oid \ N
      PROVE  /\ cOrd'[o].sym = cOrd[o].sym /\ cOrd'[o].side = cOrd[o].side
             /\ cOrd'[o].qty = cOrd[o].qty /\ cOrd'[o].filled = cOrd[o].filled
             /\ cOrd'[o].st = cOrd[o].st /\ cOrd'[o].vis = cOrd[o].vis
             /\ cOrd'[o].day = cOrd[o].day
             /\ cOrd'[o].creq = (cOrd[o].creq \/ (o \in C /\ CLive(o)))
             /\ Kept(C, o)
  <2>1. cOrd'[o] = CancelNoted(C)[o] /\ mem'.ord[o] = Synced(mem, C).ord[o]
    BY DEF Moves
  <2>2. cOrd[o] \in CounterOrder
    BY <1>1 DEF Counters
  <2>3. cOrd'[o] = IF o \in C /\ CLive(o) THEN [cOrd[o] EXCEPT !.creq = TRUE] ELSE cOrd[o]
    BY <2>1 DEF CancelNoted
  <2>4. Kept(C, o)
    BY <1>1, <2>1, SyncedKeeps
  <2> QED
    BY <2>2, <2>3, <2>4 DEF CounterOrder
<1>5. Leaving(C, N)
  BY <1>4 DEF Leaving
<1>6. /\ \A n, k \in N : n = k
      /\ young' = IF "lag" \in Faults THEN young \cup N ELSE young
  BY DEF Moves
<1> QED
  BY <1>2, <1>3, <1>5, <1>6 DEF Placing

-----------------------------------------------------------------------------
(***************************************************************************)
(* Where the pilot is: its callback and the step of it.                    *)
(***************************************************************************)
Where ==
    /\ job \in {"down", "idle"} => step = "none"
    /\ job = "boot" => step \in {"orders", "positions", "subscribe"}
    /\ job = "pre_open" => step \in {"orders", "positions", "cancel", "yesterday",
                                     "duplicates", "expire", "buy", "buy_save", "repair",
                                     "repair_save"}
    /\ job = "on_tick" => step \in {"orders", "positions", "pending", "pending_save",
                                    "exit_save"}

LEMMA WhereStep == TypeOK /\ Where /\ [Next]_vars => Where'
<1> SUFFICES ASSUME TypeOK, Where, [Next]_vars PROVE Where'
  OBVIOUS
<1>0. job \in Job
  BY DEF TypeOK
<1>1. CASE CounterStep \/ (\E o \in Oid : GraceEnds(o)) \/ Clock \/ NewDay \/ Flag \/ UNCHANGED vars
  <2>1. UNCHANGED <<job, step>>
    BY <1>1 DEF CounterStep, CounterFill, CounterClose, CounterReveal, GraceEnds, Clock, NewDay,
                Flag, vars, pilot, ctl
  <2> QED
    BY <2>1 DEF Where
<1>2. CASE Crash \/ Start \/ BootSubscribe \/ Repair \/ PreOpenJob \/ AfterClose
  BY <1>2 DEF Crash, Start, BootSubscribe, Repair, PreOpenJob, AfterClose, Idle, ctl, Where
<1>3. CASE GetOrders \/ GetPositions \/ QueryFails
  <2>1. /\ step \in {"orders", "positions"} /\ job' = job
        /\ step' \in {"positions", AfterReconcile}
    BY <1>3 DEF GetOrders, GetPositions, QueryFails
  <2> QED
    BY <1>0, <2>1 DEF Where, AfterReconcile, Job
<1>4. CASE SaveOrder
  <2>1. /\ step \in {"buy_save", "repair_save", "pending_save"} /\ job' = job
        /\ step' = CASE step = "buy_save" -> "buy"
                     [] step = "repair_save" -> "repair"
                     [] OTHER -> "pending"
    BY <1>4 DEF SaveOrder
  <2> QED
    BY <1>0, <2>1 DEF Where, Job
<1>5. CASE PreOpenScan \/ PreOpenRepairs \/ PreOpenEnd \/ TickSave
           \/ \E s \in Sym, px \in Prices : TickStart(s, px)
  BY <1>0, <1>5 DEF PreOpenScan, PreOpenRepairs, PreOpenEnd, TickSave, TickStart, Idle, Where, Job
<1>7. CASE PreOpenQuery \/ PreOpenDuplicates \/ PreOpenOverdue
  BY <1>0, <1>7 DEF PreOpenQuery, PreOpenDuplicates, PreOpenOverdue, Where, Job
<1>6. CASE TurnStep
  <2>1. PICK C, N, s, side, p, q : Turn(C, N, s, side, p, q)
    BY <1>6, Turns
  <2>2. GoesOn
    BY <2>1 DEF Turn
  <2> QED
    BY <1>0, <2>2 DEF GoesOn, Where, Job
<1> QED
  BY <1>1, <1>2, <1>3, <1>4, <1>5, <1>6, <1>7
     DEF Next, CounterStep, WorldStep, PilotStep, PreOpen, OnTick, TurnStep

LEMMA WhereInit == Init => Where
BY DEF Init, Where

\* What is left when counter, world and turns are set aside.
Still ==
    \/ Crash \/ Start \/ BootSubscribe \/ GetOrders \/ GetPositions \/ QueryFails
    \/ SaveOrder \/ PreOpenJob \/ PreOpenQuery \/ PreOpenDuplicates \/ PreOpenOverdue
    \/ PreOpenScan \/ PreOpenRepairs \/ PreOpenEnd \/ Repair
    \/ (\E s \in Sym, px \in Prices : TickStart(s, px)) \/ TickSave \/ AfterClose

LEMMA Steps ==
  ASSUME [Next]_vars
  PROVE  \/ CounterStep \/ (\E o \in Oid : GraceEnds(o)) \/ Clock \/ NewDay \/ Flag
         \/ Still \/ TurnStep \/ UNCHANGED vars
BY DEF Next, WorldStep, PilotStep, PreOpen, OnTick, TurnStep, Still

\* The close of a day, order by order.
LEMMA DayCloses ==
  ASSUME TypeOK, NewDay, NEW o \in Oid
  PROVE  /\ cOrd'[o].sym = cOrd[o].sym /\ cOrd'[o].side = cOrd[o].side
         /\ cOrd'[o].qty = cOrd[o].qty /\ cOrd'[o].filled = cOrd[o].filled
         /\ cOrd'[o].creq = cOrd[o].creq /\ cOrd'[o].day = cOrd[o].day
         /\ \/ cOrd'[o].st = cOrd[o].st /\ cOrd'[o].vis = cOrd[o].vis
               /\ (CLive(o) => "overnight" \in Faults)
            \/ /\ ~cOrd'[o].vis /\ cOrd[o].st # "none"
               /\ cOrd'[o].st = IF CLive(o) THEN "dead" ELSE cOrd[o].st
<1>1. PICK kept \in SUBSET {x \in Oid : CLive(x)} :
         /\ kept # {} => "overnight" \in Faults
         /\ cOrd' = [x \in Oid |->
                IF x \in kept \/ cOrd[x].st = "none" THEN cOrd[x]
                ELSE [cOrd[x] EXCEPT !.vis = FALSE,
                                     !.st = IF @ = "live" THEN "dead" ELSE @]]
  BY DEF NewDay
<1>2. cOrd[o] \in CounterOrder
  BY DEF TypeOK
<1>3. CASE o \in kept \/ cOrd[o].st = "none"
  BY <1>1, <1>3 DEF CLive
<1>4. CASE ~(o \in kept \/ cOrd[o].st = "none")
  BY <1>1, <1>2, <1>4 DEF CounterOrder, CLive
<1> QED
  BY <1>3, <1>4

\* What such a step does to the mark, the scanned days and the records.
LEMMA StillKeeps ==
  ASSUME TypeOK, Still
  PROVE  /\ cOrd' = cOrd /\ cPos' = cPos /\ day' = day /\ phase' = phase
         /\ \/ mem' = disk /\ job' \in {"down", "boot"}
            \/ GetPositions
            \/ mem'.ord = mem.ord /\ \A s \in Sym : mem'.pos[s].rem = mem.pos[s].rem
         /\ \/ mem' = disk /\ job' \in {"down", "boot"}
            \/ mem'.lpo = mem.lpo /\ mem'.scan = mem.scan
            \/ mem'.lpo = mem.lpo /\ PreOpenScan /\ mem'.scan = mem.scan \cup {day}
            \/ PreOpenJob /\ mem'.lpo = day /\ mem'.scan = mem.scan
         /\ disk' \in {disk, mem, mem'}
<1>0. mem \in PilotState
  BY DEF TypeOK
<1>1. CASE Crash \/ Start
  BY <1>1 DEF Crash, Start, counter, world
<1>2. CASE BootSubscribe \/ GetOrders \/ QueryFails \/ SaveOrder \/ PreOpenRepairs \/ PreOpenEnd
           \/ Repair \/ TickSave \/ \E s \in Sym, px \in Prices : TickStart(s, px)
  BY <1>2 DEF BootSubscribe, GetOrders, QueryFails, SaveOrder, PreOpenRepairs, PreOpenEnd,
              Repair, TickSave, TickStart, counter, world
<1>7. CASE PreOpenQuery \/ PreOpenDuplicates \/ PreOpenOverdue
  BY <1>7 DEF PreOpenQuery, PreOpenDuplicates, PreOpenOverdue, counter, world
<1>3. CASE GetPositions
  <2>1. mem'.lpo = mem.lpo /\ mem'.scan = mem.scan
    BY <1>0, <1>3 DEF GetPositions, Absorb, PilotState
  <2> QED
    BY <1>3, <2>1 DEF GetPositions, counter, world
<1>4. CASE PreOpenJob
  BY <1>0, <1>4 DEF PreOpenJob, PilotState, counter, world
<1>5. CASE PreOpenScan
  <2>1. /\ mem'.ord = mem.ord /\ mem'.pos = mem.pos /\ mem'.lpo = mem.lpo
        /\ mem'.scan = mem.scan \/ mem'.scan = mem.scan \cup {day}
    BY <1>0, <1>5 DEF PreOpenScan, PilotState
  <2> QED
    BY <1>5, <2>1 DEF PreOpenScan, counter, world
<1>6. CASE AfterClose
  <2>1. /\ mem'.ord = mem.ord /\ mem'.pos = [s \in Sym |-> Swept(mem.pos[s])]
        /\ mem'.lpo = mem.lpo /\ mem'.scan = mem.scan
    BY <1>0, <1>6 DEF AfterClose, PilotState
  <2>2. \A s \in Sym : mem'.pos[s].rem = mem.pos[s].rem
    BY <1>0, <2>1, SweptType DEF PilotState
  <2> QED
    BY <1>6, <2>1, <2>2 DEF AfterClose, counter, world
<1> QED
  BY <1>1, <1>2, <1>3, <1>4, <1>5, <1>6, <1>7 DEF Still

(***************************************************************************)
(* The day's mark.                                                         *)
(***************************************************************************)
\* Where pre_open has not come to its scan yet.
BeforeScan == {"orders", "positions", "cancel", "yesterday", "duplicates", "expire"}

\* Without crashes and with a calendar a marked day is scanned, or its pre_open is on
\* the way to the scan.
MarkInv ==
    /\ Where
    /\ mem.lpo <= day /\ (phase = "pre" => mem.lpo < day)
    /\ job = "down" => disk.lpo = 0
    /\ mem.lpo = day => \/ day \in mem.scan
                        \/ job = "pre_open" /\ step \in BeforeScan

LEMMA MarkInit == Init => MarkInv
<1> SUFFICES ASSUME Init PROVE MarkInv
  OBVIOUS
<1>1. mem.lpo = 0 /\ disk.lpo = 0 /\ day = 1
  BY DEF Init, InitialState
<1> QED
  BY <1>1, WhereInit DEF MarkInv

LEMMA MarkStep ==
  ASSUME "crash" \notin Faults, "calendar" \notin Faults
  PROVE  TypeOK /\ MarkInv /\ [Next]_vars => MarkInv'
<1> SUFFICES ASSUME TypeOK, MarkInv, [Next]_vars PROVE MarkInv'
  OBVIOUS
<1> USE DEF BeforeScan
<1>0. Where'
  BY WhereStep DEF MarkInv
<1>1. day \in Nat \ {0} /\ mem.lpo \in Nat /\ disk.lpo \in Nat
  BY DEF TypeOK, PilotState
<1>2. CASE CounterStep \/ (\E o \in Oid : GraceEnds(o)) \/ Flag \/ UNCHANGED vars
  <2>1. UNCHANGED <<mem, disk, day, phase, job, step>>
    BY <1>2 DEF CounterStep, CounterFill, CounterClose, CounterReveal, GraceEnds, Flag, vars,
                pilot, ctl, world
  <2> QED
    BY <1>0, <2>1 DEF MarkInv
<1>3. CASE Clock
  <2>1. UNCHANGED <<mem, disk, day, job, step>> /\ phase' # "pre"
    BY <1>3 DEF Clock, pilot, ctl
  <2> QED
    BY <1>0, <2>1 DEF MarkInv
<1>4. CASE NewDay
  <2>1. UNCHANGED <<mem, disk, job, step>> /\ day' = day + 1
    BY <1>4 DEF NewDay, pilot, ctl
  <2> QED
    BY <1>0, <1>1, <2>1 DEF MarkInv
<1>5. CASE TurnStep
  <2>1. PICK C, N, s, side, p, q : Turn(C, N, s, side, p, q)
    BY <1>5, Turns
  <2>2. GoesOn
    BY <2>1 DEF Turn
  <2>3. step \in BeforeScan => step' = step /\ job' = job
    BY <2>2 DEF GoesOn
  <2>4. disk' = disk /\ day' = day /\ phase' = phase /\ mem'.lpo = mem.lpo /\ mem'.scan = mem.scan
    BY <2>2 DEF GoesOn
  <2>5. job # "down" /\ job' # "down"
    BY <2>2 DEF GoesOn, MarkInv, Where
  <2>6. job = "pre_open" /\ step \in BeforeScan => job' = "pre_open" /\ step' \in BeforeScan
    BY <2>3
  <2> QED
    BY <1>0, <2>4, <2>5, <2>6 DEF MarkInv
<1>6. CASE Still
  <2>1. /\ day' = day /\ phase' = phase
        /\ \/ mem' = disk /\ job' \in {"down", "boot"}
           \/ mem'.lpo = mem.lpo /\ mem'.scan = mem.scan
           \/ mem'.lpo = mem.lpo /\ PreOpenScan /\ mem'.scan = mem.scan \cup {day}
           \/ PreOpenJob /\ mem'.lpo = day /\ mem'.scan = mem.scan
    BY <1>6, StillKeeps
  <2>2. ~Crash
    BY DEF Crash
  <2>3. CASE Start
    BY <1>0, <1>1, <2>1, <2>3 DEF Start, MarkInv
  <2>4. CASE PreOpenJob
    BY <1>0, <1>1, <2>1, <2>4 DEF PreOpenJob, MarkInv
  <2>5. CASE PreOpenScan
    <3>0. job' = job /\ step = "expire"
      BY <2>5 DEF PreOpenScan
    <3>1. mem'.lpo = mem.lpo /\ day \in mem'.scan
      <4>1. CASE day \in mem.scan /\ mem' = mem
        BY <4>1
      <4>2. ASSUME NEW g, mem' = [mem EXCEPT !.scan = @ \cup {day}, !.sig = g] PROVE <3>1!:
        <5>1. mem \in PilotState
          BY DEF TypeOK
        <5> QED
          BY <4>2, <5>1 DEF PilotState
      <4> QED
        BY <2>5, <4>1, <4>2 DEF PreOpenScan
    <3>2. job # "down"
      BY <3>0 DEF MarkInv, Where
    <3> QED
      BY <1>0, <2>1, <3>0, <3>1, <3>2 DEF MarkInv
  <2>6. CASE ~Start /\ ~PreOpenJob /\ ~PreOpenScan
    <3>1. /\ job # "down" /\ job' # "down" /\ mem'.lpo = mem.lpo /\ mem'.scan = mem.scan
          /\ job = "pre_open" /\ step \in BeforeScan =>
                job' = "pre_open" /\ step' \in BeforeScan
      <4>1. CASE GetOrders \/ GetPositions \/ QueryFails
        <5>1. job' = job /\ step \in {"orders", "positions"} /\ mem'.lpo = mem.lpo
              /\ mem'.scan = mem.scan /\ step' \in {"positions", AfterReconcile}
          BY <4>1 DEF GetOrders, GetPositions, QueryFails, Absorb, TypeOK, PilotState
        <5> QED
          BY <5>1 DEF MarkInv, Where, AfterReconcile
      <4>2. CASE BootSubscribe \/ Repair \/ AfterClose \/ SaveOrder \/ PreOpenRepairs
                 \/ PreOpenEnd \/ TickSave \/ \E s \in Sym, px \in Prices : TickStart(s, px)
        <5>1. job # "down" /\ job' # "down"
          BY <4>2 DEF BootSubscribe, Repair, AfterClose, SaveOrder, PreOpenRepairs, PreOpenEnd,
                      TickSave, TickStart, Idle, ctl, MarkInv, Where
        <5>2. ~ (job = "pre_open" /\ step \in BeforeScan)
          BY <4>2 DEF BootSubscribe, Repair, AfterClose, SaveOrder, PreOpenRepairs, PreOpenEnd,
                      TickSave, TickStart, MarkInv, Where
        <5>3. mem'.lpo = mem.lpo /\ mem'.scan = mem.scan
          <6>1. ~ (job' \in {"down", "boot"})
            BY <4>2, <5>1 DEF BootSubscribe, Repair, AfterClose, SaveOrder, PreOpenRepairs,
                PreOpenEnd, TickSave, TickStart, Idle, ctl, MarkInv, Where
          <6> QED
            BY <2>1, <2>6, <6>1
        <5> QED
          BY <5>1, <5>2, <5>3
      <4>3. CASE PreOpenQuery \/ PreOpenDuplicates \/ PreOpenOverdue
        BY <4>3 DEF PreOpenQuery, PreOpenDuplicates, PreOpenOverdue, MarkInv, Where
      <4> QED
        BY <1>6, <2>2, <2>6, <4>1, <4>2, <4>3 DEF Still
    <3> QED
      BY <1>0, <1>1, <2>1, <3>1 DEF MarkInv
  <2> QED
    BY <2>3, <2>4, <2>5, <2>6
<1> QED
  BY <1>2, <1>3, <1>4, <1>5, <1>6, Steps

\* A pilot that does not crash and whose calendar is there has scanned every day it
\* marked, once it is idle: refused and lost orders, failing queries and subscriptions,
\* the risk flag and a fired repair notwithstanding, no pass of pre_open ends between the
\* mark and the scan.
THEOREM MarkedDaysAreScanned ==
  ASSUME "crash" \notin Faults, "calendar" \notin Faults PROVE Spec => []MarkedIsScanned
<1>1. Init => TypeOK /\ MarkInv
  BY TypeInit, MarkInit
<1>2. (TypeOK /\ MarkInv) /\ [Next]_vars => (TypeOK /\ MarkInv)'
  BY TypeStep, MarkStep
<1>3. TypeOK /\ MarkInv => MarkedIsScanned
  BY DEF MarkInv, MarkedIsScanned
<1> QED
  BY <1>1, <1>2, <1>3, PTL DEF Spec

(***************************************************************************)
(* Cancels, and the orders the pilot knows.                                *)
(***************************************************************************)
\* What phases 1 and 1' have on their lists: buys of earlier days; entries, each with a
\* younger one of its symbol that stays.
Passing ==
    /\ step = "yesterday" => \A o \in oids : cOrd[o].day # day
    /\ step = "duplicates" => \A o \in oids : Live(mem, o) /\
          \E k \in Oid : /\ o < k /\ Live(mem, k) /\ mem.ord[k].sym = mem.ord[o].sym
                        /\ mem.ord[k].purpose = "OPEN"

LEMMA PassingStep ==
  ASSUME TypeOK, Where, Passing, [Next]_vars
  PROVE  Passing'
<1>0. cOrd \in Counters /\ mem \in PilotState /\ oids \subseteq Oid
  BY DEF TypeOK, Counters
<1>1. CASE CounterStep
  <2>1. UNCHANGED <<mem, day, step, oids>>
    BY <1>1 DEF CounterStep, CounterFill, CounterClose, CounterReveal, pilot, ctl, world
  <2>2. \A o \in Oid : cOrd'[o].day = cOrd[o].day
    BY <1>0, <1>1 DEF CounterStep, CounterFill, CounterClose, CounterReveal, Counters, CounterOrder
  <2> QED
    BY <1>0, <2>1, <2>2 DEF Passing, Live
<1>2. CASE (\E x \in Oid : GraceEnds(x)) \/ Clock \/ Flag \/ UNCHANGED vars
  BY <1>2 DEF GraceEnds, Clock, Flag, vars, counter, pilot, ctl, world, Passing, Live
<1>3. CASE NewDay
  <2>1. step = "none" /\ step' = step
    BY <1>3 DEF NewDay, Between, Where, pilot, ctl
  <2> QED
    BY <2>1 DEF Passing
<1>4. CASE PreOpenQuery
  BY <1>4 DEF PreOpenQuery, YesterdaysBuys, counter, world, Passing
<1>5. CASE PreOpenDuplicates
  BY <1>5 DEF PreOpenDuplicates, Duplicates, Entries, Live, Passing
<1>6. ASSUME NEW x \in Oid, PreOpenCancel(x) PROVE Passing'
  <2>1. PICK C \in SUBSET {x} : cOrd' = CancelNoted(C) /\ mem' = Synced(mem, C)
    BY <1>6 DEF PreOpenCancel, CancelCalls
  <2>2. /\ step' = step /\ x \in oids /\ oids' = oids \ {x} /\ day' = day
        /\ step = "duplicates" =>
              \A k \in oids : mem.ord[k].sym = mem.ord[x].sym => x <= k
    BY <1>6 DEF PreOpenCancel, world
  <2>3. \A o \in Oid : cOrd'[o].day = cOrd[o].day
    BY <1>0, <2>1, CancelNotedType DEF Counters, CounterOrder
  <2>4. ASSUME NEW o \in Oid
        PROVE  /\ mem'.ord[o].sym = mem.ord[o].sym /\ (o # x => mem'.ord[o] = mem.ord[o])
    <3>1. mem.ord[o] \in Order
      BY <1>0 DEF PilotState
    <3>2. mem'.ord[o] = IF o \in C /\ Live(mem, o) THEN [mem.ord[o] EXCEPT !.st = "CANCELLED"]
                        ELSE mem.ord[o]
      BY <1>0, <2>1, SyncedType
    <3> QED
      BY <3>1, <3>2 DEF Order
  <2>5. ASSUME step = "duplicates", NEW o \in oids'
        PROVE  Live(mem', o) /\
               \E k \in Oid : /\ o < k /\ Live(mem', k) /\ mem'.ord[k].sym = mem'.ord[o].sym
                             /\ mem'.ord[k].purpose = "OPEN"
    <3>1. o \in oids /\ o # x /\ o \in Oid
      BY <1>0, <2>2, <2>5
    <3>2. PICK k \in Oid : /\ o < k /\ Live(mem, k) /\ mem.ord[k].sym = mem.ord[o].sym
                           /\ mem.ord[k].purpose = "OPEN" /\ Live(mem, o)
      BY <2>5, <3>1 DEF Passing
    <3>3. k # x
      <4> SUFFICES ASSUME k = x PROVE FALSE
        OBVIOUS
      <4>1. k <= o /\ o \in Nat /\ k \in Nat
        BY <2>2, <2>5, <3>1, <3>2 DEF Oid
      <4> QED
        BY <3>2, <4>1
    <3> QED
      BY <2>4, <3>1, <3>2, <3>3 DEF Live
  <2> QED
    BY <1>0, <2>2, <2>3, <2>5 DEF Passing
<1>7. CASE TurnStep /\ ~\E x \in Oid : PreOpenCancel(x)
  <2>1. step' \notin {"yesterday", "duplicates"}
    <3>1. step \in {"expire", "buy", "repair", "pending"}
      BY <1>7 DEF TurnStep, TickExit, PreOpenExpire, PreOpenBuy, PreOpenRepair, TickPending
    <3> QED
      BY <1>7, <3>1, Turns DEF Turn, GoesOn
  <2> QED
    BY <2>1 DEF Passing
<1>8. CASE Still /\ ~PreOpenQuery /\ ~PreOpenDuplicates
  <2>1. step' \notin {"yesterday", "duplicates"}
    <3>1. CASE AfterClose
      BY <3>1 DEF AfterClose, ctl, Where
    <3>2. CASE ~AfterClose
      BY <1>8, <3>2 DEF Still, Crash, Start, BootSubscribe, GetOrders, GetPositions, QueryFails,
         AfterReconcile, SaveOrder, PreOpenJob, PreOpenOverdue, PreOpenScan, PreOpenRepairs,
         PreOpenEnd, Repair, TickStart, TickSave, Idle, ctl, Where
    <3> QED
      BY <3>1, <3>2
  <2> QED
    BY <2>1 DEF Passing
<1> QED
  BY <1>1, <1>2, <1>3, <1>4, <1>5, <1>6, <1>7, <1>8, Steps

LEMMA SparesStep ==
  ASSUME TypeOK, Where, Passing, [Next]_vars, job = "pre_open", NEW o \in Oid,
         cOrd'[o].creq, ~cOrd[o].creq, cOrd[o].day = day
  PROVE  \E p \in Oid : p # o /\ Live(mem, p) /\ mem.ord[p].sym = mem.ord[o].sym
<1>0. cOrd \in Counters
  BY DEF TypeOK, Counters
<1>1. CASE CounterStep
  BY <1>0, <1>1 DEF CounterStep, CounterFill, CounterClose, CounterReveal, Counters, CounterOrder
<1>2. CASE (\E x \in Oid : GraceEnds(x)) \/ Clock \/ NewDay \/ Flag \/ UNCHANGED vars
  BY <1>2 DEF GraceEnds, Clock, NewDay, Between, Flag, vars, counter
<1>3. CASE Still
  BY <1>3, StillKeeps
<1>4. CASE TurnStep
  <2>0. PICK C \in SUBSET Oid, N \in SUBSET FreeOid, s \in Sym :
           \E side, p, q : Turn(C, N, s, side, p, q)
    BY <1>4, Turns
  <2>1. PICK side, p, q : Turn(C, N, s, side, p, q)
    BY <2>0
  <2>2. Placing(C, N, s, side, p, q) /\ Leaving(C, N)
    BY <2>1, MovesFacts DEF Turn
  <2>3. o \in C
    BY <2>2 DEF Placing, Leaving
  <2>4. o \in oids /\ step \in {"yesterday", "duplicates"}
    BY <2>1, <2>3 DEF Turn, MayCancel, Where
  <2>5. PICK k \in Oid : o < k /\ Live(mem, k) /\ mem.ord[k].sym = mem.ord[o].sym
    BY <2>4 DEF Passing
  <2>6. k # o
    BY <2>5 DEF Oid
  <2> QED
    BY <2>5, <2>6
<1> QED
  BY <1>1, <1>2, <1>3, <1>4, Steps

\* Whatever fails, lags, is lost or crashes: no pass of pre_open, scheduled, caught up or
\* fired as a repair, cancels an entry of its own day that is not a duplicate.
THEOREM TodaySpared == Spec => PreOpenSparesToday
<1>1. Init => TypeOK /\ Where /\ Passing
  BY TypeInit, WhereInit DEF Init, Passing
<1>2. (TypeOK /\ Where /\ Passing) /\ [Next]_vars => (TypeOK /\ Where /\ Passing)'
  BY TypeStep, WhereStep, PassingStep
<1>3. TypeOK /\ Where /\ Passing /\ [Next]_vars =>
        [job = "pre_open" => \A o \in Oid :
            cOrd'[o].creq /\ ~cOrd[o].creq /\ cOrd[o].day = day =>
               \E p \in Oid : p # o /\ Live(mem, p) /\ mem.ord[p].sym = mem.ord[o].sym]_vars
  BY SparesStep
<1> QED
  BY <1>1, <1>2, <1>3, PTL DEF Spec, PreOpenSparesToday

\* The invariant the proofs about sells rest on, as a theorem of its own: the run that
\* checks it shows the same formula on its instance.
THEOREM BooksAndSells == ASSUME GoodFaults PROVE Spec => []SellInv
<1>1. Init => TypeOK /\ SellInv
  BY TypeInit, SellInit
<1>2. (TypeOK /\ SellInv) /\ [Next]_vars => (TypeOK /\ SellInv)'
  BY TypeStep, SellStep
<1> QED
  BY <1>1, <1>2, PTL DEF Spec

\* A pilot that has reconciled since it was started knows what works, cancels apart.
Known == InStep => \A o \in Oid : CLive(o) /\ ~cOrd[o].creq => Live(mem, o)

LEMMA KnownStep ==
  ASSUME GoodFaults, TypeOK, SellInv, Known, [Next]_vars
  PROVE  Known'
<1>0. cOrd \in Counters /\ mem \in PilotState
  BY DEF TypeOK, Counters
<1>w. JobInv /\ job \in Job
  BY DEF SellInv, TypeOK
<1>1. CASE CounterStep \/ NewDay
  <2>1. UNCHANGED <<mem, job, step>>
    BY <1>1 DEF CounterStep, CounterFill, CounterClose, CounterReveal, NewDay, pilot, ctl
  <2>2. \A o \in Oid : cOrd'[o].creq = cOrd[o].creq /\ (cOrd'[o].st = "live" => cOrd[o].st = "live")
    <3>1. CASE CounterStep
      BY <1>0, <3>1 DEF CounterStep, CounterFill, CounterClose, CounterReveal, Counters,
                        CounterOrder, CLive
    <3>2. CASE NewDay
      BY <3>2, DayCloses DEF CLive
    <3> QED
      BY <1>1, <3>1, <3>2
  <2> QED
    BY <2>1, <2>2 DEF Known, InStep, CLive, Live
<1>2. CASE (\E o \in Oid : GraceEnds(o)) \/ Clock \/ Flag \/ UNCHANGED vars
  <2>1. UNCHANGED <<cOrd, mem, job, step>>
    BY <1>2 DEF GraceEnds, Clock, Flag, vars, pilot, ctl, counter
  <2> QED
    BY <2>1 DEF Known, InStep, CLive, Live
<1>3. CASE TurnStep
  <2>0. PICK C \in SUBSET Oid, N \in SUBSET FreeOid, s \in Sym :
           \E side, p, q : Turn(C, N, s, side, p, q)
    BY <1>3, Turns
  <2>1. PICK side, p, q : Turn(C, N, s, side, p, q)
    BY <2>0
  <2>2. Placing(C, N, s, side, p, q) /\ Leaving(C, N)
    BY <2>1, MovesFacts DEF Turn
  <2>3. InStep
    BY <2>1, <1>w DEF Turn, GoesOn, InStep, JobInv
  <2>4. ASSUME NEW o \in Oid, CLive(o)', ~cOrd'[o].creq PROVE mem'.ord[o].st = "SUBMITTED"
    <3>1. CASE o \in N
      BY <2>2, <3>1 DEF Placing, NewRecord, GoodFaults
    <3>2. CASE o \notin N
      BY <2>2, <2>3, <2>4, <3>2, ZenonT(40) DEF Leaving, Kept, Known, CLive, Live
    <3> QED
      BY <3>1, <3>2
  <2> QED
    BY <2>4 DEF Known, Live
<1>4. CASE GetPositions
  <2>1. step = "positions" /\ cOrd' = cOrd /\ mem' = Absorb(mem, snap, cPos, young)
    BY <1>4 DEF GetPositions, counter
  <2>2. \A o \in Oid : mem'.ord[o] = AbsorbOrder(mem, snap, young, o)
    BY <2>1, AbsorbType DEF TypeOK
  <2>3. ASSUME NEW o \in Oid, CLive(o) PROVE mem'.ord[o].st = "SUBMITTED"
    <3>1. snap[o].vis /\ snap[o].st = "live"
      BY <2>1, <2>3 DEF SellInv, SnapInv
    <3> QED
      BY <2>2, <3>1, LocalStatusLive, AbsorbOrderFacts DEF TypeOK
  <2> QED
    BY <2>1, <2>3 DEF Known, CLive, Live
<1>5. CASE Still /\ ~GetPositions
  <2>1. /\ cOrd' = cOrd
        /\ \/ mem' = disk /\ job' \in {"down", "boot"}
           \/ mem'.ord = mem.ord
    BY <1>5, StillKeeps
  <2>2. CASE InStep
    <3>1. mem'.ord = mem.ord \/ ~InStep'
      <4>1. job' \in {"down", "boot"} => Crash \/ Start
        BY <1>5, <2>2 DEF Still, Crash, Start, BootSubscribe, GetOrders, QueryFails, SaveOrder,
           PreOpenJob, PreOpenQuery, PreOpenDuplicates, PreOpenOverdue, PreOpenScan,
           PreOpenRepairs, PreOpenEnd, Repair, TickStart, TickSave, AfterClose, Idle, ctl, InStep
      <4>2. Crash \/ Start => ~InStep'
        BY DEF Crash, Start, InStep
      <4> QED
        BY <2>1, <4>1, <4>2
    <3> QED
      BY <2>1, <2>2, <3>1 DEF Known, CLive, Live
  <2>3. CASE ~InStep
    <3>1. CASE QueryFails
      <4>1. "crash" \notin Faults /\ job \in {"down", "boot"}
        BY <2>3, <3>1 DEF QueryFails, GoodFaults, InStep
      <4> QED
        BY <2>1, <4>1 DEF SellInv, FreshInv, Known, CLive
    <3>2. CASE ~QueryFails
      <4>1. ~InStep'
        BY <1>5, <1>w, <2>3, <3>2 DEF Still, Crash, Start, BootSubscribe, GetOrders, SaveOrder,
           PreOpenJob, PreOpenQuery, PreOpenDuplicates, PreOpenOverdue, PreOpenScan,
           PreOpenRepairs, PreOpenEnd, Repair, TickStart, TickSave, AfterClose, Idle, ctl, InStep,
           JobInv, Job
      <4> QED
        BY <4>1 DEF Known
    <3> QED
      BY <3>1, <3>2
  <2> QED
    BY <2>2, <2>3
<1> QED
  BY <1>1, <1>2, <1>3, <1>4, <1>5, Steps

\* Under the faults the sells are covered for, what works at the counter is known as
\* working to a running pilot, entries and exits, unless it asked to cancel it: each
\* order call leaves its record, and a boot reads them all back.
THEOREM NothingForgotten == ASSUME GoodFaults PROVE Spec => []NoForgottenOrder
<1>1. Init => TypeOK /\ SellInv /\ Known
  BY TypeInit, SellInit DEF Known, Init, InStep
<1>2. (TypeOK /\ SellInv /\ Known) /\ [Next]_vars => (TypeOK /\ SellInv /\ Known)'
  BY TypeStep, SellStep, KnownStep
<1>3. TypeOK /\ SellInv /\ Known => NoForgottenOrder
  BY DEF Known, NoForgottenOrder, InStep
<1> QED
  BY <1>1, <1>2, <1>3, PTL DEF Spec

-----------------------------------------------------------------------------
(***************************************************************************)
(* Who is watched.                                                         *)
(***************************************************************************)
Days ==
    /\ mem.lpo <= day /\ disk.lpo <= day
    /\ phase = "pre" => mem.lpo < day /\ disk.lpo < day

LEMMA DaysStep == TypeOK /\ Days /\ [Next]_vars => Days'
<1> SUFFICES ASSUME TypeOK, Days, [Next]_vars PROVE Days'
  OBVIOUS
<1>1. day \in Nat \ {0} /\ mem.lpo \in Nat /\ disk.lpo \in Nat
  BY DEF TypeOK, PilotState
<1>2. CASE CounterStep \/ (\E o \in Oid : GraceEnds(o)) \/ Flag \/ UNCHANGED vars
  <2>1. UNCHANGED <<mem, disk, day, phase>>
    BY <1>2 DEF CounterStep, CounterFill, CounterClose, CounterReveal, GraceEnds, Flag, vars,
                pilot, world
  <2> QED
    BY <2>1 DEF Days
<1>3. CASE Clock
  BY <1>3 DEF Clock, pilot, Days
<1>4. CASE NewDay
  <2>1. UNCHANGED <<mem, disk>> /\ day' = day + 1
    BY <1>4 DEF NewDay, pilot
  <2> QED
    BY <1>1, <2>1 DEF Days
<1>5. CASE TurnStep
  <2>1. disk' = disk /\ day' = day /\ phase' = phase /\ mem'.lpo = mem.lpo
    BY <1>5, Turns DEF Turn, GoesOn
  <2> QED
    BY <2>1 DEF Days
<1>6. CASE Still
  <2>1. /\ day' = day /\ phase' = phase /\ disk' \in {disk, mem, mem'}
        /\ mem'.lpo \in {disk.lpo, mem.lpo} \/ (PreOpenJob /\ mem'.lpo = day)
    BY <1>6, StillKeeps
  <2>2. PreOpenJob => phase # "pre"
    BY DEF PreOpenJob
  <2> QED
    BY <1>1, <2>1, <2>2 DEF Days
<1> QED
  BY <1>2, <1>3, <1>4, <1>5, <1>6, Steps

\* What may have to be sold: a symbol that is booked, in the account, or on the way.
Exposed(s) ==
    \/ Held(mem, s) \/ cPos[s] > 0
    \/ \E o \in Oid : CLive(o) /\ cOrd[o].side = "buy" /\ cOrd[o].sym = s

Seen == {s \in Sym : Exposed(s)} \subseteq sub

WatchInv ==
    /\ Where /\ Days
    /\ job = "on_tick" => tick.sym \in sub
    /\ job \in {"idle", "on_tick"} /\ phase = "open" /\ mem.lpo = day => Seen
    /\ step \in {"yesterday", "duplicates"} => Seen
    /\ step \in {"subscribe", "cancel", "expire", "buy", "buy_save", "repair", "repair_save"} =>
          {s \in Sym : Exposed(s)} \subseteq sub \cup Watchlist(mem)

\* The counter moves, or nothing does: no symbol gets exposed.
LEMMA ExposedCounter ==
  ASSUME TypeOK, CounterStep \/ NewDay, NEW s \in Sym, Exposed(s)'
  PROVE  Exposed(s)
<1>1. mem' = mem
  BY DEF CounterStep, CounterFill, CounterClose, CounterReveal, NewDay, pilot
<1>2. \A o \in Oid : /\ cOrd'[o].sym = cOrd[o].sym /\ cOrd'[o].side = cOrd[o].side
                     /\ cOrd'[o].st = "live" => cOrd[o].st = "live"
  <2>1. CASE CounterStep
    <3>1. cOrd \in Counters
      BY DEF TypeOK, Counters
    <3> QED
      BY <2>1, <3>1 DEF CounterStep, CounterFill, CounterClose, CounterReveal, Counters,
                        CounterOrder, CLive
  <2>2. CASE NewDay
    BY <2>2, DayCloses DEF CLive
  <2> QED
    BY <2>1, <2>2
<1>3. cPos'[s] > 0 => cPos[s] > 0 \/ \E o \in Oid : CLive(o) /\ cOrd[o].side = "buy" /\ cOrd[o].sym = s
  <2>1. CASE cPos' = cPos
    BY <2>1
  <2>2. ASSUME NEW o \in Oid, CounterFill(o) PROVE <1>3!:
    <3>1. /\ CLive(o) /\ cOrd[o].sym \in Sym /\ cPos \in [Sym -> Nat]
          /\ cPos' = [cPos EXCEPT ![cOrd[o].sym] = IF cOrd[o].side = "buy" THEN @ + 1 ELSE @ - 1]
      BY <2>2 DEF CounterFill, TypeOK, CounterOrder
    <3>2. CASE cOrd[o].sym = s /\ cOrd[o].side = "buy"
      BY <3>1, <3>2
    <3>3. CASE ~(cOrd[o].sym = s /\ cOrd[o].side = "buy")
      BY <3>1, <3>3
    <3> QED
      BY <3>2, <3>3
  <2> QED
    BY <2>1, <2>2 DEF CounterStep, CounterClose, CounterReveal, NewDay
<1> QED
  BY <1>1, <1>2, <1>3 DEF Exposed, CLive, Held

\* A turn exposes no other symbol than the one it buys, whose order it records.
LEMMA ExposedTurn ==
  ASSUME GoodFaults, TypeOK, NEW C \in SUBSET Oid, NEW N \in SUBSET FreeOid, NEW x \in Sym, NEW side,
         NEW p, NEW q, Turn(C, N, x, side, p, q), NEW s \in Sym, Exposed(s)'
  PROVE  Exposed(s) \/ (N # {} /\ side = "buy" /\ s = x /\ s \in Watchlist(mem)')
<1>1. Placing(C, N, x, side, p, q) /\ Leaving(C, N) /\ GoesOn
  BY MovesFacts DEF Turn
<1>2. Held(mem, s)' = Held(mem, s) /\ cPos' = cPos
  BY <1>1 DEF GoesOn, Held
<1>3. CASE Held(mem, s)' \/ cPos'[s] > 0
  BY <1>2, <1>3 DEF Exposed
<1>4. ASSUME NEW o \in Oid, CLive(o)', cOrd'[o].side = "buy", cOrd'[o].sym = s
      PROVE  Exposed(s) \/ (N # {} /\ side = "buy" /\ s = x /\ s \in Watchlist(mem)')
  <2>1. CASE o \notin N
    BY <1>1, <1>4, <2>1 DEF Leaving, Exposed, CLive
  <2>2. CASE o \in N
    <3>1. side = "buy" /\ s = x /\ mem'.ord[o].st = "SUBMITTED" /\ mem'.ord[o].sym = s
      BY <1>1, <1>4, <2>2 DEF Placing, NewRecord, GoodFaults
    <3> QED
      BY <2>2, <3>1 DEF Watchlist, Live
  <2> QED
    BY <2>1, <2>2
<1> QED
  BY <1>3, <1>4 DEF Exposed

\* Who is on the list of a state stays there while its records and positions stay.
LEMMA ListStays ==
  ASSUME mem'.ord = mem.ord, \A s \in Sym : mem'.pos[s].rem = mem.pos[s].rem
  PROVE  Watchlist(mem)' = Watchlist(mem) /\ \A s \in Sym : Held(mem, s)' = Held(mem, s)
BY DEF Watchlist, Held, Live

\* The pilot reads the counter: what is exposed is on the list.
LEMMA ExposedListed ==
  ASSUME TypeOK, SellInv, SellInv', GetPositions, NEW s \in Sym, Exposed(s)'
  PROVE  Exposed(s) /\ s \in Watchlist(mem)'
<1>1. step = "positions" /\ cOrd' = cOrd /\ cPos' = cPos /\ mem' = Absorb(mem, snap, cPos, young)
  BY DEF GetPositions, counter
<1>2. /\ \A o \in Oid : mem'.ord[o] = AbsorbOrder(mem, snap, young, o)
      /\ \A x \in Sym : mem'.pos[x].rem = cPos[x]
  BY <1>1, AbsorbType DEF TypeOK
<1>3. ASSUME NEW o \in Oid, CLive(o) PROVE mem'.ord[o].st = "SUBMITTED" /\ mem'.ord[o].sym = cOrd[o].sym
  <2>1. snap[o].vis /\ snap[o].st = "live"
    BY <1>1, <1>3 DEF SellInv, SnapInv
  <2>2. mem'.ord[o].st = "SUBMITTED"
    BY <1>2, <2>1, LocalStatusLive, AbsorbOrderFacts DEF TypeOK
  <2> QED
    BY <1>1, <2>2 DEF SellInv, Matches
<1>4. CASE Held(mem, s)' \/ cPos'[s] > 0
  BY <1>1, <1>2, <1>4 DEF Held, Exposed, Watchlist
<1>5. ASSUME NEW o \in Oid, CLive(o)', cOrd'[o].side = "buy", cOrd'[o].sym = s
      PROVE  Exposed(s) /\ s \in Watchlist(mem)'
  <2>1. CLive(o) /\ cOrd[o].side = "buy" /\ cOrd[o].sym = s
    BY <1>1, <1>5 DEF CLive
  <2> QED
    BY <1>3, <2>1 DEF Exposed, Watchlist, Live
<1> QED
  BY <1>4, <1>5 DEF Exposed

LEMMA WatchTurn ==
  ASSUME GoodFaults, TypeOK, SellInv, WatchInv, Where', Days', NEW C \in SUBSET Oid,
         NEW N \in SUBSET FreeOid, NEW x \in Sym, NEW side, NEW p, NEW q,
         Turn(C, N, x, side, p, q)
  PROVE  WatchInv'
<1>1. Placing(C, N, x, side, p, q) /\ Leaving(C, N) /\ GoesOn
  BY MovesFacts DEF Turn
<1>2. \A s \in Sym : Held(mem, s)' = Held(mem, s)
  BY <1>1 DEF GoesOn, Held
<1>3. ASSUME step \in {"expire", "buy", "repair"} PROVE Watchlist(mem) \subseteq Watchlist(mem)'
  <2>1. C = {}
    BY <1>3 DEF Turn, MayCancel
  <2>2. ASSUME NEW o \in Oid, Live(mem, o)
        PROVE  mem'.ord[o].st = "SUBMITTED" /\ mem'.ord[o].sym = mem.ord[o].sym
    <3>1. o \notin N
      BY <1>1, <2>2 DEF Placing, SellInv, Matches, Live
    <3> QED
      BY <1>1, <2>1, <2>2, <3>1 DEF Leaving, Kept, Live
  <2> QED
    BY <1>2, <2>2 DEF Watchlist, Live
<1>4. job' = "on_tick" => tick'.sym \in sub'
  BY <1>1 DEF GoesOn, WatchInv
<1>5. ASSUME job' \in {"idle", "on_tick"}, phase' = "open", mem'.lpo = day' PROVE Seen'
  <2>1. job = "on_tick" /\ step = "pending" /\ Seen /\ tick.sym \in sub /\ sub' = sub
    <3>1. step = "pending" /\ phase = "open" /\ mem.lpo = day /\ sub' = sub
      BY <1>1, <1>5 DEF GoesOn, WatchInv, Where
    <3>2. job = "on_tick"
      BY <3>1 DEF WatchInv, Where, TypeOK, Job
    <3> QED
      BY <3>1, <3>2 DEF WatchInv
  <2>2. \A s \in Sym : Exposed(s)' => Exposed(s) \/ s = tick.sym
    <3>1. N # {} => x = tick.sym
      BY <2>1 DEF Turn, MayPlace
    <3> QED
      BY <3>1, ExposedTurn
  <2> QED
    BY <2>1, <2>2 DEF Seen
<1>6. ASSUME step' \in {"subscribe", "cancel", "expire", "buy", "buy_save", "repair", "repair_save"}
      PROVE  \A s \in Sym : Exposed(s)' => s \in sub' \cup Watchlist(mem)'
  <2>1. step \in {"expire", "buy", "repair"} /\ sub' = sub
    BY <1>1, <1>6 DEF GoesOn
  <2>2. Watchlist(mem) \subseteq Watchlist(mem)'
    BY <1>3, <2>1
  <2> QED
    BY <2>1, <2>2, ExposedTurn DEF WatchInv
<1>7. ASSUME step' \in {"yesterday", "duplicates"} PROVE Seen'
  <2>1. step' = step /\ sub' = sub
    BY <1>1, <1>7 DEF GoesOn
  <2>2. N = {}
    BY <1>7, <2>1 DEF Turn, MayPlace
  <2>3. \A s \in Sym : Exposed(s)' => Exposed(s)
    BY <2>2, ExposedTurn
  <2> QED
    BY <1>7, <2>1, <2>3 DEF WatchInv, Seen
<1> QED
  BY <1>4, <1>5, <1>6, <1>7 DEF WatchInv

LEMMA WatchStill ==
  ASSUME "query" \notin Faults, "subscribe" \notin Faults, TypeOK, SellInv, SellInv', WatchInv,
         Where', Days', Still
  PROVE  WatchInv'
<1>0. /\ cOrd' = cOrd /\ cPos' = cPos /\ day' = day /\ phase' = phase
      /\ \/ mem' = disk /\ job' \in {"down", "boot"}
         \/ GetPositions
         \/ mem'.ord = mem.ord /\ \A s \in Sym : mem'.pos[s].rem = mem.pos[s].rem
      /\ \/ mem' = disk /\ job' \in {"down", "boot"}
         \/ mem'.lpo = mem.lpo /\ mem'.scan = mem.scan
         \/ mem'.lpo = mem.lpo /\ PreOpenScan /\ mem'.scan = mem.scan \cup {day}
         \/ PreOpenJob /\ mem'.lpo = day /\ mem'.scan = mem.scan
  BY StillKeeps
<1>1. CASE Crash \/ Start
  <2>1. job' \in {"down", "boot"} /\ step' \in {"none", "orders"}
    BY <1>1 DEF Crash, Start
  <2> QED
    BY <2>1 DEF WatchInv
<1>2. CASE PreOpenJob \/ Repair
  <2>1. job' = "pre_open" /\ step' = "orders"
    BY <1>2 DEF PreOpenJob, Repair
  <2> QED
    BY <2>1 DEF WatchInv
<1>3. CASE GetPositions
  <2>1. job' = job /\ sub' = sub /\ tick' = tick /\ step' = AfterReconcile /\ mem'.lpo = mem.lpo
        /\ job \in {"boot", "pre_open", "on_tick"}
        /\ step' \notin {"yesterday", "duplicates"}
    <3>1. mem'.lpo = mem.lpo /\ step' \in {"subscribe", "cancel", "pending"}
      BY <1>3 DEF GetPositions, Absorb, TypeOK, PilotState, AfterReconcile
    <3> QED
      BY <1>3, <3>1 DEF GetPositions, WatchInv, Where, TypeOK, Job
  <2>2. \A s \in Sym : Exposed(s)' => Exposed(s) /\ s \in Watchlist(mem)'
    BY <1>3, ExposedListed
  <2> QED
    BY <1>0, <2>1, <2>2 DEF WatchInv, Seen
<1>q. ~QueryFails
  BY DEF QueryFails
<1>4. ASSUME ~Crash, ~Start, ~PreOpenJob, ~Repair, ~GetPositions
      PROVE  WatchInv'
  <2>1. ~ (job' \in {"down", "boot"} /\ mem' = disk) \/ mem' = mem
    BY <1>4, <1>q DEF Still, BootSubscribe, GetOrders, SaveOrder, PreOpenQuery,
       PreOpenDuplicates, PreOpenOverdue, PreOpenScan, PreOpenRepairs, PreOpenEnd, TickStart, TickSave, AfterClose, Idle, ctl, WatchInv, Where
  <2>2. /\ mem'.ord = mem.ord /\ \A s \in Sym : mem'.pos[s].rem = mem.pos[s].rem
        /\ mem'.lpo = mem.lpo
    BY <1>0, <1>4, <2>1
  <2>3. Watchlist(mem)' = Watchlist(mem) /\ \A s \in Sym : Exposed(s)' = Exposed(s)
    BY <1>0, <2>2, ListStays DEF Exposed, CLive
  <2>4. CASE BootSubscribe \/ PreOpenEnd
    <3>1. /\ step \in {"subscribe", "repair"} /\ sub' = sub \cup Watchlist(mem)
          /\ job' \in {"idle", "pre_open"} /\ step' \in {"none", "orders"}
      BY <2>4 DEF BootSubscribe, PreOpenEnd, Subscribing, Idle
    <3> QED
      BY <2>3, <3>1 DEF WatchInv, Seen
  <2>5. CASE GetOrders \/ SaveOrder \/ PreOpenScan \/ PreOpenRepairs
    <3>1. /\ job' = job /\ sub' = sub /\ tick' = tick
          /\ step' \in {"buy", "repair"} => step \in {"buy_save", "repair_save", "expire", "buy"}
          /\ step' \in {"positions", "buy", "repair", "pending"}
      BY <2>5 DEF GetOrders, SaveOrder, PreOpenScan, PreOpenRepairs
    <3> QED
      BY <1>0, <2>2, <2>3, <3>1 DEF WatchInv, Seen
  <2>6. CASE TickSave \/ \E s \in Sym, px \in Prices : TickStart(s, px)
    <3>1. /\ job \in {"idle", "on_tick"} /\ job' \in {"idle", "on_tick"} /\ sub' = sub
          /\ job' = "on_tick" => tick'.sym \in sub
          /\ step' \in {"none", "orders", "pending"}
      BY <2>6 DEF TickSave, TickStart, Idle, WatchInv, Where, TypeOK, Job
    <3> QED
      BY <1>0, <2>2, <2>3, <3>1 DEF WatchInv, Seen
  <2>7. CASE AfterClose
    <3>1. job = "idle" /\ job' = job /\ step' = step /\ phase' = "post" /\ step = "none"
      BY <1>0, <2>7 DEF AfterClose, ctl, WatchInv, Where
    <3> QED
      BY <3>1 DEF WatchInv
  <2>8. CASE PreOpenQuery
    <3>1. /\ step = "cancel" /\ step' = "yesterday" /\ sub' = sub \cup Watchlist(mem)
          /\ job' = "pre_open"
      BY <2>8 DEF PreOpenQuery, Subscribing
    <3> QED
      BY <2>3, <3>1 DEF WatchInv, Seen
  <2>9. CASE PreOpenDuplicates \/ PreOpenOverdue
    <3>1. /\ step \in {"yesterday", "duplicates"} /\ sub' = sub /\ job' = job
          /\ step' \in {"duplicates", "expire", "buy"}
      BY <2>9 DEF PreOpenDuplicates, PreOpenOverdue
    <3> QED
      BY <2>3, <3>1 DEF WatchInv, Where, Seen
  <2> QED
    BY <1>4, <1>q, <2>4, <2>5, <2>6, <2>7, <2>8, <2>9 DEF Still
<1> QED
  BY <1>1, <1>2, <1>3, <1>4

LEMMA WatchStep ==
  ASSUME GoodFaults, "query" \notin Faults, "subscribe" \notin Faults, TypeOK, SellInv,
         SellInv', WatchInv, [Next]_vars
  PROVE  WatchInv'
<1>1. Where' /\ Days'
  BY WhereStep, DaysStep DEF WatchInv
<1>2. CASE CounterStep \/ NewDay
  <2>1. /\ UNCHANGED <<mem, sub, job, step, tick>>
        /\ \/ day' = day /\ phase' = phase
           \/ phase' = "pre"
    BY <1>2 DEF CounterStep, CounterFill, CounterClose, CounterReveal, NewDay, pilot, ctl, world
  <2>2. \A s \in Sym : Exposed(s)' => Exposed(s)
    BY <1>2, ExposedCounter
  <2>3. Watchlist(mem)' = Watchlist(mem)
    BY <2>1 DEF Watchlist, Held, Live
  <2> QED
    BY <1>1, <2>1, <2>2, <2>3 DEF WatchInv, Seen
<1>3. CASE (\E o \in Oid : GraceEnds(o)) \/ Flag \/ Clock \/ UNCHANGED vars
  <2>1. /\ UNCHANGED <<cOrd, cPos, mem, sub, job, step, tick, day>>
        /\ phase' = phase \/ phase = "pre" \/ phase' = "post"
    BY <1>3 DEF GraceEnds, Flag, Clock, vars, pilot, ctl, world, counter
  <2>2. \A s \in Sym : Exposed(s)' = Exposed(s)
    BY <2>1 DEF Exposed, CLive, Held
  <2>3. Watchlist(mem)' = Watchlist(mem)
    BY <2>1 DEF Watchlist, Held, Live
  <2>4. phase' = "open" /\ mem'.lpo = day' => phase = "open"
    <3>1. phase = "pre" => mem.lpo < day
      BY DEF WatchInv, Days
    <3>2. mem.lpo \in Nat /\ day \in Nat
      BY DEF TypeOK, PilotState
    <3> QED
      BY <2>1, <3>1, <3>2
  <2> QED
    BY <1>1, <2>1, <2>2, <2>3, <2>4 DEF WatchInv, Seen
<1>4. CASE TurnStep
  BY <1>1, <1>4, Turns, WatchTurn
<1>5. CASE Still
  BY <1>1, <1>5, WatchStill
<1> QED
  BY <1>2, <1>3, <1>4, <1>5, Steps

\* With crashes and restarts, refused, rejected and surviving orders, cancels that fail
\* and days without a calendar: after the day's pre_open every held symbol of an idle
\* pilot is subscribed, for the three subscription points cover what is held and whatever
\* may fill before the next - as long as the subscriptions themselves go through.
THEOREM HeldIsSeen ==
  ASSUME GoodFaults, "query" \notin Faults, "subscribe" \notin Faults
  PROVE  Spec => []HeldIsWatched
<1>1. Init => TypeOK /\ SellInv /\ WatchInv
  <2>1. Init => job = "down" /\ step = "none" /\ mem.lpo = 0 /\ disk.lpo = 0 /\ day = 1
    BY DEF Init, InitialState
  <2>2. Init => WatchInv
    BY <2>1, WhereInit DEF WatchInv, Days
  <2> QED
    BY <2>2, TypeInit, SellInit
<1>2. (TypeOK /\ SellInv /\ WatchInv) /\ [Next]_vars => (TypeOK /\ SellInv /\ WatchInv)'
  BY TypeStep, SellStep, WatchStep
<1>3. TypeOK /\ SellInv /\ WatchInv => HeldIsWatched
  BY DEF WatchInv, HeldIsWatched, Seen, Exposed
<1> QED
  BY <1>1, <1>2, <1>3, PTL DEF Spec

-----------------------------------------------------------------------------
(***************************************************************************)
(* The sell side is an ExitDesk.                                           *)
(***************************************************************************)
RestOf(c) == [o \in Oid |-> c[o].qty - c[o].filled]

\* What orders have left to trade, added up.
LEMMA RestsAdd ==
  ASSUME NEW S \in SUBSET Oid, NaturalOn(RestOf(cOrd), S)
  PROVE  MapThenSumSet(Rest, S) = SumOf(RestOf(cOrd), S)
<1> DEFINE W == RestOf(cOrd)
           Folds(g) == g = [T \in SUBSET S |-> IF T = {} THEN 0
                                               ELSE Rest(Pick(T)) + g[T \ {Pick(T)}]]
<1>1. IsFiniteSet(S) /\ NaturalOn(W, S)
  <2>1. MaxOrders \in Nat
    BY LedgerAssumption
  <2>2. IsFiniteSet(Oid)
    BY <2>1, FS_Interval DEF Oid
  <2>3. IsFiniteSet(S)
    BY <2>2, FS_Subset
  <2> QED
    BY <2>3
<1>2. \A T \in SUBSET S : T # {} => Pick(T) \in S /\ W[Pick(T)] = Rest(Pick(T))
  BY DEF Pick, RestOf, Rest
<1>3. ASSUME NEW g PROVE Folds(g) <=> IsSum(W, g, S)
  <2> HIDE DEF W
  <2>1. [T \in SUBSET S |-> IF T = {} THEN 0 ELSE Rest(Pick(T)) + g[T \ {Pick(T)}]]
          = [T \in SUBSET S |-> IF T = {} THEN 0 ELSE W[Pick(T)] + g[T \ {Pick(T)}]]
    BY <1>2
  <2> QED
    BY <2>1, Zenon DEF IsSum
<1>4. MapThenSumSet(Rest, S) = (CHOOSE g : Folds(g))[S]
  BY DEF MapThenSumSet, MapThenFoldSet, Pick
<1> HIDE DEF Folds, W
<1>5. Folds(CHOOSE g : Folds(g))
  <2>1. \E g : Folds(g)
    BY <1>1, <1>3, SumExists
  <2> QED
    BY <2>1, Zenon
<1>6. (CHOOSE g : Folds(g))[S] = SumOf(W, S)
  BY <1>1, <1>3, <1>5, SumUnique
<1> QED
  BY <1>4, <1>6 DEF W

\* An order that works to sell has something left, and what phase 2 still has to sell
\* is held.
Unsold ==
    /\ \A o \in Oid : WorkingSell(o) => cOrd[o].filled < cOrd[o].qty
    /\ step = "expire" => \A s \in todo : Held(mem, s)

DeskInv == TypeOK /\ SellInv /\ Unsold

LEMMA UnsoldStep ==
  ASSUME TypeOK, TypeOK', SellInv, Unsold, [Next]_vars
  PROVE  Unsold'
<1>0. cOrd \in Counters /\ mem \in PilotState
  BY DEF TypeOK, Counters
<1>1. CASE CounterStep \/ NewDay
  <2>1. UNCHANGED <<mem, step, todo>>
    BY <1>1 DEF CounterStep, CounterFill, CounterClose, CounterReveal, NewDay, pilot, ctl
  <2>2. \A o \in Oid : WorkingSell(o)' => WorkingSell(o) /\ cOrd'[o].filled < cOrd'[o].qty
    <3>1. ASSUME NEW x \in Oid, CounterFill(x), NEW o \in Oid, WorkingSell(o)'
          PROVE  WorkingSell(o) /\ cOrd'[o].filled < cOrd'[o].qty
      <4>1. CASE o = x
        BY <1>0, <3>1, <4>1 DEF CounterFill, WorkingSell, CLive, Counters, CounterOrder
      <4>2. CASE o # x
        BY <1>0, <3>1, <4>2 DEF CounterFill, WorkingSell, CLive, Counters, Unsold
      <4> QED
        BY <4>1, <4>2
    <3>2. ASSUME NEW x \in Oid, CounterClose(x) \/ CounterReveal(x), NEW o \in Oid, WorkingSell(o)'
          PROVE  WorkingSell(o) /\ cOrd'[o].filled < cOrd'[o].qty
      <4>1. /\ WorkingSell(o) /\ cOrd'[o].filled = cOrd[o].filled /\ cOrd'[o].qty = cOrd[o].qty
        BY <1>0, <3>2 DEF CounterClose, CounterReveal, WorkingSell, CLive, Counters, CounterOrder
      <4> QED
        BY <4>1 DEF Unsold
    <3>3. ASSUME NewDay, NEW o \in Oid, WorkingSell(o)'
          PROVE  WorkingSell(o) /\ cOrd'[o].filled < cOrd'[o].qty
      BY <3>3, DayCloses DEF WorkingSell, CLive, Unsold
    <3> QED
      BY <1>1, <3>1, <3>2, <3>3 DEF CounterStep
  <2> QED
    BY <2>1, <2>2 DEF Unsold, Held
<1>2. CASE (\E o \in Oid : GraceEnds(o)) \/ Flag \/ Clock \/ UNCHANGED vars
  <2>1. UNCHANGED <<cOrd, mem, step, todo>>
    BY <1>2 DEF GraceEnds, Flag, Clock, vars, pilot, ctl, counter
  <2> QED
    BY <2>1 DEF Unsold, WorkingSell, CLive, Held
<1>3. CASE TurnStep
  <2>0. PICK C \in SUBSET Oid, N \in SUBSET FreeOid, x \in Sym :
           \E side, p, q : Turn(C, N, x, side, p, q)
    BY <1>3, Turns
  <2>1. PICK side, p, q : Turn(C, N, x, side, p, q)
    BY <2>0
  <2>2. Placing(C, N, x, side, p, q) /\ Leaving(C, N) /\ GoesOn
    BY <2>1, MovesFacts DEF Turn
  <2>3. N # {} /\ side = "sell" => q > 0
    BY <2>1 DEF Turn, MayPlace, Unsold, Held
  <2>4. \A o \in Oid : WorkingSell(o)' => cOrd'[o].filled < cOrd'[o].qty
    <3> SUFFICES ASSUME NEW o \in Oid, WorkingSell(o)' PROVE cOrd'[o].filled < cOrd'[o].qty
      OBVIOUS
    <3>1. CASE o \in N
      BY <2>1, <2>2, <2>3, <3>1 DEF Placing, WorkingSell, Turn
    <3>2. CASE o \notin N
      BY <2>2, <3>2 DEF Leaving, WorkingSell, CLive, Unsold
    <3> QED
      BY <3>1, <3>2
  <2>5. ASSUME step' = "expire", NEW s \in todo' PROVE Held(mem, s)'
    <3>1. s \in Sym
      BY DEF TypeOK
    <3>3. CASE \E y \in Sym : PreOpenExpire(y)
      <4>1. step = "expire" /\ todo' \subseteq todo
        BY <3>3 DEF PreOpenExpire
      <4> QED
        BY <2>2, <3>1, <4>1 DEF GoesOn, Held, Unsold
    <3>4. CASE TickExit \/ (\E y \in Sym : PreOpenBuy(y))
               \/ (\E o \in Oid : PreOpenCancel(o) \/ PreOpenRepair(o) \/ TickPending(o))
      <4>1. step \in {"yesterday", "duplicates", "pending", "buy", "repair"}
        BY <3>4 DEF TickExit, PreOpenBuy, PreOpenCancel, PreOpenRepair, TickPending
      <4> QED
        BY <2>2, <2>5, <4>1 DEF GoesOn
    <3> QED
      BY <1>3, <3>3, <3>4 DEF TurnStep
  <2> QED
    BY <2>4, <2>5 DEF Unsold
<1>5. CASE PreOpenOverdue
  BY <1>5 DEF PreOpenOverdue, counter, Overdue, Expired, Unsold, WorkingSell, CLive, Held
<1>4. CASE Still /\ ~PreOpenOverdue
  <2>1. cOrd' = cOrd
    BY <1>4, StillKeeps
  <2>2. step' # "expire"
    <3>1. CASE Crash \/ Start \/ BootSubscribe \/ GetOrders \/ PreOpenJob \/ PreOpenQuery
               \/ PreOpenDuplicates \/ PreOpenScan \/ PreOpenRepairs \/ PreOpenEnd \/ Repair
               \/ TickSave \/ \E s \in Sym, px \in Prices : TickStart(s, px)
      BY <3>1 DEF Crash, Start, BootSubscribe, GetOrders, PreOpenJob, PreOpenQuery,
                  PreOpenDuplicates, PreOpenScan, PreOpenRepairs, PreOpenEnd, Repair, TickSave, TickStart, Idle
    <3>2. CASE GetPositions \/ QueryFails
      BY <3>2 DEF GetPositions, QueryFails, AfterReconcile
    <3>3. CASE SaveOrder
      BY <3>3 DEF SaveOrder
    <3>4. CASE AfterClose
      BY <3>4 DEF AfterClose, ctl, SellInv, JobInv
    <3> QED
      BY <1>4, <3>1, <3>2, <3>3, <3>4 DEF Still
  <2> QED
    BY <2>1, <2>2 DEF Unsold, WorkingSell, CLive
<1> QED
  BY <1>1, <1>2, <1>3, <1>4, <1>5, Steps

\* What is on offer of a symbol is the rest of its working sell, if there is one.
OfferIs ==
    /\ OnOffer \in [Sym -> Nat]
    /\ \A o \in Oid : WorkingSell(o) => OnOffer[cOrd[o].sym] = Rest(o)
    /\ \A s \in Sym : (\A o \in Oid : WorkingSell(o) => cOrd[o].sym # s) => OnOffer[s] = 0

LEMMA OfferOfOne == DeskInv => OfferIs
<1> SUFFICES ASSUME DeskInv PROVE OfferIs
  OBVIOUS
<1> DEFINE Sells(s) == {o \in Oid : WorkingSell(o) /\ cOrd[o].sym = s}
           r == RestOf(cOrd)
<1>1. \A o \in Oid : WorkingSell(o) => Rest(o) \in Nat /\ r[o] = Rest(o) /\ cOrd[o].sym \in Sym
  BY DEF DeskInv, Unsold, TypeOK, CounterOrder, RestOf, Rest
<1>2. \A s \in Sym : NaturalOn(r, Sells(s)) /\ Sells(s) \in SUBSET Oid
  BY <1>1 DEF NaturalOn
<1>3. \A s \in Sym : OnOffer[s] = SumOf(r, Sells(s))
  <2> SUFFICES ASSUME NEW s \in Sym PROVE OnOffer[s] = SumOf(r, Sells(s))
    OBVIOUS
  <2>1. OnOffer[s] = MapThenSumSet(Rest, Sells(s))
    BY DEF OnOffer
  <2> HIDE DEF Sells
  <2> QED
    BY <1>2, <2>1, RestsAdd
<1>4. ASSUME NEW o \in Oid, WorkingSell(o) PROVE OnOffer[cOrd[o].sym] = Rest(o)
  <2> DEFINE s == cOrd[o].sym
  <2>1. Sells(s) = {} \cup {o}
    BY <1>4 DEF DeskInv, SellInv, OneSell
  <2>2. SumOf(r, {} \cup {o}) = SumOf(r, {}) + r[o]
    <3>1. IsFiniteSet({}) /\ NaturalOn(r, {}) /\ o \notin {} /\ r[o] \in Nat
      BY <1>1, <1>4, FS_EmptySet DEF NaturalOn
    <3> QED
      BY <3>1, SumAdd
  <2>3. s \in Sym /\ r[o] = Rest(o) /\ Rest(o) \in Nat
    BY <1>1, <1>4
  <2> HIDE DEF Sells, r, s
  <2>4. OnOffer[s] = Rest(o)
    BY <1>3, <2>1, <2>2, <2>3, SumEmpty
  <2> QED
    BY <2>4 DEF s
<1>5. ASSUME NEW s \in Sym, \A o \in Oid : WorkingSell(o) => cOrd[o].sym # s PROVE OnOffer[s] = 0
  <2>1. Sells(s) = {}
    BY <1>5
  <2> QED
    BY <1>3, <2>1, SumEmpty
<1>6. OnOffer \in [Sym -> Nat]
  <2>1. \A s \in Sym : OnOffer[s] \in Nat
    <3> SUFFICES ASSUME NEW s \in Sym PROVE OnOffer[s] \in Nat
      OBVIOUS
    <3>1. CASE \E o \in Oid : WorkingSell(o) /\ cOrd[o].sym = s
      BY <1>1, <1>4, <3>1
    <3>2. CASE \A o \in Oid : WorkingSell(o) => cOrd[o].sym # s
      BY <1>5, <3>2
    <3> QED
      BY <3>1, <3>2
  <2> QED
    BY <2>1 DEF OnOffer
<1> QED
  BY <1>4, <1>5, <1>6 DEF OfferIs

\* An offer is the same as long as the working sell behind it is.
LEMMA OfferStays ==
  ASSUME OfferIs, OfferIs', NEW s \in Sym,
         \A o \in Oid : cOrd[o].sym = s \/ cOrd'[o].sym = s =>
             WorkingSell(o)' = WorkingSell(o)
             /\ (WorkingSell(o) => cOrd'[o].sym = cOrd[o].sym /\ Rest(o)' = Rest(o))
  PROVE  OnOffer'[s] = OnOffer[s]
<1>1. CASE \E o \in Oid : WorkingSell(o) /\ cOrd[o].sym = s
  BY <1>1 DEF OfferIs
<1>2. CASE \A o \in Oid : WorkingSell(o) => cOrd[o].sym # s
  <2>1. \A o \in Oid : WorkingSell(o)' => cOrd'[o].sym # s
    BY <1>2
  <2> QED
    BY <1>2, <2>1 DEF OfferIs
<1> QED
  BY <1>1, <1>2

LEMMA DeskInit == Init /\ OfferIs => Desk!Init
<1> SUFFICES ASSUME Init, OfferIs PROVE Desk!Init
  OBVIOUS
<1>1. \A o \in Oid : cOrd[o].st = "none"
  BY DEF Init, NoSnap, NoOrder
<1>2. \A s \in Sym : OnOffer[s] = 0
  BY <1>1 DEF OfferIs, WorkingSell, CLive
<1>3. OnOffer = [s \in Sym |-> 0]
  BY <1>2 DEF OfferIs
<1>4. cPos = [s \in Sym |-> 0]
  BY DEF Init, NoVol
<1> QED
  BY <1>3, <1>4 DEF Desk!Init

LEMMA DeskFill ==
  ASSUME DeskInv, DeskInv', OfferIs, OfferIs', NEW o \in Oid, CounterFill(o)
  PROVE  [Desk!Next]_(Desk!vars)
<1>1. PICK s \in Sym : s = cOrd[o].sym
  BY DEF DeskInv, TypeOK, CounterOrder
<1>0. cOrd \in Counters /\ cPos \in [Sym -> Nat] /\ cOrd[o].filled \in Nat /\ cOrd[o].qty \in Nat
      /\ OnOffer \in [Sym -> Nat] /\ OnOffer' \in [Sym -> Nat]
  BY DEF DeskInv, TypeOK, Counters, OfferIs, CounterOrder
<1>2. /\ CLive(o) /\ cOrd'[o].sym = s /\ cOrd'[o].side = cOrd[o].side /\ cOrd'[o].qty = cOrd[o].qty
      /\ cOrd'[o].filled = cOrd[o].filled + 1
      /\ cOrd'[o].st = IF cOrd[o].filled + 1 >= cOrd[o].qty THEN "filled" ELSE "live"
      /\ \A x \in Oid \ {o} : cOrd'[x] = cOrd[x]
      /\ cOrd[o].side = "sell" => cPos[s] > 0
      /\ cPos' = [cPos EXCEPT ![s] = IF cOrd[o].side = "buy" THEN @ + 1 ELSE @ - 1]
  BY <1>0, <1>1 DEF CounterFill, Counters, CounterOrder
<1>3. \A x \in Oid \ {o} : WorkingSell(x)' = WorkingSell(x) /\ Rest(x)' = Rest(x)
  BY <1>2 DEF WorkingSell, CLive, Rest
<1>4. CASE cOrd[o].side = "buy"
  <2>1. \A x \in Sym : OnOffer'[x] = OnOffer[x]
    <3>1. ~WorkingSell(o) /\ ~WorkingSell(o)'
      BY <1>2, <1>4 DEF WorkingSell
    <3>2. \A y \in Oid : /\ WorkingSell(y)' = WorkingSell(y)
                         /\ WorkingSell(y) => cOrd'[y].sym = cOrd[y].sym /\ Rest(y)' = Rest(y)
      BY <1>2, <1>3, <3>1 DEF WorkingSell
    <3> QED
      BY <3>2, OfferStays
  <2>2. OnOffer' = OnOffer /\ cPos' = [cPos EXCEPT ![s] = @ + 1]
    BY <1>0, <1>2, <1>4, <2>1
  <2> QED
    BY <2>2 DEF Desk!Next, Desk!Acquire
<1>5. CASE cOrd[o].side = "sell"
  <2>1. WorkingSell(o) /\ OnOffer[s] = Rest(o) /\ Rest(o) > 0 /\ Rest(o) \in Nat
    BY <1>0, <1>1, <1>2, <1>5 DEF WorkingSell, OfferIs, DeskInv, Unsold, Rest
  <2>2. \A x \in Sym \ {s} : OnOffer'[x] = OnOffer[x]
    BY <1>1, <1>2, <1>3, OfferStays
  <2>3. OnOffer'[s] = OnOffer[s] - 1
    <3>1. CASE cOrd[o].filled + 1 >= cOrd[o].qty
      <4>1. \A x \in Oid : WorkingSell(x)' => cOrd'[x].sym # s
        BY <1>1, <1>2, <1>3, <2>1, <3>1 DEF WorkingSell, CLive, DeskInv, SellInv, OneSell
      <4>2. OnOffer'[s] = 0
        BY <4>1 DEF OfferIs
      <4> QED
        BY <1>0, <2>1, <3>1, <4>2 DEF Rest
    <3>2. CASE ~(cOrd[o].filled + 1 >= cOrd[o].qty)
      <4>1. WorkingSell(o)' /\ Rest(o)' = Rest(o) - 1
        BY <1>0, <1>2, <1>5, <3>2 DEF WorkingSell, CLive, Rest
      <4> QED
        BY <1>2, <2>1, <4>1 DEF OfferIs
    <3> QED
      BY <3>1, <3>2
  <2>4. OnOffer' = [OnOffer EXCEPT ![s] = @ - 1]
    BY <1>0, <2>2, <2>3
  <2>5. cPos' = [cPos EXCEPT ![s] = @ - 1]
    BY <1>2, <1>5
  <2> QED
    BY <2>1, <2>4, <2>5 DEF Desk!Next, Desk!Trade
<1> QED
  BY <1>0, <1>4, <1>5 DEF Counters, CounterOrder

\* Offers end, with an order or with the day.
LEMMA DeskEnds ==
  ASSUME DeskInv, OfferIs, OfferIs', cPos' = cPos,
         \A o \in Oid : /\ cOrd'[o].sym = cOrd[o].sym /\ cOrd'[o].side = cOrd[o].side
                        /\ cOrd'[o].qty = cOrd[o].qty /\ cOrd'[o].filled = cOrd[o].filled
                        /\ cOrd'[o].st = "live" => cOrd[o].st = "live"
  PROVE  [Desk!Next]_(Desk!vars)
<1> DEFINE S == {s \in Sym : \E o \in Oid : WorkingSell(o) /\ ~WorkingSell(o)' /\ cOrd[o].sym = s}
<1>0. \A o \in Oid : WorkingSell(o)' => WorkingSell(o) /\ Rest(o)' = Rest(o)
  BY DEF WorkingSell, CLive, Rest
<1>1. ASSUME NEW s \in S PROVE OnOffer'[s] = 0
  <2>1. PICK o \in Oid : WorkingSell(o) /\ ~WorkingSell(o)' /\ cOrd[o].sym = s
    OBVIOUS
  <2>2. \A x \in Oid : WorkingSell(x)' => cOrd'[x].sym # s
    BY <1>0, <2>1 DEF DeskInv, SellInv, OneSell
  <2> QED
    BY <2>2 DEF OfferIs
<1>2. ASSUME NEW s \in Sym, s \notin S PROVE OnOffer'[s] = OnOffer[s]
  <2>1. \A o \in Oid : cOrd[o].sym = s =>
            /\ WorkingSell(o)' = WorkingSell(o)
            /\ WorkingSell(o) => cOrd'[o].sym = cOrd[o].sym /\ Rest(o)' = Rest(o)
    BY <1>0, <1>2 DEF WorkingSell
  <2> QED
    BY <2>1, OfferStays
<1>3. S \in SUBSET Sym
  OBVIOUS
<1> HIDE DEF S
<1>4. OnOffer' = [s \in Sym |-> IF s \in S THEN 0 ELSE OnOffer[s]]
  BY <1>1, <1>2, <1>3 DEF OfferIs
<1> QED
  BY <1>3, <1>4 DEF Desk!Next, Desk!Withdraw

LEMMA DeskTurn ==
  ASSUME DeskInv, DeskInv', OfferIs, OfferIs', TurnStep
  PROVE  [Desk!Next]_(Desk!vars)
<1>0. TypeOK /\ cPos \in [Sym -> Nat] /\ OnOffer \in [Sym -> Nat] /\ OnOffer' \in [Sym -> Nat]
  BY DEF DeskInv, TypeOK, OfferIs
<1>1. PICK C \in SUBSET Oid, N \in SUBSET FreeOid, x \in Sym, side \in {"buy", "sell"},
           p \in Purpose, q \in Nat : Turn(C, N, x, side, p, q)
  BY <1>0, Turns
<1>2. Placing(C, N, x, side, p, q) /\ Leaving(C, N) /\ cPos' = cPos
  BY <1>0, <1>1, MovesFacts DEF Turn, GoesOn
<1>3. \A o \in Oid \ N : /\ WorkingSell(o)' = WorkingSell(o) /\ Rest(o)' = Rest(o)
                         /\ cOrd'[o].sym = cOrd[o].sym
  BY <1>2 DEF Leaving, WorkingSell, CLive, Rest
<1>4. ASSUME \A n \in N : ~WorkingSell(n)' PROVE [Desk!Next]_(Desk!vars)
  <2>1. \A o \in Oid : /\ WorkingSell(o)' = WorkingSell(o)
                       /\ WorkingSell(o) => cOrd'[o].sym = cOrd[o].sym /\ Rest(o)' = Rest(o)
    <3>1. \A n \in N : ~WorkingSell(n)
      BY <1>2 DEF Placing, WorkingSell, CLive
    <3>2. \A n \in N : WorkingSell(n)' = WorkingSell(n)
      BY <1>4, <3>1 DEF WorkingSell
    <3> QED
      BY <1>3, <3>1, <3>2
  <2>2. \A s \in Sym : OnOffer'[s] = OnOffer[s]
    BY <2>1, OfferStays
  <2>3. OnOffer' = OnOffer
    BY <1>0, <2>2
  <2> QED
    BY <1>2, <2>3 DEF Desk!vars
<1>5. ASSUME NEW n \in N, WorkingSell(n)' PROVE [Desk!Next]_(Desk!vars)
  <2>1. /\ n \in Oid /\ N = {n} /\ cOrd'[n].sym = x /\ ~WorkingSell(n)
        /\ cOrd'[n].qty = q /\ cOrd'[n].filled = 0
    BY <1>2 DEF Placing, WorkingSell, CLive
  <2>2. \A o \in Oid \ {n} : WorkingSell(o) => cOrd[o].sym # x
    BY <1>3, <1>5, <2>1 DEF DeskInv, SellInv, OneSell
  <2>3. OnOffer[x] = 0
    BY <2>1, <2>2 DEF OfferIs
  <2>4. Rest(n)' = q /\ OnOffer'[x] = q
    BY <1>5, <2>1 DEF OfferIs, Rest
  <2>5. q > 0 /\ q <= cPos[x]
    <3>1. Rest(n)' <= cPos'[x] /\ cOrd'[n].filled < cOrd'[n].qty
      BY <1>5, <2>1 DEF DeskInv, SellInv, Covered, Unsold
    <3> QED
      BY <1>2, <2>1, <2>4, <3>1
  <2>6. \A s \in Sym \ {x} : OnOffer'[s] = OnOffer[s]
    <3>1. ASSUME NEW s \in Sym \ {x} PROVE OnOffer'[s] = OnOffer[s]
      <4>1. CASE \E o \in Oid : WorkingSell(o) /\ cOrd[o].sym = s
        <5>1. PICK o \in Oid : WorkingSell(o) /\ cOrd[o].sym = s
          BY <4>1
        <5>2. WorkingSell(o)' /\ Rest(o)' = Rest(o) /\ cOrd'[o].sym = s
          BY <1>3, <2>1, <5>1
        <5> QED
          BY <5>1, <5>2 DEF OfferIs
      <4>2. CASE \A o \in Oid : WorkingSell(o) => cOrd[o].sym # s
        <5>1. \A o \in Oid : WorkingSell(o)' => cOrd'[o].sym # s
          BY <1>3, <2>1, <3>1, <4>2
        <5> QED
          BY <4>2, <5>1 DEF OfferIs
      <4> QED
        BY <4>1, <4>2
    <3> QED
      BY <3>1
  <2>7. OnOffer' = [OnOffer EXCEPT ![x] = q]
    BY <1>0, <2>4, <2>6
  <2>8. Desk!Offer(x, q) /\ q \in 1 .. cPos[x]
    BY <1>0, <1>2, <2>3, <2>5, <2>7 DEF Desk!Offer
  <2> QED
    BY <2>8 DEF Desk!Next
<1> QED
  BY <1>4, <1>5

LEMMA DeskStep ==
  ASSUME DeskInv, DeskInv', OfferIs, OfferIs', [Next]_vars
  PROVE  [Desk!Next]_(Desk!vars)
<1>0. TypeOK /\ cOrd \in Counters
  BY DEF DeskInv, TypeOK, Counters
<1>1. ASSUME NEW o \in Oid, CounterClose(o) \/ CounterReveal(o) PROVE [Desk!Next]_(Desk!vars)
  <2>1. cPos' = cPos
    BY <1>1 DEF CounterClose, CounterReveal
  <2>2. \A x \in Oid : /\ cOrd'[x].sym = cOrd[x].sym /\ cOrd'[x].side = cOrd[x].side
                       /\ cOrd'[x].qty = cOrd[x].qty /\ cOrd'[x].filled = cOrd[x].filled
                       /\ cOrd'[x].st = "live" => cOrd[x].st = "live"
    BY <1>0, <1>1 DEF CounterClose, CounterReveal, Counters, CounterOrder
  <2> QED
    BY <2>1, <2>2, DeskEnds
<1>2. CASE NewDay
  <2>1. cPos' = cPos
    BY <1>2 DEF NewDay
  <2>2. \A x \in Oid : /\ cOrd'[x].sym = cOrd[x].sym /\ cOrd'[x].side = cOrd[x].side
                       /\ cOrd'[x].qty = cOrd[x].qty /\ cOrd'[x].filled = cOrd[x].filled
                       /\ cOrd'[x].st = "live" => cOrd[x].st = "live"
    BY <1>0, <1>2, DayCloses DEF CLive
  <2> QED
    BY <2>1, <2>2, DeskEnds
<1>3. ASSUME cOrd' = cOrd, cPos' = cPos PROVE [Desk!Next]_(Desk!vars)
  BY <1>3, DeskEnds
<1>4. CASE (\E o \in Oid : GraceEnds(o)) \/ Flag \/ Clock \/ UNCHANGED vars
  <2>1. cOrd' = cOrd /\ cPos' = cPos
    BY <1>4 DEF GraceEnds, Flag, Clock, vars, counter
  <2> QED
    BY <1>3, <2>1
<1>5. CASE Still
  BY <1>0, <1>3, <1>5, StillKeeps
<1> QED
  BY <1>1, <1>2, <1>4, <1>5, DeskFill, DeskTurn, Steps DEF CounterStep

\* The sell side of the pilot, its state file, its reconciliation and its crashes taken
\* away, is the ExitDesk: an offer is made only where none works, for no more than the
\* account holds of the symbol, and only a trade or its end takes it away.
THEOREM SellsAsADesk == ASSUME GoodFaults PROVE Spec => SellsLikeADesk
<1>1. Init => DeskInv
  <2>1. Init => step = "none" /\ \A o \in Oid : cOrd[o].st = "none"
    BY DEF Init, NoSnap, NoOrder
  <2> QED
    BY <2>1, TypeInit, SellInit DEF DeskInv, Unsold, WorkingSell, CLive
<1>2. DeskInv /\ [Next]_vars => DeskInv'
  BY TypeStep, SellStep, UnsoldStep DEF DeskInv
<1>3. Spec => []DeskInv
  BY <1>1, <1>2, PTL DEF Spec
<1>4. Spec => [](DeskInv /\ OfferIs)
  BY <1>3, OfferOfOne, PTL
<1>5. DeskInv /\ OfferIs /\ (DeskInv /\ OfferIs)' /\ [Next]_vars => [Desk!Next]_(Desk!vars)
  BY DeskStep
<1>6. Init /\ OfferIs => Desk!Init
  BY DeskInit
<1> QED
  BY <1>4, <1>5, <1>6, PTL DEF Spec, SellsLikeADesk, Desk!Spec

-----------------------------------------------------------------------------
(***************************************************************************)
(* Working buys.  The proofs need a pilot whose accepted calls do not look *)
(* like failures and that does not chase; answers may lag if the process   *)
(* stays up and orders end with the day, and queries may fail if it does   *)
(* not crash.                                                              *)
(***************************************************************************)
BuyFaults ==
    /\ "lost" \notin Faults /\ ~ChaseEntry
    /\ ~({"crash", "query"} \subseteq Faults)
    /\ "lag" \in Faults => "crash" \notin Faults /\ "overnight" \notin Faults

\* More about what the reconciliation makes of a record.
LEMMA AbsorbKeeps ==
  ASSUME NEW m \in PilotState, NEW sn \in [Oid -> CounterOrder], NEW yg, NEW o \in Oid
  PROVE  LET r == AbsorbOrder(m, sn, yg, o)
         IN  /\ m.ord[o].st # "NONE" => r.st # "NONE" /\ r.day = m.ord[o].day
             /\ sn[o].vis => r.filled = sn[o].filled /\ r.qty = sn[o].qty
             /\ sn[o].vis /\ m.ord[o].st = "NONE" => r.day = sn[o].day
             /\ ~sn[o].vis => /\ r.filled = m.ord[o].filled /\ r.qty = m.ord[o].qty
                              /\ r.st \in {m.ord[o].st, "CANCELLED"}
             /\ ~sn[o].vis /\ m.ord[o].purpose = "OPEN" /\ o \in yg => r = m.ord[o]
             /\ ~sn[o].vis /\ ~Live(m, o) => r = m.ord[o]
<1> DEFINE l == LocalStatus(sn[o].st)
<1>0. l # "NONE"
  BY DEF LocalStatus
<1>1. m.ord[o] \in Order
  BY DEF PilotState
<1>2. CASE sn[o].vis /\ m.ord[o].st = "NONE"
  <2>1. AbsorbOrder(m, sn, yg, o) =
          [sym |-> sn[o].sym, purpose |-> "UNKNOWN", qty |-> sn[o].qty,
           filled |-> sn[o].filled, st |-> l, day |-> sn[o].day]
    BY <1>2, Zenon DEF AbsorbOrder
  <2> HIDE DEF l
  <2> QED
    BY <1>2, <2>1
<1>3. CASE sn[o].vis /\ m.ord[o].st # "NONE"
  <2>1. AbsorbOrder(m, sn, yg, o) =
          [m.ord[o] EXCEPT !.st = l, !.qty = sn[o].qty, !.filled = sn[o].filled]
    BY <1>3, Zenon DEF AbsorbOrder
  <2> HIDE DEF l
  <2>2. /\ AbsorbOrder(m, sn, yg, o).st = l
        /\ AbsorbOrder(m, sn, yg, o).qty = sn[o].qty
        /\ AbsorbOrder(m, sn, yg, o).filled = sn[o].filled
        /\ AbsorbOrder(m, sn, yg, o).day = m.ord[o].day
    BY <1>1, <2>1 DEF Order
  <2> QED
    BY <1>0, <1>3, <2>2
<1>4. CASE ~sn[o].vis
  BY <1>1, <1>4 DEF AbsorbOrder, Order, Live
<1> QED
  BY <1>2, <1>3, <1>4

\* A record is about the order of its number, and a purchase is booked as one.
BuyAbout(m) ==
    \A o \in Oid : m.ord[o].st # "NONE" =>
        /\ cOrd[o].st # "none" /\ m.ord[o].sym = cOrd[o].sym
        /\ cOrd[o].side = "buy" => m.ord[o].purpose \in BuyAmount

NothingYet ==
    "crash" \notin Faults /\ job \in {"down", "boot"} => \A o \in Oid : cOrd[o].st = "none"

KnowsBuys == InStep => \A o \in Oid : WorkingBuy(o) => Live(mem, o)

\* What the queries show: without lag whatever works; with it, an entry that is not
\* shown is young, and its record says it is an entry.
Shown ==
    /\ \A o \in Oid : cOrd[o].vis => cOrd[o].st # "none"
    /\ \A o \in Oid : CLive(o) /\ cOrd[o].side = "buy" =>
          cOrd[o].vis \/ (o \in young /\ "lag" \in Faults)
    /\ "lag" \in Faults => \A o \in Oid : cOrd[o].st # "none" /\ cOrd[o].side = "buy" =>
          mem.ord[o].st # "NONE" /\ mem.ord[o].purpose = "OPEN"

SnapBuys ==
    step = "positions" => \A o \in Oid :
        /\ snap[o].vis => cOrd[o].st # "none" /\ snap[o].sym = cOrd[o].sym
        /\ CLive(o) /\ cOrd[o].side = "buy" =>
              \/ snap[o].vis /\ snap[o].st = "live"
              \/ ~snap[o].vis /\ o \in young /\ "lag" \in Faults

\* What phase 5 still has to buy has no buy under way.
BuyTodo == step \in {"buy", "buy_save"} => \A s \in todo : ~HasOpenBuy(mem, s)

BuyInv ==
    /\ Where /\ NothingYet /\ BuyAbout(mem) /\ BuyAbout(disk)
    /\ KnowsBuys /\ Shown /\ SnapBuys /\ BuyTodo /\ OneWorkingBuy

LEMMA BuyInit == Init => BuyInv
<1> SUFFICES ASSUME Init PROVE BuyInv
  OBVIOUS
<1>1. \A o \in Oid : cOrd[o].st = "none" /\ ~cOrd[o].vis
  BY DEF Init, NoSnap, NoOrder
<1>2. \A o \in Oid : mem.ord[o].st = "NONE" /\ disk.ord[o].st = "NONE"
  BY DEF Init, InitialState
<1>3. step = "none"
  BY DEF Init
<1> QED
  BY <1>1, <1>2, <1>3, WhereInit
     DEF BuyInv, NothingYet, BuyAbout, KnowsBuys, Shown, SnapBuys, BuyTodo, OneWorkingBuy,
         WorkingBuy, CLive

\* The counter moves, a grace or a day ends: orders only end or get shown.
LEMMA BuyCounter ==
  ASSUME BuyFaults, TypeOK, BuyInv, Where',
         CounterStep \/ NewDay \/ (\E o \in Oid : GraceEnds(o)) \/ Flag \/ Clock \/ UNCHANGED vars
  PROVE  BuyInv'
<1>0. cOrd \in Counters
  BY DEF TypeOK, Counters
<1>1. UNCHANGED <<mem, disk, snap, job, step, todo>>
  BY DEF CounterStep, CounterFill, CounterClose, CounterReveal, NewDay, GraceEnds, Flag, Clock,
         vars, pilot, ctl
<1>2. \A o \in Oid : /\ cOrd'[o].sym = cOrd[o].sym /\ cOrd'[o].side = cOrd[o].side
                     /\ cOrd'[o].st = "none" <=> cOrd[o].st = "none"
                     /\ cOrd'[o].creq = cOrd[o].creq
                     /\ cOrd'[o].st = "live" => cOrd[o].st = "live"
                     /\ cOrd'[o].vis => cOrd[o].vis \/ cOrd'[o].st # "none"
  <2>1. CASE CounterStep
    BY <1>0, <2>1 DEF CounterStep, CounterFill, CounterClose, CounterReveal, Counters,
                      CounterOrder, CLive
  <2>2. CASE NewDay
    BY <2>2, DayCloses DEF CLive
  <2>3. CASE (\E o \in Oid : GraceEnds(o)) \/ Flag \/ Clock \/ UNCHANGED vars
    BY <2>3 DEF GraceEnds, Flag, Clock, vars, counter
  <2> QED
    BY <2>1, <2>2, <2>3
<1>3. \A o \in Oid : CLive(o)' /\ cOrd[o].side = "buy" =>
          cOrd'[o].vis \/ (o \in young' /\ "lag" \in Faults)
  <2>1. CASE CounterStep
    <3>1. young' = young /\ \A o \in Oid : CLive(o)' /\ cOrd[o].vis => cOrd'[o].vis
      BY <1>0, <2>1 DEF CounterStep, CounterFill, CounterClose, CounterReveal, Counters,
                        CounterOrder, CLive, world
    <3> QED
      BY <1>2, <3>1 DEF BuyInv, Shown, CLive
  <2>2. CASE NewDay
    BY <2>2, DayCloses DEF BuyFaults, BuyInv, Shown, CLive
  <2>3. ASSUME NEW x \in Oid, GraceEnds(x) PROVE <1>3!:
    BY <2>3 DEF GraceEnds, counter, BuyInv, Shown, CLive
  <2>4. CASE Flag \/ Clock \/ UNCHANGED vars
    BY <2>4 DEF Flag, Clock, vars, counter, world, BuyInv, Shown, CLive
  <2> QED
    BY <2>1, <2>2, <2>3, <2>4
<1>4. step = "positions" => young' = young
  BY DEF CounterStep, CounterFill, CounterClose, CounterReveal, NewDay, Between, GraceEnds, Flag,
         Clock, vars, world, BuyInv, Where
<1>5. NothingYet' /\ BuyAbout(mem)' /\ BuyAbout(disk)' /\ BuyTodo'
  BY <1>1, <1>2 DEF BuyInv, NothingYet, BuyAbout, BuyTodo, HasOpenBuy, Live
<1>6. KnowsBuys' /\ OneWorkingBuy'
  BY <1>1, <1>2 DEF BuyInv, KnowsBuys, OneWorkingBuy, WorkingBuy, CLive, InStep, Live
<1>7. Shown' /\ SnapBuys'
  BY <1>1, <1>2, <1>3, <1>4 DEF BuyInv, Shown, SnapBuys, CLive
<1> QED
  BY <1>5, <1>6, <1>7 DEF BuyInv

\* A turn: an entry is placed where the state knows of no working purchase.
LEMMA BuyTurn ==
  ASSUME BuyFaults, TypeOK, BuyInv, Where', TurnStep
  PROVE  BuyInv'
<1>1. PICK C \in SUBSET Oid, N \in SUBSET FreeOid, s \in Sym, side \in {"buy", "sell"},
           p \in Purpose, q \in Nat : Turn(C, N, s, side, p, q)
  BY Turns
<1>2. Placing(C, N, s, side, p, q) /\ Leaving(C, N) /\ GoesOn /\ N \subseteq Oid
  BY <1>1, MovesFacts DEF Turn, FreeOid
<1>3. /\ job \in {"pre_open", "on_tick"} /\ InStep /\ disk' = disk
      /\ job' \notin {"down", "boot"} /\ step' # "positions"
  BY <1>2 DEF GoesOn, BuyInv, Where, TypeOK, Job, InStep
<1>4. "lost" \notin Faults /\ ~ChaseEntry
  BY DEF BuyFaults
<1>5. ASSUME N # {}, side = "buy"
      PROVE  /\ p = "OPEN" /\ ~HasOpenBuy(mem, s)
             /\ step = "buy" => todo' = todo \ {s}
  BY <1>1, <1>4, <1>5 DEF Turn, MayPlace, BuyInv, BuyTodo, SellSide
<1>6. ASSUME NEW n \in N
      PROVE  /\ mem'.ord[n].sym = s /\ mem'.ord[n].purpose = p /\ mem'.ord[n].st = "SUBMITTED"
             /\ cOrd'[n].sym = s /\ cOrd'[n].side = side /\ cOrd'[n].st = "live"
             /\ cOrd[n].st = "none" /\ cOrd'[n].vis = ("lag" \notin Faults)
  BY <1>2, <1>4 DEF Placing, NewRecord
<1>7. ASSUME NEW o \in Oid, WorkingBuy(o)'
      PROVE  \/ o \in N /\ side = "buy"
             \/ o \notin N /\ o \notin C /\ WorkingBuy(o) /\ Live(mem, o)
                /\ mem.ord[o].sym = cOrd[o].sym /\ mem.ord[o].purpose \in BuyAmount
  <2>1. CASE o \in N
    BY <1>6, <1>7, <2>1 DEF WorkingBuy
  <2>2. CASE o \notin N
    <3>1. WorkingBuy(o) /\ o \notin C
      BY <1>2, <1>7, <2>2 DEF Leaving, WorkingBuy, CLive
    <3>2. Live(mem, o)
      BY <1>3, <3>1 DEF BuyInv, KnowsBuys
    <3> QED
      BY <2>2, <3>1, <3>2 DEF BuyInv, BuyAbout, WorkingBuy, Live
  <2> QED
    BY <2>1, <2>2
<1>8. NothingYet' /\ SnapBuys' /\ BuyAbout(disk)'
  <2>1. \A o \in Oid : disk.ord[o].st # "NONE" => o \notin N
    BY <1>6 DEF BuyInv, BuyAbout
  <2> QED
    BY <1>2, <1>3, <2>1 DEF NothingYet, SnapBuys, BuyInv, BuyAbout, Leaving
<1>9. BuyAbout(mem)'
  <2>1. ASSUME NEW o \in Oid, mem'.ord[o].st # "NONE"
        PROVE  /\ cOrd'[o].st # "none" /\ mem'.ord[o].sym = cOrd'[o].sym
               /\ cOrd'[o].side = "buy" => mem'.ord[o].purpose \in BuyAmount
    <3>1. CASE o \in N
      BY <1>5, <1>6, <3>1 DEF BuyAmount, BuySide
    <3>2. CASE o \notin N
      <4>1. mem.ord[o].st # "NONE"
        BY <1>2, <2>1, <3>2 DEF Leaving, Kept, Live
      <4> QED
        BY <1>2, <3>2, <4>1 DEF Leaving, Kept, BuyInv, BuyAbout
    <3> QED
      BY <3>1, <3>2
  <2> QED
    BY <2>1 DEF BuyAbout
<1>10. KnowsBuys'
  <2>1. ASSUME NEW o \in Oid, WorkingBuy(o)' PROVE Live(mem, o)'
    <3>1. CASE o \in N
      BY <1>6, <3>1 DEF Live
    <3>2. CASE o \notin N
      BY <1>2, <1>7, <2>1, <3>2 DEF Leaving, Kept, Live
    <3> QED
      BY <3>1, <3>2
  <2> QED
    BY <2>1 DEF KnowsBuys
<1>11. Shown'
  <2>1. ASSUME NEW o \in Oid, cOrd'[o].vis PROVE cOrd'[o].st # "none"
    BY <1>2, <1>6, <2>1 DEF Leaving, BuyInv, Shown
  <2>2. ASSUME NEW o \in Oid, CLive(o)', cOrd'[o].side = "buy"
        PROVE  cOrd'[o].vis \/ (o \in young' /\ "lag" \in Faults)
    <3>1. CASE o \in N
      BY <1>2, <1>6, <3>1 DEF Placing
    <3>2. CASE o \notin N
      BY <1>2, <2>2, <3>2 DEF Placing, Leaving, BuyInv, Shown, CLive
    <3> QED
      BY <3>1, <3>2
  <2>3. ASSUME "lag" \in Faults, NEW o \in Oid, cOrd'[o].st # "none", cOrd'[o].side = "buy"
        PROVE  mem'.ord[o].st # "NONE" /\ mem'.ord[o].purpose = "OPEN"
    <3>1. CASE o \in N
      BY <1>5, <1>6, <2>3, <3>1
    <3>2. CASE o \notin N
      BY <1>2, <2>3, <3>2 DEF Leaving, Kept, BuyInv, Shown, Live
    <3> QED
      BY <3>1, <3>2
  <2> QED
    BY <2>1, <2>2, <2>3 DEF Shown
<1>12. BuyTodo'
  <2>1. SUFFICES ASSUME step' \in {"buy", "buy_save"}, NEW x \in todo', NEW o \in Oid,
                        mem'.ord[o].st = "SUBMITTED", mem'.ord[o].sym = x,
                        mem'.ord[o].purpose \in BuyAmount
                 PROVE  FALSE
    BY DEF BuyTodo, HasOpenBuy, Live
  <2>2. step = "buy" /\ C = {}
    <3>1. step = "buy"
      BY <1>2, <2>1 DEF GoesOn
    <3> QED
      BY <1>1, <3>1 DEF Turn, MayCancel
  <2>3. x \in todo
    BY <1>2, <2>1, <2>2 DEF GoesOn
  <2>4. CASE o \in N
    <3>1. side = "buy" /\ x = s
      BY <1>1, <1>6, <2>1, <2>2, <2>4 DEF Turn, MayPlace
    <3> QED
      BY <1>5, <2>1, <2>2, <2>4, <3>1
  <2>5. CASE o \notin N
    <3>1. Live(mem, o) /\ mem.ord[o].sym = x /\ mem.ord[o].purpose \in BuyAmount
      BY <1>2, <2>1, <2>2, <2>5 DEF Leaving, Kept, Live
    <3> QED
      BY <2>2, <2>3, <3>1 DEF BuyInv, BuyTodo, HasOpenBuy
  <2> QED
    BY <2>4, <2>5
<1>13. OneWorkingBuy'
  <2>1. SUFFICES ASSUME NEW o \in Oid, NEW k \in Oid, WorkingBuy(o)', WorkingBuy(k)',
                        cOrd'[o].sym = cOrd'[k].sym
                 PROVE  o = k
    BY DEF OneWorkingBuy
  <2>2. ASSUME NEW x \in Oid, NEW y \in Oid, x \in N, side = "buy", y \notin N,
               WorkingBuy(y), Live(mem, y), mem.ord[y].sym = cOrd[y].sym,
               mem.ord[y].purpose \in BuyAmount, cOrd'[x].sym = cOrd'[y].sym
        PROVE  FALSE
    <3>1. cOrd'[y].sym = cOrd[y].sym
      BY <1>2, <2>2 DEF Leaving
    <3> QED
      BY <1>5, <1>6, <2>2, <3>1 DEF HasOpenBuy
  <2>3. CASE o \in N /\ k \in N
    BY <1>2, <2>3 DEF Placing
  <2>4. CASE o \notin N /\ k \notin N
    BY <1>2, <1>7, <2>1, <2>4 DEF Leaving, BuyInv, OneWorkingBuy
  <2> QED
    BY <1>7, <2>1, <2>2, <2>3, <2>4
<1> QED
  BY <1>8, <1>9, <1>10, <1>11, <1>12, <1>13 DEF BuyInv

\* The reconciliation: what works is seen working, or it is young and its record stays.
LEMMA BuyAbsorb ==
  ASSUME BuyFaults, TypeOK, BuyInv, Where', GetPositions
  PROVE  BuyInv'
<1>1. /\ step = "positions" /\ cOrd' = cOrd /\ young' = young /\ job' = job /\ disk' = mem'
      /\ mem' = Absorb(mem, snap, cPos, young) /\ step' \in {"subscribe", "cancel", "pending"}
  BY DEF GetPositions, counter, world, AfterReconcile
<1>2. \A o \in Oid : mem'.ord[o] = AbsorbOrder(mem, snap, young, o)
  BY <1>1, AbsorbType DEF TypeOK
<1>3. mem \in PilotState /\ snap \in [Oid -> CounterOrder] /\ job \in Job
  BY DEF TypeOK
<1>4. ASSUME NEW o \in Oid
      PROVE  /\ mem.ord[o].st # "NONE" => /\ mem'.ord[o].st # "NONE"
                                          /\ mem'.ord[o].sym = mem.ord[o].sym
                                          /\ mem'.ord[o].purpose = mem.ord[o].purpose
             /\ mem.ord[o].st = "NONE" /\ snap[o].vis => /\ mem'.ord[o].sym = snap[o].sym
                                                         /\ mem'.ord[o].purpose = "UNKNOWN"
             /\ mem.ord[o].st = "NONE" /\ ~snap[o].vis => mem'.ord[o].st = "NONE"
  BY <1>2, <1>3, AbsorbOrderFacts, AbsorbKeeps
<1>5. BuyAbout(mem)' /\ BuyAbout(disk)'
  <2>1. ASSUME NEW o \in Oid, mem'.ord[o].st # "NONE"
        PROVE  /\ cOrd[o].st # "none" /\ mem'.ord[o].sym = cOrd[o].sym
               /\ cOrd[o].side = "buy" => mem'.ord[o].purpose \in BuyAmount
    BY <1>1, <1>4, <2>1 DEF BuyInv, BuyAbout, SnapBuys, BuyAmount
  <2> QED
    BY <1>1, <2>1 DEF BuyAbout
<1>6. KnowsBuys'
  <2>1. ASSUME NEW o \in Oid, WorkingBuy(o) PROVE mem'.ord[o].st = "SUBMITTED"
    <3>1. CASE snap[o].vis /\ snap[o].st = "live"
      BY <1>2, <1>3, <3>1, LocalStatusLive, AbsorbOrderFacts
    <3>2. CASE ~snap[o].vis /\ o \in young /\ "lag" \in Faults
      <4>1. mem'.ord[o] = mem.ord[o]
        <5>1. mem.ord[o].purpose = "OPEN"
          BY <2>1, <3>2 DEF BuyInv, Shown, WorkingBuy, CLive
        <5> QED
          BY <1>2, <1>3, <3>2, <5>1, AbsorbKeeps
      <4>2. CASE InStep
        BY <2>1, <4>1, <4>2 DEF BuyInv, KnowsBuys, Live
      <4>3. CASE ~InStep
        <5>1. "crash" \notin Faults /\ job \in {"down", "boot"}
          BY <3>2, <4>3 DEF BuyFaults, InStep
        <5> QED
          BY <2>1, <5>1 DEF BuyInv, NothingYet, WorkingBuy, CLive
      <4> QED
        BY <4>2, <4>3
    <3> QED
      BY <1>1, <2>1, <3>1, <3>2 DEF BuyInv, SnapBuys, WorkingBuy
  <2> QED
    BY <1>1, <2>1 DEF KnowsBuys, WorkingBuy, CLive, Live
<1>7. Shown'
  BY <1>1, <1>4 DEF BuyInv, Shown, CLive
<1>8. NothingYet' /\ SnapBuys' /\ BuyTodo' /\ OneWorkingBuy'
  BY <1>1 DEF BuyInv, NothingYet, SnapBuys, BuyTodo, OneWorkingBuy, WorkingBuy, CLive
<1> QED
  BY <1>5, <1>6, <1>7, <1>8 DEF BuyInv

\* The scan takes symbols that are free.
LEMMA ScanTakes ==
  ASSUME PreOpenScan
  PROVE  /\ step = "expire" /\ step' = "buy" /\ job' = job /\ vol' = cPos /\ disk' = mem
         /\ young' = young /\ todo' \subseteq {s \in Sym : Signalable(s)}
<1>1. /\ step = "expire" /\ step' = "buy" /\ vol' = cPos /\ disk' = mem
      /\ UNCHANGED <<counter, world, sub, fired, job, tick, snap, oids>>
  BY Zenon DEF PreOpenScan
<1>w. job' = job /\ young' = young
  BY <1>1 DEF world
<1> DEFINE F == {s \in Sym : Signalable(s)}
<1>2. ASSUME todo' # {} PROVE todo' \subseteq F
  <2>1. PICK S \in SUBSET F : todo' \in IF blocked THEN {{}} ELSE AmihudKeeps(S)
    BY <1>2, Zenon DEF PreOpenScan
  <2> HIDE DEF F
  <2>2. todo' \in AmihudKeeps(S)
    BY <1>2, <2>1
  <2>3. todo' \subseteq S
    BY <2>2 DEF AmihudKeeps
  <2> QED
    BY <2>1, <2>3
<1>3. todo' \subseteq F
  BY <1>2, Zenon
<1> QED
  BY <1>1, <1>w, <1>3, Zenon

\* The other steps of the process neither place nor cancel.
LEMMA BuyStill ==
  ASSUME BuyFaults, TypeOK, BuyInv, Where', Still, ~GetPositions
  PROVE  BuyInv'
<1>1. /\ cOrd' = cOrd
      /\ \/ mem' = disk /\ job' \in {"down", "boot"}
         \/ mem'.ord = mem.ord
      /\ disk' \in {disk, mem, mem'}
  BY StillKeeps
<1>2. BuyAbout(mem)' /\ BuyAbout(disk)' /\ OneWorkingBuy'
  BY <1>1 DEF BuyInv, BuyAbout, OneWorkingBuy, WorkingBuy, CLive
<1>3. CASE Crash \/ Start
  <2>1. /\ mem' = disk /\ step' \in {"none", "orders"} /\ young' = young
        /\ job' \in {"down", "boot"} /\ ~InStep'
        /\ "crash" \notin Faults => job = "down"
    BY <1>3 DEF Crash, Start, world, InStep
  <2>2. NothingYet' /\ KnowsBuys' /\ SnapBuys' /\ BuyTodo'
    BY <1>1, <2>1 DEF BuyInv, NothingYet, KnowsBuys, SnapBuys, BuyTodo
  <2>3. "lag" \in Faults => \A o \in Oid : cOrd[o].st = "none"
    BY <2>1 DEF BuyFaults, BuyInv, NothingYet
  <2>4. Shown'
    BY <1>1, <2>1, <2>3 DEF BuyInv, Shown, CLive
  <2> QED
    BY <1>2, <2>2, <2>4 DEF BuyInv
<1>4. CASE ~Crash /\ ~Start
  <2>w. Where /\ job \in Job
    BY DEF BuyInv, TypeOK
  <2>1. mem'.ord = mem.ord /\ young' = young
    <3>1. CASE PreOpenJob \/ PreOpenScan \/ AfterClose
      <4>1. job' \notin {"down", "boot"} /\ young' = young
        BY <2>w, <3>1, ScanTakes DEF PreOpenJob, AfterClose, ctl, world, Where
      <4> QED
        BY <1>1, <4>1
    <3>2. CASE ~(PreOpenJob \/ PreOpenScan \/ AfterClose)
      <4>1. mem' = mem /\ young' = young
        BY <1>4, <3>2 DEF Still, BootSubscribe, GetOrders, QueryFails, SaveOrder,
           PreOpenQuery, PreOpenDuplicates, PreOpenOverdue, PreOpenRepairs, PreOpenEnd,
           Repair, TickStart, TickSave, world
      <4> QED
        BY <4>1
    <3> QED
      BY <3>1, <3>2
  <2>2. Shown' /\ (InStep => KnowsBuys')
    BY <1>1, <2>1 DEF BuyInv, Shown, KnowsBuys, WorkingBuy, CLive, Live
  <2>3. CASE QueryFails
    <3>1. /\ "crash" \notin Faults /\ job' = job
          /\ step' \notin {"positions", "buy", "buy_save"}
          /\ InStep \/ job \in {"down", "boot"}
      BY <2>3 DEF QueryFails, BuyFaults, AfterReconcile, InStep
    <3>2. KnowsBuys'
      BY <1>1, <2>2, <3>1 DEF BuyInv, NothingYet, KnowsBuys, WorkingBuy, CLive
    <3>3. NothingYet' /\ SnapBuys' /\ BuyTodo'
      BY <1>1, <3>1 DEF BuyInv, NothingYet, SnapBuys, BuyTodo
    <3> QED
      BY <1>2, <2>2, <3>2, <3>3 DEF BuyInv
  <2>4. CASE ~QueryFails
    <3>1. (InStep' => InStep) /\ (job' \in {"down", "boot"} => job \in {"down", "boot"})
      BY <1>4, <2>w, <2>4, ScanTakes DEF Still, BootSubscribe, GetOrders, SaveOrder,
         GetPositions, PreOpenJob, PreOpenQuery, PreOpenDuplicates, PreOpenOverdue,
         PreOpenRepairs, PreOpenEnd, Repair, TickStart, TickSave, AfterClose, Idle, ctl, InStep, Where
    <3>2. KnowsBuys' /\ NothingYet'
      BY <1>1, <2>2, <3>1 DEF BuyInv, NothingYet, KnowsBuys
    <3>3. SnapBuys'
      <4>1. CASE GetOrders
        <5>1. /\ \A o \in Oid : snap'[o] = IF cOrd[o].vis THEN cOrd[o] ELSE NoOrder
              /\ cOrd' = cOrd /\ young' = young /\ ~NoOrder.vis
          BY <4>1 DEF GetOrders, NoOrder, counter, world
        <5> QED
          BY <5>1 DEF SnapBuys, BuyInv, Shown, CLive
      <4>2. CASE ~GetOrders
        <5>1. step' # "positions"
          BY <1>4, <2>w, <2>4, <4>2, ScanTakes DEF Still, BootSubscribe, SaveOrder, PreOpenJob,
             PreOpenQuery, PreOpenDuplicates, PreOpenOverdue, PreOpenRepairs, PreOpenEnd,
             Repair, TickStart, TickSave, AfterClose, Idle, ctl, Where
        <5> QED
          BY <5>1 DEF SnapBuys
      <4> QED
        BY <4>1, <4>2
    <3>4. BuyTodo'
      <4>1. \A s \in Sym : HasOpenBuy(mem, s)' = HasOpenBuy(mem, s)
        BY <2>1 DEF HasOpenBuy, Live
      <4>2. CASE PreOpenScan
        <5>1. todo' \subseteq {s \in Sym : Signalable(s)}
          BY <4>2, ScanTakes
        <5> QED
          BY <4>1, <5>1 DEF BuyTodo, Signalable
      <4>3. CASE ~PreOpenScan
        <5>1. step' \in {"buy", "buy_save"} =>
                 todo' = {} \/ (step \in {"buy", "buy_save"} /\ todo' = todo)
          BY <1>4, <2>w, <2>4, <4>3 DEF Still, BootSubscribe, GetOrders, SaveOrder, PreOpenJob,
             PreOpenQuery, PreOpenDuplicates, PreOpenOverdue, PreOpenRepairs, PreOpenEnd,
             Repair, TickStart, TickSave, AfterClose, Idle, ctl, Where
        <5>2. todo \subseteq Sym
          BY DEF TypeOK
        <5> QED
          BY <4>1, <5>1, <5>2 DEF BuyInv, BuyTodo
      <4> QED
        BY <4>2, <4>3
    <3> QED
      BY <1>2, <2>2, <3>2, <3>3, <3>4 DEF BuyInv
  <2> QED
    BY <2>3, <2>4
<1> QED
  BY <1>3, <1>4

LEMMA BuyStep ==
  ASSUME BuyFaults, TypeOK, BuyInv, [Next]_vars
  PROVE  BuyInv'
<1>1. Where'
  BY WhereStep DEF BuyInv
<1> QED
  BY <1>1, Steps, BuyCounter, BuyTurn, BuyAbsorb, BuyStill

\* A symbol never has two working buys, however often the scan, the repair and a
\* restart come round to it, if no accepted call looks like a failure and the pilot does
\* not chase: the answers may lag behind the orders, orders may survive the night, the
\* process may crash and queries may fail, within BuyFaults.  (A chase is placed while
\* the cancel of its entry is under way.)
THEOREM OneBuyEach == ASSUME BuyFaults PROVE Spec => []OneWorkingBuy
<1>1. Init => TypeOK /\ BuyInv
  BY TypeInit, BuyInit
<1>2. TypeOK /\ BuyInv /\ [Next]_vars => (TypeOK /\ BuyInv)'
  BY TypeStep, BuyStep
<1>3. TypeOK /\ BuyInv => OneWorkingBuy
  BY DEF BuyInv
<1> QED
  BY <1>1, <1>2, <1>3, PTL DEF Spec

-----------------------------------------------------------------------------
(***************************************************************************)
(* The buys of the day.  The proofs need, besides, a pilot that does not   *)
(* crash and that keeps its entries of the day: no price of cancellation,  *)
(* and a wait of at least one day.                                         *)
(***************************************************************************)
TodayFaults == BuyFaults /\ "crash" \notin Faults /\ CancelPx = 0 /\ MaxWait >= 1

OfToday(o) == cOrd[o].st # "none" /\ cOrd[o].side = "buy" /\ cOrd[o].day = day

\* The counter numbers its orders in the order of their days.
Numbered ==
    /\ \A o \in Oid : cOrd[o].st # "none" => cOrd[o].day <= day
    /\ \A o, k \in Oid : o < k /\ cOrd[k].st # "none" =>
          cOrd[o].st # "none" /\ cOrd[o].day <= cOrd[k].day

\* A record has the day of its order, and what is booked as an entry buys.
Dated ==
    \A o \in Oid : mem.ord[o].st # "NONE" =>
        /\ mem.ord[o].day = cOrd[o].day
        /\ mem.ord[o].purpose \in BuySide => cOrd[o].side = "buy"

\* A buy of the day is an entry nobody cancels; the state counts it whenever the
\* counter does; the queries show it, unless it is young or dead.
Untouched ==
    \A o \in Oid : OfToday(o) =>
        /\ ~cOrd[o].creq /\ mem.ord[o].st # "NONE" /\ mem.ord[o].purpose = "OPEN"
        /\ cOrd[o].filled > 0 => mem.ord[o].filled > 0 \/ Live(mem, o)
        /\ cOrd[o].st = "dead" => cOrd[o].filled = 0
        /\ cOrd[o].st = "filled" => cOrd[o].filled > 0
        /\ cOrd[o].vis \/ o \in young \/ cOrd[o].st = "dead"

\* No symbol has two entries of the day that the state takes for working.
Single ==
    \A o, k \in Oid :
        OfToday(o) /\ OfToday(k) /\ cOrd[o].sym = cOrd[k].sym /\ Live(mem, o) /\ Live(mem, k)
            => o = k

\* The answer of get_orders about the buys of the day.
SnapToday ==
    step = "positions" => \A o \in Oid :
        /\ snap[o].vis => snap[o].day = cOrd[o].day
        /\ OfToday(o) =>
              /\ snap[o].vis => snap[o].st # "none"
              /\ snap[o].vis /\ snap[o].st = "live" => Live(mem, o)
              /\ snap[o].vis /\ snap[o].st = "filled" => snap[o].filled > 0
              /\ snap[o].vis /\ snap[o].st = "dead" => cOrd[o].st = "dead"
              /\ ~snap[o].vis => o \in young \/ cOrd[o].st = "dead"

\* The counter's effective buys of the day.
Counted == {o \in Oid : OfToday(o) /\ (CLive(o) \/ cOrd[o].filled > 0)}

TodayInv ==
    /\ Numbered /\ Dated /\ Untouched /\ Single /\ SnapToday
    /\ Cardinality(Counted) <= MaxNew

LEMMA CountedIsLimit == Cardinality(Counted) <= MaxNew <=> DailyLimit
<1>1. Counted = {o \in Oid : /\ cOrd[o].st # "none" /\ cOrd[o].side = "buy"
                             /\ cOrd[o].day = day
                             /\ CLive(o) \/ cOrd[o].filled > 0}
  BY DEF Counted, OfToday
<1> QED
  BY <1>1, Zenon DEF DailyLimit

LEMMA TodayInit == Init => TodayInv
<1> SUFFICES ASSUME Init PROVE TodayInv
  OBVIOUS
<1>1. \A o \in Oid : cOrd[o].st = "none"
  BY DEF Init, NoSnap, NoOrder
<1>2. \A o \in Oid : mem.ord[o].st = "NONE"
  BY DEF Init, InitialState
<1>3. step = "none"
  BY DEF Init
<1>4. Counted = {}
  BY <1>1 DEF Counted, OfToday
<1>5. Cardinality(Counted) <= MaxNew
  <2>1. Cardinality(Counted) = 0
    BY <1>4, FS_EmptySet, Zenon
  <2>2. MaxNew \in Nat
    BY LedgerAssumption
  <2> QED
    BY <2>1, <2>2
<1>6. \A o \in Oid : ~OfToday(o)
  BY <1>1 DEF OfToday
<1>7. Numbered /\ Dated
  BY <1>1, <1>2 DEF Numbered, Dated
<1>8. Untouched /\ Single
  BY <1>6 DEF Untouched, Single
<1>9. SnapToday
  BY <1>3 DEF SnapToday
<1> QED
  BY <1>5, <1>7, <1>8, <1>9, Zenon DEF TodayInv

LEMMA FewerCounted ==
  ASSUME Cardinality(Counted) <= MaxNew, Counted' \subseteq Counted
  PROVE  Cardinality(Counted)' <= MaxNew
<1>1. IsFiniteSet(Counted) /\ IsFiniteSet(Counted')
  <2>1. IsFiniteSet(Oid)
    BY FS_Interval, LedgerAssumption DEF Oid
  <2>2. Counted \subseteq Oid
    BY DEF Counted
  <2> QED
    BY <2>1, <2>2, FS_Subset
<1>2. Cardinality(Counted') <= Cardinality(Counted) /\ Cardinality(Counted) \in Nat
      /\ Cardinality(Counted') \in Nat
  BY <1>1, FS_Subset, FS_CardinalityType
<1> QED
  BY <1>2, LedgerAssumption

LEMMA DayTurns ==
  ASSUME NewDay
  PROVE  /\ job \in {"idle", "down"} /\ day' = day + 1 /\ young' = {}
         /\ UNCHANGED <<cPos, mem, disk, snap, job, step, oids, todo>>
<1>1. /\ job \in {"idle", "down"} /\ day' = day + 1 /\ young' = {}
      /\ UNCHANGED <<cPos, blocked, crashes, pilot>>
  BY Zenon DEF NewDay, Between
<1> QED
  BY <1>1 DEF pilot, ctl

\* The counter moves, a grace or a day ends.
LEMMA TodayCounter ==
  ASSUME TodayFaults, TypeOK, BuyInv, TodayInv,
         CounterStep \/ NewDay \/ (\E o \in Oid : GraceEnds(o)) \/ Flag \/ Clock \/ UNCHANGED vars
  PROVE  TodayInv'
<1>0. cOrd \in Counters /\ day \in Nat /\ oids \subseteq Oid
  BY DEF TypeOK, Counters
<1>1. UNCHANGED <<mem, disk, snap, job, step, oids>>
  <2>1. CASE CounterStep
    BY <2>1 DEF CounterStep, CounterFill, CounterClose, CounterReveal, pilot, ctl
  <2>2. CASE (\E o \in Oid : GraceEnds(o)) \/ Flag \/ Clock \/ UNCHANGED vars
    BY <2>2 DEF GraceEnds, Flag, Clock, vars, pilot, ctl
  <2> QED
    BY <2>1, <2>2, DayTurns
<1>2. CASE NewDay
  <2>1. day' = day + 1 /\ step = "none"
    BY <1>2, DayTurns DEF BuyInv, Where
  <2>2. \A o \in Oid : /\ cOrd'[o].side = cOrd[o].side /\ cOrd'[o].day = cOrd[o].day
                       /\ cOrd'[o].st = "none" <=> cOrd[o].st = "none"
    BY <1>2, DayCloses DEF CLive
  <2>3. \A o \in Oid : ~OfToday(o)'
    BY <1>0, <2>1, <2>2 DEF TodayInv, Numbered, OfToday, Counters, CounterOrder
  <2>4. Counted' \subseteq Counted
    BY <2>3 DEF Counted
  <2>5. Numbered'
    BY <1>0, <2>1, <2>2 DEF TodayInv, Numbered, Counters, CounterOrder
  <2>6. Dated'
    BY <1>1, <2>2 DEF TodayInv, Dated
  <2>7. Untouched' /\ Single'
    BY <2>3 DEF Untouched, Single
  <2>8. SnapToday'
    BY <1>1, <2>1 DEF SnapToday
  <2> QED
    BY <2>4, <2>5, <2>6, <2>7, <2>8, FewerCounted DEF TodayInv
<1>3. CASE CounterStep
  <2>1. day' = day /\ young' = young
    BY <1>3 DEF CounterStep, CounterFill, CounterClose, CounterReveal, world
  <2>2. \A o \in Oid :
          /\ cOrd'[o].sym = cOrd[o].sym /\ cOrd'[o].side = cOrd[o].side
          /\ cOrd'[o].day = cOrd[o].day /\ cOrd'[o].creq = cOrd[o].creq
          /\ cOrd'[o].st = "none" <=> cOrd[o].st = "none"
          /\ cOrd'[o].st = "live" => cOrd[o].st = "live"
          /\ cOrd[o].vis => cOrd'[o].vis
          /\ cOrd[o].st = "dead" => cOrd'[o].st = "dead"
          /\ cOrd'[o].filled > 0 => cOrd[o].filled > 0 \/ cOrd[o].st = "live"
          /\ cOrd'[o].st = "filled" => cOrd[o].st = "filled" \/ cOrd'[o].filled > 0
          /\ cOrd'[o].filled >= cOrd[o].filled
          /\ cOrd'[o].st = "dead" => \/ cOrd[o].st = "dead" /\ cOrd'[o].filled = cOrd[o].filled
                                     \/ cOrd[o].creq
                                     \/ cOrd'[o].filled = 0
    <3>1. ASSUME NEW x \in Oid, CounterFill(x) PROVE <2>2!:
      <4>1. /\ \A o \in Oid : o # x => cOrd'[o] = cOrd[o]
            /\ cOrd'[x].filled = cOrd[x].filled + 1 /\ cOrd'[x].st \in {"filled", "live"}
            /\ cOrd'[x].sym = cOrd[x].sym /\ cOrd'[x].side = cOrd[x].side
            /\ cOrd'[x].day = cOrd[x].day /\ cOrd'[x].creq = cOrd[x].creq
            /\ cOrd'[x].vis = cOrd[x].vis /\ cOrd[x].st = "live"
        BY <1>0, <3>1 DEF CounterFill, Counters, CounterOrder, CLive
      <4>2. \A o \in Oid : cOrd[o].filled \in Nat
        BY <1>0 DEF Counters, CounterOrder
      <4> QED
        BY <4>1, <4>2
    <3>2. ASSUME NEW x \in Oid, CounterClose(x) PROVE <2>2!:
      <4>1. /\ \A o \in Oid : o # x => cOrd'[o] = cOrd[o]
            /\ cOrd'[x].filled = cOrd[x].filled /\ cOrd'[x].st = "dead"
            /\ cOrd'[x].sym = cOrd[x].sym /\ cOrd'[x].side = cOrd[x].side
            /\ cOrd'[x].day = cOrd[x].day /\ cOrd'[x].creq = cOrd[x].creq
            /\ cOrd'[x].vis = cOrd[x].vis /\ cOrd[x].st = "live"
            /\ cOrd[x].creq \/ cOrd[x].filled = 0
        BY <1>0, <3>2 DEF CounterClose, Counters, CounterOrder, CLive
      <4>2. \A o \in Oid : cOrd[o].filled \in Nat
        BY <1>0 DEF Counters, CounterOrder
      <4> QED
        BY <4>1, <4>2
    <3>3. ASSUME NEW x \in Oid, CounterReveal(x) PROVE <2>2!:
      <4>1. /\ \A o \in Oid : o # x => cOrd'[o] = cOrd[o]
            /\ cOrd'[x].filled = cOrd[x].filled /\ cOrd'[x].st = cOrd[x].st
            /\ cOrd'[x].sym = cOrd[x].sym /\ cOrd'[x].side = cOrd[x].side
            /\ cOrd'[x].day = cOrd[x].day /\ cOrd'[x].creq = cOrd[x].creq /\ cOrd'[x].vis
        BY <1>0, <3>3 DEF CounterReveal, Counters, CounterOrder
      <4>2. \A o \in Oid : cOrd[o].filled \in Nat
        BY <1>0 DEF Counters, CounterOrder
      <4> QED
        BY <4>1, <4>2
    <3> QED
      BY <1>3, <3>1, <3>2, <3>3 DEF CounterStep
  <2>3. \A o \in Oid : OfToday(o)' <=> OfToday(o)
    BY <2>1, <2>2 DEF OfToday
  <2>f. \A o \in Oid : cOrd[o].filled \in Nat /\ cOrd'[o].filled \in Nat
    BY <1>0, <1>3 DEF CounterStep, CounterFill, CounterClose, CounterReveal, Counters, CounterOrder
  <2>4. Untouched'
    <3>1. ASSUME NEW o \in Oid, OfToday(o), CLive(o) PROVE Live(mem, o)
      BY <3>1 DEF TodayFaults, TodayInv, Untouched, WorkingBuy, OfToday, BuyInv, KnowsBuys,
                  NothingYet, InStep, CLive
    <3>2. ASSUME NEW o \in Oid, OfToday(o)
          PROVE  /\ ~cOrd'[o].creq /\ mem.ord[o].st # "NONE" /\ mem.ord[o].purpose = "OPEN"
                 /\ cOrd'[o].filled > 0 => mem.ord[o].filled > 0 \/ Live(mem, o)
                 /\ cOrd'[o].st = "dead" => cOrd'[o].filled = 0
                 /\ cOrd'[o].st = "filled" => cOrd'[o].filled > 0
                 /\ cOrd'[o].vis \/ o \in young \/ cOrd'[o].st = "dead"
      <4>1. /\ ~cOrd[o].creq /\ mem.ord[o].st # "NONE" /\ mem.ord[o].purpose = "OPEN"
            /\ cOrd[o].filled > 0 => mem.ord[o].filled > 0 \/ Live(mem, o)
            /\ cOrd[o].st = "dead" => cOrd[o].filled = 0
            /\ cOrd[o].st = "filled" => cOrd[o].filled > 0
            /\ cOrd[o].vis \/ o \in young \/ cOrd[o].st = "dead"
        BY <3>2 DEF TodayInv, Untouched
      <4> QED
        BY <2>2, <2>f, <3>1, <3>2, <4>1 DEF CLive
    <3> QED
      BY <1>1, <2>1, <2>3, <3>2 DEF Untouched, Live
  <2>5. Numbered' /\ Dated'
    BY <1>1, <2>1, <2>2 DEF TodayInv, Numbered, Dated
  <2>7. Single'
    BY <1>0, <1>1, <2>2, <2>3 DEF TodayInv, Single, Live
  <2>8. SnapToday'
    BY <1>1, <2>1, <2>2, <2>3 DEF TodayInv, SnapToday, Live
  <2>6. Counted' \subseteq Counted
    BY <2>2, <2>3 DEF Counted, CLive
  <2> QED
    BY <2>4, <2>5, <2>6, <2>7, <2>8, FewerCounted DEF TodayInv
<1>4. CASE (\E o \in Oid : GraceEnds(o)) \/ Flag \/ Clock \/ UNCHANGED vars
  <2>1. /\ cOrd' = cOrd /\ day' = day /\ (step = "positions" => young' = young)
        /\ \A o \in Oid : o \in young => o \in young' \/ cOrd[o].vis \/ cOrd[o].st = "dead"
    BY <1>4 DEF GraceEnds, Flag, Clock, vars, counter, world
  <2>2. \A o \in Oid : OfToday(o)' <=> OfToday(o)
    BY <2>1 DEF OfToday
  <2>3. Counted' \subseteq Counted
    BY <2>1, <2>2 DEF Counted, CLive
  <2>4. Numbered' /\ Dated'
    BY <1>1, <2>1 DEF TodayInv, Numbered, Dated
  <2>5. Untouched'
    BY <1>1, <2>1, <2>2 DEF TodayInv, Untouched, Live
  <2>6. Single'
    BY <1>0, <1>1, <2>1, <2>2 DEF TodayInv, Single, Live
  <2>7. SnapToday'
    BY <1>1, <2>1, <2>2 DEF TodayInv, SnapToday, Live
  <2> QED
    BY <2>3, <2>4, <2>5, <2>6, <2>7, FewerCounted DEF TodayInv
<1> QED
  BY <1>2, <1>3, <1>4

\* What the counter counts, the state counts.
LEMMA CountedIsKnown ==
  ASSUME TypeOK, BuyInv, TodayInv, InStep
  PROVE  Counted \subseteq Effective(mem, day)
<1>1. ASSUME NEW o \in Oid, OfToday(o), CLive(o) \/ cOrd[o].filled > 0
      PROVE  o \in Effective(mem, day)
  <2>1. /\ mem.ord[o].st # "NONE" /\ mem.ord[o].purpose = "OPEN" /\ mem.ord[o].day = day
        /\ cOrd[o].filled > 0 => mem.ord[o].filled > 0 \/ Live(mem, o)
    BY <1>1 DEF TodayInv, Untouched, Dated, OfToday
  <2>2. CLive(o) => Live(mem, o)
    BY <1>1 DEF TodayInv, Untouched, OfToday, BuyInv, KnowsBuys, WorkingBuy
  <2> QED
    BY <1>1, <2>1, <2>2 DEF Effective, BuySide
<1> QED
  BY <1>1 DEF Counted

\* No turn cancels a buy of the day.
LEMMA TodayStays ==
  ASSUME TodayFaults, TypeOK, BuyInv, TodayInv, Passing, NEW o \in Oid, OfToday(o)
  PROVE  ~MayCancel(o)
<1>1. mem.ord[o].st # "NONE" /\ mem.ord[o].day = day
  BY DEF TodayInv, Untouched, Dated, OfToday
<1>2. ASSUME NEW k \in Oid, o < k, Live(mem, o), Live(mem, k), mem.ord[k].purpose = "OPEN",
             mem.ord[k].sym = mem.ord[o].sym
      PROVE  FALSE
  <2>1. /\ cOrd[k].st # "none" /\ cOrd[k].side = "buy" /\ cOrd[k].sym = cOrd[o].sym
    BY <1>1, <1>2 DEF BuyInv, BuyAbout, TodayInv, Dated, Live, BuySide
  <2>2. cOrd[k].day = day
    <3>1. cOrd[o].day <= cOrd[k].day /\ cOrd[k].day <= day /\ cOrd[o].day = day
      BY <1>2, <2>1 DEF TodayInv, Numbered, OfToday
    <3>2. cOrd[k].day \in Nat /\ day \in Nat
      BY DEF TypeOK, CounterOrder
    <3> QED
      BY <3>1, <3>2
  <2>3. o = k
    BY <1>2, <2>1, <2>2 DEF TodayInv, Single, OfToday
  <2> QED
    BY <1>2, <2>3 DEF Oid
<1>3. \A today \in Today(mem.ord[o].day - 1) :
         DecidePending(tick.px, mem.ord[o], today) = "keep"
  <2>1. day \in Nat /\ MaxWait \in Nat
    BY LedgerAssumption DEF TypeOK
  <2> QED
    BY <1>1, <2>1 DEF DecidePending, Today, TodayFaults
<1>4. step \in {"yesterday", "duplicates"} => o \notin oids
  BY <1>2 DEF Passing, OfToday
<1> QED
  BY <1>3, <1>4 DEF MayCancel

LEMMA TodayTurn ==
  ASSUME TodayFaults, TypeOK, BuyInv, TodayInv, Passing, TurnStep
  PROVE  TodayInv'
<1>1. PICK C \in SUBSET Oid, N \in SUBSET FreeOid, s \in Sym, side \in {"buy", "sell"},
           p \in Purpose, q \in Nat : Turn(C, N, s, side, p, q)
  BY Turns
<1>2. Placing(C, N, s, side, p, q) /\ Leaving(C, N) /\ GoesOn /\ N \subseteq Oid
  BY <1>1, MovesFacts DEF Turn, FreeOid
<1>3. InStep /\ step' # "positions" /\ day' = day /\ day \in Nat
  BY <1>2 DEF GoesOn, BuyInv, Where, TypeOK, Job, InStep
<1>4. "lost" \notin Faults /\ ~ChaseEntry
  BY DEF TodayFaults, BuyFaults
<1>5. ASSUME NEW n \in N
      PROVE  /\ mem'.ord[n].sym = s /\ mem'.ord[n].purpose = p /\ mem'.ord[n].st = "SUBMITTED"
             /\ mem'.ord[n].day = day /\ cOrd'[n].day = day /\ cOrd'[n].filled = 0
             /\ cOrd'[n].sym = s /\ cOrd'[n].side = side /\ cOrd'[n].st = "live"
             /\ cOrd[n].st = "none" /\ ~cOrd'[n].creq
             /\ cOrd'[n].vis \/ n \in young'
             /\ \A o \in Oid : o < n => cOrd[o].st # "none"
             /\ side = "buy" => p = "OPEN" /\ ~HasOpenBuy(mem, s) /\ CheckCaps(mem, vol, q, day)
             /\ side = "sell" => p \in SellSide
  <2>1. MayPlace(s, side, p, q)
    BY <1>1 DEF Turn
  <2>2. /\ side = "buy" => p = "OPEN" /\ ~HasOpenBuy(mem, s) /\ CheckCaps(mem, vol, q, day)
        /\ side = "sell" => p \in SellSide
    BY <1>4, <2>1 DEF MayPlace, BuyInv, BuyTodo, SellSide
  <2>3. mem'.ord[n] = NewRecord(s, p, q)
    BY <1>2, <1>4 DEF Placing
  <2>4. /\ mem'.ord[n].sym = s /\ mem'.ord[n].purpose = p /\ mem'.ord[n].st = "SUBMITTED"
        /\ mem'.ord[n].day = day
    BY <2>3 DEF NewRecord
  <2>5. cOrd'[n].vis \/ n \in young'
    BY <1>2 DEF Placing
  <2> QED
    BY <1>2, <2>2, <2>4, <2>5 DEF Placing
<1>6. ASSUME NEW o \in Oid, o \notin N, OfToday(o)
      PROVE  o \notin C /\ ~cOrd'[o].creq /\ mem'.ord[o].st = mem.ord[o].st
  <2>1. o \notin C
    BY <1>1, <1>6, TodayStays DEF Turn
  <2> QED
    BY <1>2, <1>6, <2>1 DEF Leaving, Kept, TodayInv, Untouched
<1>7. /\ \A o \in N : OfToday(o)' <=> side = "buy"
      /\ \A o \in Oid : o \notin N => (OfToday(o)' <=> OfToday(o))
      /\ \A o \in N : ~OfToday(o)
  BY <1>2, <1>3, <1>5 DEF Leaving, OfToday
<1>8. Numbered'
  <2>1. \A o \in Oid : cOrd'[o].st # "none" => cOrd'[o].day <= day
    BY <1>2, <1>3, <1>5 DEF Leaving, TodayInv, Numbered
  <2>2. ASSUME NEW o \in Oid, NEW k \in Oid, o < k, cOrd'[k].st # "none"
        PROVE  cOrd'[o].st # "none" /\ cOrd'[o].day <= cOrd'[k].day
    <3>1. CASE k \in N
      <4>1. o \notin N
        BY <1>2, <2>2, <3>1 DEF Placing, Oid
      <4> QED
        BY <1>2, <1>5, <2>2, <3>1, <4>1 DEF Leaving, TodayInv, Numbered
    <3>2. CASE k \notin N
      <4>1. cOrd[k].st # "none" /\ cOrd'[k].day = cOrd[k].day
        BY <1>2, <2>2, <3>2 DEF Leaving
      <4>2. cOrd[o].st # "none" /\ cOrd[o].day <= cOrd[k].day
        BY <2>2, <4>1 DEF TodayInv, Numbered
      <4> QED
        BY <1>2, <1>5, <4>1, <4>2 DEF Leaving
    <3> QED
      BY <3>1, <3>2
  <2> QED
    BY <1>3, <2>1, <2>2 DEF Numbered
<1>9. Dated'
  <2>1. ASSUME NEW o \in Oid, mem'.ord[o].st # "NONE"
        PROVE  /\ mem'.ord[o].day = cOrd'[o].day
               /\ mem'.ord[o].purpose \in BuySide => cOrd'[o].side = "buy"
    <3>1. CASE o \in N
      BY <1>1, <1>5, <3>1 DEF SellSide, BuySide
    <3>2. CASE o \notin N
      <4>1. mem.ord[o].st # "NONE"
        BY <1>2, <2>1, <3>2 DEF Leaving, Kept, Live
      <4> QED
        BY <1>2, <3>2, <4>1 DEF Leaving, Kept, TodayInv, Dated
    <3> QED
      BY <3>1, <3>2
  <2> QED
    BY <2>1 DEF Dated
<1>10. Untouched'
  <2>1. ASSUME NEW o \in Oid, OfToday(o)'
        PROVE  /\ ~cOrd'[o].creq /\ mem'.ord[o].st # "NONE" /\ mem'.ord[o].purpose = "OPEN"
               /\ cOrd'[o].filled > 0 => mem'.ord[o].filled > 0 \/ Live(mem, o)'
               /\ cOrd'[o].st = "dead" => cOrd'[o].filled = 0
               /\ cOrd'[o].st = "filled" => cOrd'[o].filled > 0
               /\ cOrd'[o].vis \/ o \in young' \/ cOrd'[o].st = "dead"
    <3>1. CASE o \in N
      BY <1>5, <1>7, <2>1, <3>1
    <3>2. CASE o \notin N
      <4>1. OfToday(o)
        BY <1>7, <2>1, <3>2
      <4>2. young \subseteq young'
        BY <1>2 DEF Placing
      <4> QED
        BY <1>2, <1>6, <3>2, <4>1, <4>2 DEF Leaving, Kept, TodayInv, Untouched, Live
    <3> QED
      BY <3>1, <3>2
  <2> QED
    BY <2>1 DEF Untouched
<1>11. Single'
  <2>1. ASSUME NEW o \in Oid, o \notin N, OfToday(o)', Live(mem, o)'
        PROVE  /\ OfToday(o) /\ Live(mem, o) /\ cOrd'[o].sym = cOrd[o].sym
               /\ mem.ord[o].sym = cOrd[o].sym /\ mem.ord[o].purpose = "OPEN"
    <3>1. OfToday(o)
      BY <1>7, <2>1
    <3>2. Live(mem, o)
      BY <1>6, <2>1, <3>1 DEF Live
    <3> QED
      BY <1>2, <2>1, <3>1, <3>2 DEF Leaving, BuyInv, BuyAbout, Live, TodayInv, Untouched
  <2>2. ASSUME NEW o \in Oid, NEW n \in N, o \notin N, OfToday(o)', Live(mem, o)', OfToday(n)'
        PROVE  cOrd'[o].sym # cOrd'[n].sym
    <3>1. cOrd'[n].sym = s /\ ~HasOpenBuy(mem, s)
      BY <1>5, <1>7, <2>2
    <3> QED
      BY <2>1, <2>2, <3>1 DEF HasOpenBuy, BuyAmount, BuySide
  <2>3. SUFFICES ASSUME NEW o \in Oid, NEW k \in Oid, OfToday(o)', OfToday(k)',
                        cOrd'[o].sym = cOrd'[k].sym, Live(mem, o)', Live(mem, k)'
                 PROVE  o = k
    BY DEF Single
  <2>4. CASE o \in N /\ k \in N
    BY <1>2, <2>4 DEF Placing
  <2>5. CASE o \notin N /\ k \notin N
    BY <2>1, <2>3, <2>5 DEF TodayInv, Single
  <2> QED
    BY <2>2, <2>3, <2>4, <2>5
<1>12. SnapToday'
  BY <1>3 DEF SnapToday
<1>13. Cardinality(Counted)' <= MaxNew
  <2>1. Counted' \subseteq Counted \cup {o \in N : side = "buy"}
    <3>1. ASSUME NEW o \in Counted' PROVE o \in Counted \cup {x \in N : side = "buy"}
      <4>1. o \in Oid /\ OfToday(o)' /\ (CLive(o)' \/ cOrd'[o].filled > 0)
        BY <3>1 DEF Counted
      <4> QED
        BY <1>2, <1>7, <4>1 DEF Leaving, Counted, CLive
    <3> QED
      BY <3>1
  <2>2. CASE N = {} \/ side # "buy"
    BY <2>1, <2>2, FewerCounted DEF TodayInv
  <2>3. CASE N # {} /\ side = "buy"
    <3>1. PICK n \in N : N = {n}
      BY <1>2, <2>3 DEF Placing
    <3> DEFINE E == Effective(mem, day)
    <3>2. Cardinality(E) < MaxNew
      BY <1>5, <2>3, <3>1 DEF CheckCaps
    <3>3. IsFiniteSet(E)
      <4>1. IsFiniteSet(Oid)
        BY FS_Interval, LedgerAssumption DEF Oid
      <4>2. E \subseteq Oid
        BY DEF Effective
      <4> QED
        BY <4>1, <4>2, FS_Subset
    <3>4. Counted' \subseteq E \cup {n}
      BY <1>3, <2>1, <3>1, CountedIsKnown
    <3> HIDE DEF E
    <3>5. /\ IsFiniteSet(E \cup {n})
          /\ Cardinality(E \cup {n}) <= Cardinality(E) + 1
      <4>1. Cardinality(E) \in Nat
        BY <3>3, FS_CardinalityType
      <4>2. CASE n \in E
        <5>1. E \cup {n} = E
          BY <4>2
        <5>2. IsFiniteSet(E \cup {n}) /\ Cardinality(E \cup {n}) = Cardinality(E)
          BY ONLY <3>3, <5>1, Zenon
        <5> QED
          BY ONLY <4>1, <5>2
      <4>3. CASE n \notin E
        <5>1. IsFiniteSet(E \cup {n}) /\ Cardinality(E \cup {n}) = Cardinality(E) + 1
          BY ONLY <3>3, <4>3, FS_AddElement, ZenonT(60)
        <5> QED
          BY ONLY <4>1, <5>1
      <4> QED
        BY ONLY <4>2, <4>3
    <3>6. Cardinality(Counted') <= Cardinality(E \cup {n}) /\ IsFiniteSet(Counted')
      BY <3>4, <3>5, FS_Subset
    <3>7. /\ Cardinality(Counted') \in Nat /\ Cardinality(E) \in Nat /\ MaxNew \in Nat
          /\ Cardinality(E \cup {n}) \in Nat
      BY <3>3, <3>5, <3>6, FS_CardinalityType, LedgerAssumption
    <3> QED
      BY <3>2, <3>5, <3>6, <3>7
  <2> QED
    BY <2>2, <2>3
<1> QED
  BY <1>8, <1>9, <1>10, <1>11, <1>12, <1>13 DEF TodayInv

\* The reconciliation: a record the queries show is as the counter has it, one they do
\* not show is young and stays, or its order is dead.
LEMMA TodayAbsorb ==
  ASSUME TodayFaults, TypeOK, BuyInv, TodayInv, GetPositions
  PROVE  TodayInv'
<1>1. /\ step = "positions" /\ cOrd' = cOrd /\ young' = young /\ day' = day
      /\ mem' = Absorb(mem, snap, cPos, young) /\ step' \in {"subscribe", "cancel", "pending"}
  BY DEF GetPositions, counter, world, AfterReconcile
<1>2. \A o \in Oid : mem'.ord[o] = AbsorbOrder(mem, snap, young, o)
  BY <1>1, AbsorbType DEF TypeOK
<1>3. mem \in PilotState /\ snap \in [Oid -> CounterOrder]
  BY DEF TypeOK
<1>4. \A o \in Oid : OfToday(o)' <=> OfToday(o)
  BY <1>1 DEF OfToday
<1>5. ASSUME NEW o \in Oid
      PROVE  /\ snap[o].vis => /\ mem'.ord[o].st = LocalStatus(snap[o].st)
                               /\ mem'.ord[o].filled = snap[o].filled
             /\ mem.ord[o].st # "NONE" => /\ mem'.ord[o].st # "NONE"
                                          /\ mem'.ord[o].day = mem.ord[o].day
                                          /\ mem'.ord[o].purpose = mem.ord[o].purpose
             /\ mem.ord[o].st = "NONE" /\ snap[o].vis => /\ mem'.ord[o].day = snap[o].day
                                                         /\ mem'.ord[o].purpose = "UNKNOWN"
             /\ ~snap[o].vis => /\ mem'.ord[o].filled = mem.ord[o].filled
                                /\ mem'.ord[o].st \in {mem.ord[o].st, "CANCELLED"}
             /\ ~snap[o].vis /\ mem.ord[o].st = "NONE" => mem'.ord[o] = mem.ord[o]
             /\ ~snap[o].vis /\ mem.ord[o].purpose = "OPEN" /\ o \in young =>
                   mem'.ord[o] = mem.ord[o]
  BY <1>2, <1>3, AbsorbOrderFacts, AbsorbKeeps
<1>6. Dated'
  <2>1. ASSUME NEW o \in Oid, mem'.ord[o].st # "NONE"
        PROVE  /\ mem'.ord[o].day = cOrd[o].day
               /\ mem'.ord[o].purpose \in BuySide => cOrd[o].side = "buy"
    BY <1>1, <1>5, <2>1 DEF TodayInv, Dated, SnapToday, BuySide
  <2> QED
    BY <1>1, <2>1 DEF Dated
<1>7. ASSUME NEW o \in Oid, OfToday(o)
      PROVE  /\ mem'.ord[o].st # "NONE" /\ mem'.ord[o].purpose = "OPEN"
             /\ mem'.ord[o].st = "SUBMITTED" => mem.ord[o].st = "SUBMITTED"
             /\ cOrd[o].filled > 0 => mem'.ord[o].filled > 0 \/ mem'.ord[o].st = "SUBMITTED"
  <2>1. /\ mem.ord[o].st # "NONE" /\ mem.ord[o].purpose = "OPEN"
        /\ cOrd[o].filled > 0 => mem.ord[o].filled > 0 \/ mem.ord[o].st = "SUBMITTED"
        /\ cOrd[o].st = "dead" => cOrd[o].filled = 0
    BY <1>7 DEF TodayInv, Untouched, Live
  <2>2. cOrd[o].filled = 0 => ~(cOrd[o].filled > 0)
    OBVIOUS
  <2>3. CASE snap[o].vis
    <3>1. /\ snap[o].st # "none"
          /\ snap[o].st = "live" => mem.ord[o].st = "SUBMITTED"
          /\ snap[o].st = "filled" => snap[o].filled > 0
          /\ snap[o].st = "dead" => cOrd[o].st = "dead"
      BY <1>1, <1>7, <2>3 DEF TodayInv, SnapToday, Live
    <3>2. snap[o].st \in {"none", "live", "filled", "dead"}
      BY <1>3 DEF CounterOrder
    <3>3. /\ mem'.ord[o].st = LocalStatus(snap[o].st) /\ mem'.ord[o].filled = snap[o].filled
          /\ mem'.ord[o].purpose = mem.ord[o].purpose /\ mem'.ord[o].st # "NONE"
      BY <1>5, <2>1, <2>3
    <3> QED
      BY <2>1, <2>2, <3>1, <3>2, <3>3 DEF LocalStatus
  <2>4. CASE ~snap[o].vis
    <3>1. o \in young \/ cOrd[o].st = "dead"
      BY <1>1, <1>7, <2>4 DEF TodayInv, SnapToday
    <3> QED
      BY <1>5, <2>1, <2>2, <2>4, <3>1
  <2> QED
    BY <2>3, <2>4
<1>8. Untouched'
  <2>1. \A o \in Oid : OfToday(o) =>
          /\ ~cOrd[o].creq
          /\ cOrd[o].st = "dead" => cOrd[o].filled = 0
          /\ cOrd[o].st = "filled" => cOrd[o].filled > 0
          /\ cOrd[o].vis \/ o \in young \/ cOrd[o].st = "dead"
    BY DEF TodayInv, Untouched
  <2> QED
    BY <1>1, <1>4, <1>7, <2>1 DEF Untouched, Live
<1>9. Single'
  BY <1>1, <1>4, <1>7 DEF TodayInv, Single, Live
<1>10. Numbered' /\ SnapToday'
  BY <1>1 DEF TodayInv, Numbered, SnapToday
<1>11. Counted' \subseteq Counted
  BY <1>1, <1>4 DEF Counted, CLive
<1> QED
  BY <1>6, <1>8, <1>9, <1>10, <1>11, FewerCounted DEF TodayInv

\* The other steps of the process.
LEMMA TodayStill ==
  ASSUME TodayFaults, TypeOK, BuyInv, BuyInv', TodayInv, Still, ~GetPositions
  PROVE  TodayInv'
<1>w. Where /\ job \in Job /\ "crash" \notin Faults
  BY DEF BuyInv, TypeOK, TodayFaults
<1>1. /\ cOrd' = cOrd /\ day' = day
      /\ \/ mem' = disk /\ job' \in {"down", "boot"}
         \/ mem'.ord = mem.ord
  BY StillKeeps
<1>2. young' = young
  BY ScanTakes DEF Still, Crash, Start, BootSubscribe, GetOrders, QueryFails, SaveOrder,
     PreOpenJob, PreOpenQuery, PreOpenDuplicates, PreOpenOverdue, PreOpenRepairs, PreOpenEnd, Repair,
     TickStart, TickSave, AfterClose, world
<1>3. \A o \in Oid : OfToday(o)' <=> OfToday(o)
  BY <1>1 DEF OfToday
<1>4. Counted' \subseteq Counted
  BY <1>1, <1>3 DEF Counted, CLive
<1>5. Numbered'
  BY <1>1 DEF TodayInv, Numbered
<1>6. CASE Crash \/ Start
  <2>1. Start /\ job' = "boot" /\ step' = "orders"
    BY <1>w, <1>6 DEF Crash, Start
  <2>2. \A o \in Oid : cOrd'[o].st = "none" /\ mem'.ord[o].st = "NONE"
    BY <1>w, <2>1 DEF BuyInv, NothingYet, BuyAbout
  <2>3. \A o \in Oid : ~OfToday(o)'
    BY <2>2 DEF OfToday
  <2>4. Dated'
    BY <2>2 DEF Dated
  <2>5. Untouched' /\ Single'
    BY <2>3 DEF Untouched, Single
  <2>6. SnapToday'
    BY <2>1 DEF SnapToday
  <2> QED
    BY <1>4, <1>5, <2>4, <2>5, <2>6, FewerCounted DEF TodayInv
<1>7. CASE ~Crash /\ ~Start
  <2>1. mem'.ord = mem.ord
    <3>1. CASE PreOpenJob \/ PreOpenScan \/ AfterClose
      <4>1. job' \notin {"down", "boot"}
        BY <1>w, <3>1, ScanTakes DEF PreOpenJob, AfterClose, ctl, Where
      <4> QED
        BY <1>1, <4>1
    <3>2. CASE ~(PreOpenJob \/ PreOpenScan \/ AfterClose)
      <4>1. mem' = mem
        BY <1>7, <3>2 DEF Still, BootSubscribe, GetOrders, QueryFails, SaveOrder,
           PreOpenQuery, PreOpenDuplicates, PreOpenOverdue, PreOpenRepairs, PreOpenEnd,
           Repair, TickStart, TickSave
      <4> QED
        BY <4>1
    <3> QED
      BY <3>1, <3>2
  <2>2. Dated'
    BY <1>1, <2>1 DEF TodayInv, Dated
  <2>3. Untouched'
    BY <1>1, <1>2, <1>3, <2>1 DEF TodayInv, Untouched, Live
  <2>4. Single'
    BY <1>1, <1>3, <2>1 DEF TodayInv, Single, Live
  <2>5. SnapToday'
    <3>1. CASE GetOrders
      <4>1. /\ \A o \in Oid : snap'[o] = IF cOrd[o].vis THEN cOrd[o] ELSE NoOrder
            /\ ~NoOrder.vis /\ job' = job
        BY <3>1 DEF GetOrders, NoOrder
      <4>2. ASSUME NEW o \in Oid, OfToday(o)
            PROVE  /\ cOrd[o].st # "none"
                   /\ cOrd[o].st = "live" => Live(mem, o)
                   /\ cOrd[o].st = "filled" => cOrd[o].filled > 0
                   /\ ~cOrd[o].vis => o \in young \/ cOrd[o].st = "dead"
        BY <4>2 DEF TodayFaults, TodayInv, Untouched, WorkingBuy, OfToday, BuyInv, KnowsBuys,
                    NothingYet, InStep, CLive
      <4> QED
        BY <1>1, <1>2, <1>3, <2>1, <4>1, <4>2 DEF SnapToday, Live
    <3>2. CASE ~GetOrders
      <4>1. step' # "positions"
        BY <1>w, <1>7, <3>2, ScanTakes DEF Still, BootSubscribe, QueryFails, AfterReconcile,
           SaveOrder, PreOpenJob, PreOpenQuery, PreOpenDuplicates, PreOpenOverdue, PreOpenRepairs,
           PreOpenEnd, Repair, TickStart, TickSave, AfterClose, Idle, ctl, Where
      <4> QED
        BY <4>1 DEF SnapToday
    <3> QED
      BY <3>1, <3>2
  <2> QED
    BY <1>4, <1>5, <2>2, <2>3, <2>4, <2>5, FewerCounted DEF TodayInv
<1> QED
  BY <1>6, <1>7

LEMMA TodayStep ==
  ASSUME TodayFaults, TypeOK, BuyInv, BuyInv', TodayInv, Passing, [Next]_vars
  PROVE  TodayInv'
BY Steps, TodayCounter, TodayTurn, TodayAbsorb, TodayStill

LEMMA TodayHolds == ASSUME TodayFaults PROVE Spec => [](TypeOK /\ BuyInv /\ TodayInv)
<1>1. Init => TypeOK /\ BuyInv /\ TodayInv /\ Passing
  BY TypeInit, BuyInit, TodayInit DEF Init, Passing
<1>2. BuyFaults
  BY DEF TodayFaults
<1>3. (TypeOK /\ BuyInv /\ TodayInv /\ Passing) /\ [Next]_vars
          => (TypeOK /\ BuyInv /\ TodayInv /\ Passing)'
  <2>1. TypeOK /\ BuyInv /\ Passing /\ [Next]_vars => Passing'
    BY PassingStep DEF BuyInv
  <2> QED
    BY <1>2, <2>1, TypeStep, BuyStep, TodayStep
<1> QED
  BY <1>1, <1>3, PTL DEF Spec

\* The counter never carries more effective buys of one day than the daily limit allows,
\* if the process does not crash, no accepted call looks like a failure and no entry of
\* the day is cancelled by a chase or by its price: the state counts every buy the counter
\* counts, also what it cannot see yet.
THEOREM LimitIsKept == ASSUME TodayFaults PROVE Spec => []DailyLimit
<1>1. TypeOK /\ BuyInv /\ TodayInv => DailyLimit
  BY CountedIsLimit DEF TodayInv
<1> QED
  BY <1>1, TodayHolds, PTL

-----------------------------------------------------------------------------
(***************************************************************************)
(* One entry per symbol, cancels under way included.  The proofs need      *)
(* answers that come and are up to date, and orders that end with the day; *)
(* the process may crash.                                                  *)
(***************************************************************************)
EntryFaults == BuyFaults /\ {"lag", "query", "overnight"} \cap Faults = {}

Buying(o) == CLive(o) /\ cOrd[o].side = "buy"

\* A buy at work and what is held of its symbol fit in one order.
Fits ==
    /\ \A o \in Oid : Buying(o) =>
          /\ cOrd[o].day = day /\ cOrd[o].filled < cOrd[o].qty
          /\ Rest(o) + cPos[cOrd[o].sym] <= OrderQty
    /\ \A o, k \in Oid : Buying(o) /\ Buying(k) /\ cOrd[o].sym = cOrd[k].sym => o = k
    /\ \A s \in Sym : cPos[s] <= OrderQty

\* So do the answers of the queries, and the records of pre_open.
SnapOnce ==
    step = "positions" => \A o, k \in Oid :
        /\ snap[o].vis => snap[o].st # "none"
        /\ /\ snap[o].vis /\ snap[o].st = "live" /\ cOrd[o].side = "buy"
           /\ snap[k].vis /\ snap[k].st = "live" /\ cOrd[k].side = "buy"
           /\ cOrd[o].sym = cOrd[k].sym
           => o = k

\* No symbol has two entries, so phases 1 and 1' have nothing to cancel.
NoDuplicate ==
    /\ step \in {"cancel", "yesterday"} => \A o, k \in Oid :
          /\ Live(mem, o) /\ mem.ord[o].purpose = "OPEN"
          /\ Live(mem, k) /\ mem.ord[k].purpose = "OPEN"
          /\ mem.ord[o].sym = mem.ord[k].sym
          => o = k
    /\ step \in {"yesterday", "duplicates"} => oids = {}

Purchasing == {"cancel", "yesterday", "duplicates", "expire", "buy", "buy_save", "repair",
               "repair_save"}

\* While pre_open goes through its phases, what it takes for free is free.
FreeIsFree ==
    step \in Purchasing => \A s \in Sym :
        ~Held(mem, s) /\ ~HasOpenBuy(mem, s) =>
            cPos[s] = 0 /\ \A o \in Oid : Buying(o) => cOrd[o].sym # s

TodoFree == step \in {"buy", "buy_save"} => \A s \in todo : ~Held(mem, s)

EntryOnce == young = {} /\ Fits /\ SnapOnce /\ NoDuplicate /\ FreeIsFree /\ TodoFree

LEMMA EntryFaultsGood == EntryFaults => GoodFaults /\ BuyFaults
BY DEF EntryFaults, GoodFaults, BuyFaults

LEMMA EntryInit == Init => EntryOnce
<1> SUFFICES ASSUME Init PROVE EntryOnce
  OBVIOUS
<1>1. \A o \in Oid : cOrd[o].st = "none"
  BY DEF Init, NoSnap, NoOrder
<1>2. step = "none" /\ young = {} /\ (\A s \in Sym : cPos[s] = 0) /\ 0 <= OrderQty
  BY LedgerAssumption DEF Init, NoVol
<1>3. Fits
  BY <1>1, <1>2 DEF Fits, Buying, CLive
<1> QED
  BY <1>2, <1>3 DEF EntryOnce, SnapOnce, NoDuplicate, FreeIsFree, TodoFree, Purchasing

\* The counter moves, a grace or a day ends.
LEMMA EntryCounter ==
  ASSUME EntryFaults, TypeOK, BuyInv, EntryOnce,
         CounterStep \/ NewDay \/ (\E o \in Oid : GraceEnds(o)) \/ Flag \/ Clock \/ UNCHANGED vars
  PROVE  EntryOnce'
<1>0. cOrd \in Counters /\ cPos \in [Sym -> Nat] /\ OrderQty \in Nat
  BY LedgerAssumption DEF TypeOK, Counters
<1>1. /\ UNCHANGED <<mem, snap, step, todo, oids>>
      /\ young' = {}
  <2>1. CASE CounterStep
    BY <2>1 DEF CounterStep, CounterFill, CounterClose, CounterReveal, pilot, ctl, world, EntryOnce
  <2>2. CASE NewDay
    BY <2>2, DayTurns
  <2>3. CASE (\E o \in Oid : GraceEnds(o)) \/ Flag \/ Clock \/ UNCHANGED vars
    BY <2>3 DEF GraceEnds, Flag, Clock, vars, pilot, ctl, world, EntryOnce
  <2> QED
    BY <2>1, <2>2, <2>3
<1>2. \A o \in Oid : /\ cOrd'[o].sym = cOrd[o].sym /\ cOrd'[o].side = cOrd[o].side
                     /\ Buying(o)' => Buying(o)
  <2>1. CASE CounterStep
    BY <1>0, <2>1 DEF CounterStep, CounterFill, CounterClose, CounterReveal, Counters,
                      CounterOrder, CLive, Buying
  <2>2. CASE NewDay
    BY <2>2, DayCloses DEF CLive, Buying
  <2>3. CASE (\E o \in Oid : GraceEnds(o)) \/ Flag \/ Clock \/ UNCHANGED vars
    BY <2>3 DEF GraceEnds, Flag, Clock, vars, counter, CLive, Buying
  <2> QED
    BY <2>1, <2>2, <2>3
<1>3. \A s \in Sym : cPos'[s] = 0 \/ cPos'[s] <= cPos[s] \/ \E o \in Oid : Buying(o) /\ cOrd[o].sym = s
  <2>1. ASSUME NEW x \in Oid, CounterFill(x) PROVE <1>3!:
    <3>1. /\ CLive(x) /\ cOrd[x].sym \in Sym /\ cOrd[x].side \in {"buy", "sell"}
          /\ cPos' = [cPos EXCEPT ![cOrd[x].sym] = IF cOrd[x].side = "buy" THEN @ + 1 ELSE @ - 1]
      BY <1>0, <2>1 DEF CounterFill, Counters, CounterOrder
    <3> QED
      BY <1>0, <3>1 DEF Buying
  <2>2. CASE ~\E x \in Oid : CounterFill(x)
    <3>1. cPos' = cPos
      BY <2>2, DayTurns DEF CounterStep, CounterClose, CounterReveal, GraceEnds, Flag, Clock,
                            vars, counter
    <3> QED
      BY <1>0, <3>1
  <2> QED
    BY <2>1, <2>2
<1>4. Fits'
  <2>1. ASSUME NEW x \in Oid, CounterFill(x) PROVE Fits'
    <3>1. /\ CLive(x) /\ cOrd[x].sym \in Sym /\ day' = day /\ cOrd[x].side \in {"buy", "sell"}
          /\ \A o \in Oid : o # x => cOrd'[o] = cOrd[o]
          /\ cOrd'[x].filled = cOrd[x].filled + 1 /\ cOrd'[x].qty = cOrd[x].qty
          /\ cOrd'[x].day = cOrd[x].day
          /\ cOrd'[x].st = "live" => cOrd[x].filled + 1 < cOrd[x].qty
          /\ cPos' = [cPos EXCEPT ![cOrd[x].sym] = IF cOrd[x].side = "buy" THEN @ + 1 ELSE @ - 1]
      <4>1. /\ CLive(x) /\ cOrd[x] \in CounterOrder /\ UNCHANGED <<world, pilot>>
            /\ cOrd' = [cOrd EXCEPT ![x].filled = @ + 1,
                                    ![x].st = IF cOrd[x].filled + 1 >= cOrd[x].qty
                                              THEN "filled" ELSE "live"]
            /\ cPos' = [cPos EXCEPT ![cOrd[x].sym] = IF cOrd[x].side = "buy" THEN @ + 1 ELSE @ - 1]
        BY <1>0, <2>1 DEF CounterFill, Counters
      <4> QED
        BY <1>0, <4>1 DEF Counters, CounterOrder, world
    <3>2. \A o \in Oid : cOrd[o].filled \in Nat /\ cOrd[o].qty \in Nat /\ cOrd[o].sym \in Sym
      BY <1>0 DEF Counters, CounterOrder
    <3>3. CASE cOrd[x].side = "buy"
      <4>1. /\ cPos'[cOrd[x].sym] = cPos[cOrd[x].sym] + 1
            /\ \A s \in Sym : s # cOrd[x].sym => cPos'[s] = cPos[s]
        BY <1>0, <3>1, <3>3
      <4>2. /\ cOrd[x].day = day /\ cOrd[x].filled < cOrd[x].qty
            /\ cOrd[x].qty - cOrd[x].filled + cPos[cOrd[x].sym] <= OrderQty
            /\ \A o \in Oid : Buying(o) /\ cOrd[o].sym = cOrd[x].sym => o = x
        BY <3>1, <3>3 DEF EntryOnce, Fits, Buying, Rest
      <4>3. \A s \in Sym : cPos'[s] <= OrderQty
        BY <1>0, <3>1, <3>2, <4>1, <4>2 DEF EntryOnce, Fits
      <4>4. ASSUME NEW o \in Oid, Buying(o)'
            PROVE  /\ cOrd'[o].day = day' /\ cOrd'[o].filled < cOrd'[o].qty
                   /\ cOrd'[o].qty - cOrd'[o].filled + cPos'[cOrd'[o].sym] <= OrderQty
        <5>1. CASE o = x
          BY <1>0, <1>2, <3>1, <3>2, <4>1, <4>2, <4>4, <5>1 DEF Buying, CLive
        <5>2. CASE o # x
          <6>1. Buying(o) /\ cOrd'[o] = cOrd[o] /\ cOrd[o].sym # cOrd[x].sym
            BY <1>2, <3>1, <4>2, <4>4, <5>2
          <6> QED
            BY <3>1, <3>2, <4>1, <6>1 DEF EntryOnce, Fits, Rest
        <5> QED
          BY <5>1, <5>2
      <4>5. \A o, k \in Oid : Buying(o)' /\ Buying(k)' /\ cOrd'[o].sym = cOrd'[k].sym => o = k
        BY <1>2 DEF EntryOnce, Fits
      <4> QED
        BY <4>3, <4>4, <4>5 DEF Fits, Rest
    <3>4. CASE cOrd[x].side # "buy"
      <4>1. \A s \in Sym : cPos'[s] <= cPos[s] /\ cPos'[s] \in Int /\ cPos[s] \in Nat
        BY <1>0, <3>1, <3>4
      <4>2. \A s \in Sym : cPos'[s] <= OrderQty
        BY <1>0, <4>1 DEF EntryOnce, Fits
      <4>3. ASSUME NEW o \in Oid, Buying(o)'
            PROVE  /\ cOrd'[o].day = day' /\ cOrd'[o].filled < cOrd'[o].qty
                   /\ cOrd'[o].qty - cOrd'[o].filled + cPos'[cOrd'[o].sym] <= OrderQty
        <5>1. Buying(o) /\ cOrd'[o] = cOrd[o]
          BY <1>2, <3>1, <3>4, <4>3 DEF Buying
        <5>2. /\ cOrd[o].day = day /\ cOrd[o].filled < cOrd[o].qty
              /\ cOrd[o].qty - cOrd[o].filled + cPos[cOrd[o].sym] <= OrderQty
          BY <5>1 DEF EntryOnce, Fits, Rest
        <5> QED
          BY <1>0, <3>1, <3>2, <4>1, <5>1, <5>2
      <4>4. \A o, k \in Oid : Buying(o)' /\ Buying(k)' /\ cOrd'[o].sym = cOrd'[k].sym => o = k
        BY <1>2 DEF EntryOnce, Fits
      <4> QED
        BY <4>2, <4>3, <4>4 DEF Fits, Rest
    <3> QED
      BY <3>3, <3>4
  <2>2. CASE NewDay
    <3>1. cPos' = cPos
      BY <2>2, DayTurns
    <3>2. \A o \in Oid : ~Buying(o)'
      BY <2>2, DayCloses DEF Buying, CLive, EntryFaults
    <3> QED
      BY <3>1, <3>2 DEF EntryOnce, Fits
  <2>3. CASE ~NewDay /\ ~\E x \in Oid : CounterFill(x)
    <3>1. cPos' = cPos /\ day' = day
      BY <2>3 DEF CounterStep, CounterClose, CounterReveal, GraceEnds, Flag, Clock, vars, counter,
                  world
    <3>2. \A o \in Oid : /\ cOrd'[o].filled = cOrd[o].filled /\ cOrd'[o].qty = cOrd[o].qty
                         /\ cOrd'[o].day = cOrd[o].day
      BY <1>0, <2>3 DEF CounterStep, CounterClose, CounterReveal, GraceEnds, Flag, Clock, vars,
                  counter, Counters, CounterOrder
    <3> QED
      BY <1>2, <3>1, <3>2 DEF EntryOnce, Fits, Rest
  <2> QED
    BY <2>1, <2>2, <2>3
<1>5. SnapOnce' /\ NoDuplicate' /\ TodoFree'
  BY <1>1, <1>2 DEF EntryOnce, SnapOnce, NoDuplicate, TodoFree, Live, Held
<1>6. FreeIsFree'
  <2>1. SUFFICES ASSUME step \in Purchasing, NEW s \in Sym, ~Held(mem, s), ~HasOpenBuy(mem, s)
                 PROVE  cPos'[s] = 0 /\ \A o \in Oid : Buying(o)' => cOrd'[o].sym # s
    BY <1>1 DEF FreeIsFree, Held, HasOpenBuy, Live
  <2>2. cPos[s] = 0 /\ \A o \in Oid : Buying(o) => cOrd[o].sym # s
    BY <2>1 DEF EntryOnce, FreeIsFree
  <2>3. cPos'[s] = 0
    <3>1. cPos'[s] \in Nat
      <4>1. CASE CounterStep
        BY <1>0, <4>1 DEF CounterStep, CounterFill, CounterClose, CounterReveal, Counters, CounterOrder
      <4>2. CASE ~CounterStep
        <5>1. cPos' = cPos
          BY <4>2, DayTurns DEF GraceEnds, Flag, Clock, vars, counter
        <5> QED
          BY <1>0, <5>1
      <4> QED
        BY <4>1, <4>2
    <3> QED
      BY <1>3, <2>2, <3>1
  <2> QED
    BY <1>2, <2>2, <2>3
<1> QED
  BY <1>1, <1>4, <1>5, <1>6 DEF EntryOnce

\* A turn buys what is free, and pre_open cancels nothing of the day.
LEMMA EntryTurn ==
  ASSUME EntryFaults, TypeOK, BuyInv, EntryOnce, TurnStep
  PROVE  EntryOnce'
<1>1. PICK C \in SUBSET Oid, N \in SUBSET FreeOid, s \in Sym, side \in {"buy", "sell"},
           p \in Purpose, q \in Nat : Turn(C, N, s, side, p, q)
  BY Turns
<1>2. Placing(C, N, s, side, p, q) /\ Leaving(C, N) /\ GoesOn /\ N \subseteq Oid
  BY <1>1, MovesFacts DEF Turn, FreeOid
<1>3. /\ "lost" \notin Faults /\ ~ChaseEntry /\ "lag" \notin Faults
      /\ OrderQty \in Nat \ {0} /\ cPos \in [Sym -> Nat]
  BY LedgerAssumption DEF EntryFaults, BuyFaults, TypeOK
<1>4. /\ young' = {} /\ cPos' = cPos /\ day' = day /\ step' \notin {"positions", "cancel"}
      /\ \A x \in Sym : Held(mem, x)' = Held(mem, x)
  BY <1>2, <1>3 DEF Placing, GoesOn, EntryOnce, Held
<1>5. ASSUME step \in Purchasing PROVE C = {}
  <2>1. SUFFICES ASSUME NEW o \in C PROVE FALSE
    OBVIOUS
  <2>2. MayCancel(o)
    BY <1>1 DEF Turn
  <2> QED
    BY <1>5, <2>2 DEF MayCancel, Purchasing, EntryOnce, NoDuplicate
<1>s. step \notin {"yesterday", "duplicates"}
  <2>1. SUFFICES ASSUME step \in {"yesterday", "duplicates"} PROVE FALSE
    OBVIOUS
  <2>2. \E x \in Oid : PreOpenCancel(x)
    BY <2>1 DEF TurnStep, TickExit, PreOpenExpire, PreOpenBuy, PreOpenRepair, TickPending
  <2> QED
    BY <2>1, <2>2 DEF PreOpenCancel, EntryOnce, NoDuplicate
<1>6. ASSUME NEW n \in N
      PROVE  /\ mem'.ord[n].sym = s /\ mem'.ord[n].purpose = p /\ mem'.ord[n].st = "SUBMITTED"
             /\ cOrd'[n].sym = s /\ cOrd'[n].side = side /\ cOrd'[n].st = "live"
             /\ cOrd'[n].day = day /\ cOrd'[n].filled = 0 /\ cOrd'[n].qty = q
             /\ side = "buy" => /\ p = "OPEN" /\ q = OrderQty /\ cPos[s] = 0
                                /\ \A o \in Oid : Buying(o) => cOrd[o].sym # s
  <2>1. mem'.ord[n] = NewRecord(s, p, q)
    BY <1>2, <1>3 DEF Placing
  <2>2. mem'.ord[n].sym = s /\ mem'.ord[n].purpose = p /\ mem'.ord[n].st = "SUBMITTED"
    BY <2>1 DEF NewRecord
  <2>3. ASSUME side = "buy"
        PROVE  /\ p = "OPEN" /\ q = OrderQty /\ step \in Purchasing
               /\ ~Held(mem, s) /\ ~HasOpenBuy(mem, s)
    <3>1. MayPlace(s, side, p, q)
      BY <1>1 DEF Turn
    <3> QED
      BY <1>3, <2>3, <3>1 DEF MayPlace, BuyInv, BuyTodo, EntryOnce, TodoFree, SellSide, Purchasing
  <2>4. side = "buy" => cPos[s] = 0 /\ \A o \in Oid : Buying(o) => cOrd[o].sym # s
    BY <2>3 DEF EntryOnce, FreeIsFree
  <2> QED
    BY <1>2, <2>2, <2>3, <2>4 DEF Placing
<1>7. ASSUME NEW o \in Oid, Buying(o)'
      PROVE  (o \in N /\ side = "buy") \/ (o \notin N /\ Buying(o))
  BY <1>2, <1>6, <1>7 DEF Leaving, Buying, CLive
<1>8. Fits'
  <2>1. ASSUME NEW o \in Oid, Buying(o)'
        PROVE  /\ cOrd'[o].day = day /\ cOrd'[o].filled < cOrd'[o].qty
               /\ cOrd'[o].qty - cOrd'[o].filled + cPos[cOrd'[o].sym] <= OrderQty
    <3>1. CASE o \in N /\ side = "buy"
      BY <1>3, <1>6, <3>1
    <3>2. CASE o \notin N /\ Buying(o)
      BY <1>2, <3>2 DEF Leaving, EntryOnce, Fits, Rest
    <3> QED
      BY <1>7, <2>1, <3>1, <3>2
  <2>2. ASSUME NEW o \in Oid, NEW k \in Oid, Buying(o)', Buying(k)', cOrd'[o].sym = cOrd'[k].sym
        PROVE  o = k
    <3>1. CASE o \in N /\ k \in N
      BY <1>2, <3>1 DEF Placing
    <3>2. CASE o \notin N /\ k \notin N
      BY <1>2, <1>7, <2>2, <3>2 DEF Leaving, EntryOnce, Fits
    <3>3. ASSUME NEW x \in Oid, NEW y \in Oid, x \in N, side = "buy", y \notin N, Buying(y),
                 cOrd'[x].sym = cOrd'[y].sym
          PROVE  FALSE
      BY <1>2, <1>6, <3>3 DEF Leaving
    <3> QED
      BY <1>7, <2>2, <3>1, <3>2, <3>3
  <2> QED
    BY <1>4, <2>1, <2>2 DEF Fits, Rest, EntryOnce
<1>9. SnapOnce' /\ NoDuplicate'
  BY <1>2, <1>4, <1>s DEF SnapOnce, NoDuplicate, GoesOn
<1>10. FreeIsFree'
  <2>1. SUFFICES ASSUME step' \in Purchasing, NEW x \in Sym, ~Held(mem, x), ~HasOpenBuy(mem, x)'
                 PROVE  cPos[x] = 0 /\ \A o \in Oid : Buying(o)' => cOrd'[o].sym # x
    BY <1>4 DEF FreeIsFree
  <2>2. step \in Purchasing
    BY <1>2, <2>1 DEF GoesOn, Purchasing
  <2>3. C = {}
    BY <1>5, <2>2
  <2>4. ~HasOpenBuy(mem, x)
    <3>1. ASSUME NEW o \in Oid, Live(mem, o), mem.ord[o].sym = x, mem.ord[o].purpose \in BuyAmount
          PROVE  FALSE
      <4>1. o \notin N
        BY <1>2, <3>1 DEF Placing, BuyInv, BuyAbout, Live
      <4> QED
        BY <1>2, <2>1, <2>3, <3>1, <4>1 DEF Leaving, Kept, HasOpenBuy, Live
    <3> QED
      BY <3>1 DEF HasOpenBuy
  <2>5. cPos[x] = 0 /\ \A o \in Oid : Buying(o) => cOrd[o].sym # x
    BY <2>1, <2>2, <2>4 DEF EntryOnce, FreeIsFree
  <2>6. ASSUME NEW o \in Oid, Buying(o)' PROVE cOrd'[o].sym # x
    <3>1. CASE o \in N /\ side = "buy"
      <4>1. x # s
        BY <1>6, <2>1, <3>1 DEF HasOpenBuy, Live, BuyAmount, BuySide
      <4> QED
        BY <1>6, <3>1, <4>1
    <3>2. CASE o \notin N /\ Buying(o)
      BY <1>2, <2>5, <3>2 DEF Leaving
    <3> QED
      BY <1>7, <2>6, <3>1, <3>2
  <2> QED
    BY <2>5, <2>6
<1>11. TodoFree'
  <2>1. step' \in {"buy", "buy_save"} => step = "buy" /\ todo' \subseteq todo
    BY <1>2 DEF GoesOn
  <2>2. todo \subseteq Sym
    BY DEF TypeOK
  <2> QED
    BY <1>4, <2>1, <2>2 DEF EntryOnce, TodoFree
<1> QED
  BY <1>4, <1>8, <1>9, <1>10, <1>11 DEF EntryOnce

\* What the answer does not show and is not young does not work.
LEMMA AbsorbGone ==
  ASSUME NEW m \in PilotState, NEW sn \in [Oid -> CounterOrder], NEW yg, NEW o \in Oid,
         ~sn[o].vis, o \notin yg
  PROVE  AbsorbOrder(m, sn, yg, o).st # "SUBMITTED"
<1>1. m.ord[o] \in Order
  BY DEF PilotState
<1> QED
  BY <1>1 DEF AbsorbOrder, Order, Live

\* The reconciliation: the counter's holdings and its working buys are in the state.
LEMMA EntryAbsorb ==
  ASSUME EntryFaults, TypeOK, SellInv, SellInv', BuyInv, BuyInv', EntryOnce, GetPositions
  PROVE  EntryOnce'
<1>1. /\ step = "positions" /\ cOrd' = cOrd /\ cPos' = cPos /\ young' = young /\ day' = day
      /\ mem' = Absorb(mem, snap, cPos, young) /\ step' \in {"subscribe", "cancel", "pending"}
  BY DEF GetPositions, counter, world, AfterReconcile
<1>2. /\ \A o \in Oid : mem'.ord[o] = AbsorbOrder(mem, snap, young, o)
      /\ \A x \in Sym : mem'.pos[x].rem = cPos[x]
  BY <1>1, AbsorbType DEF TypeOK
<1>3. /\ mem \in PilotState /\ snap \in [Oid -> CounterOrder] /\ cPos \in [Sym -> Nat]
      /\ young = {}
  BY DEF TypeOK, EntryOnce
<1>4. ASSUME NEW o \in Oid, mem'.ord[o].st = "SUBMITTED"
      PROVE  snap[o].vis /\ snap[o].st = "live"
  <2>1. snap[o].vis
    <3>1. o \notin young
      BY <1>3
    <3> QED
      BY <1>2, <1>3, <1>4, <3>1, AbsorbGone
  <2>2. LocalStatus(snap[o].st) = "SUBMITTED"
    BY <1>2, <1>3, <1>4, <2>1, AbsorbOrderFacts
  <2>3. snap[o].st \in {"none", "live", "filled", "dead"} /\ snap[o].st # "none"
    BY <1>1, <1>3, <2>1 DEF CounterOrder, EntryOnce, SnapOnce
  <2> QED
    BY <2>1, <2>2, <2>3 DEF LocalStatus
<1>5. NoDuplicate'
  <2>1. SUFFICES ASSUME NEW o \in Oid, NEW k \in Oid,
                        mem'.ord[o].st = "SUBMITTED", mem'.ord[o].purpose = "OPEN",
                        mem'.ord[k].st = "SUBMITTED", mem'.ord[k].purpose = "OPEN",
                        mem'.ord[o].sym = mem'.ord[k].sym
                 PROVE  o = k
    BY <1>1 DEF NoDuplicate, Live
  <2>2. ASSUME NEW x \in Oid, mem'.ord[x].st = "SUBMITTED", mem'.ord[x].purpose = "OPEN"
        PROVE  snap[x].vis /\ snap[x].st = "live" /\ cOrd[x].side = "buy"
               /\ mem'.ord[x].sym = cOrd[x].sym
    <3>1. cOrd[x].sym = mem'.ord[x].sym /\ cOrd[x].side # "sell"
      BY <1>1, <2>2 DEF SellInv, Matches, BuySide
    <3>2. cOrd[x].side \in {"buy", "sell"}
      BY DEF TypeOK, CounterOrder
    <3> QED
      BY <1>4, <2>2, <3>1, <3>2
  <2> QED
    BY <1>1, <2>1, <2>2 DEF EntryOnce, SnapOnce
<1>6. FreeIsFree'
  <2>1. SUFFICES ASSUME NEW s \in Sym, ~Held(mem, s)', ~HasOpenBuy(mem, s)'
                 PROVE  cPos[s] = 0 /\ \A o \in Oid : Buying(o) => cOrd[o].sym # s
    BY <1>1 DEF FreeIsFree, Buying, CLive
  <2>2. cPos[s] = 0
    BY <1>2, <1>3, <2>1 DEF Held
  <2>3. ASSUME NEW o \in Oid, Buying(o) PROVE cOrd[o].sym # s
    <3>1. snap[o].vis /\ snap[o].st = "live"
      BY <1>1, <2>3 DEF SellInv, SnapInv, Buying
    <3>2. mem'.ord[o].st = "SUBMITTED"
      BY <1>2, <1>3, <3>1, LocalStatusLive, AbsorbOrderFacts
    <3>3. mem'.ord[o].sym = cOrd[o].sym /\ mem'.ord[o].purpose \in BuyAmount
      BY <1>1, <2>3, <3>2 DEF BuyInv, BuyAbout, Buying
    <3> QED
      BY <2>1, <3>2, <3>3 DEF HasOpenBuy, Live
  <2> QED
    BY <2>2, <2>3
<1>7. Fits'
  BY <1>1 DEF EntryOnce, Fits, Buying, CLive, Rest
<1>8. SnapOnce' /\ TodoFree' /\ young' = {}
  BY <1>1 DEF SnapOnce, TodoFree, EntryOnce
<1> QED
  BY <1>5, <1>6, <1>7, <1>8 DEF EntryOnce

\* The other steps of the process.
LEMMA EntryStill ==
  ASSUME EntryFaults, TypeOK, BuyInv, EntryOnce, Still, ~GetPositions
  PROVE  EntryOnce'
<1>w. Where /\ job \in Job /\ ~QueryFails
  BY DEF BuyInv, TypeOK, EntryFaults, QueryFails
<1>1. /\ cOrd' = cOrd /\ cPos' = cPos /\ day' = day
      /\ \/ mem' = disk /\ job' \in {"down", "boot"}
         \/ mem'.ord = mem.ord /\ \A s \in Sym : mem'.pos[s].rem = mem.pos[s].rem
  BY StillKeeps
<1>2. young' = {}
  <2>1. young' = young
    BY ScanTakes DEF Still, Crash, Start, BootSubscribe, GetOrders, QueryFails, SaveOrder,
       PreOpenJob, PreOpenQuery, PreOpenDuplicates, PreOpenOverdue, PreOpenRepairs, PreOpenEnd, Repair,
       TickStart, TickSave, AfterClose, world
  <2> QED
    BY <2>1 DEF EntryOnce
<1>3. Fits'
  BY <1>1 DEF EntryOnce, Fits, Buying, CLive, Rest
<1>4. step' # "cancel"
  BY <1>w, ScanTakes DEF Still, Crash, Start, BootSubscribe, GetOrders, SaveOrder, PreOpenJob,
     PreOpenQuery, PreOpenDuplicates, PreOpenOverdue,
     PreOpenRepairs, PreOpenEnd, Repair, TickStart, TickSave, AfterClose, Idle, ctl, Where
<1>5. SnapOnce'
  <2>1. CASE GetOrders
    <3>1. \A o \in Oid : snap'[o] = IF cOrd[o].vis THEN cOrd[o] ELSE NoOrder
      BY <2>1 DEF GetOrders
    <3>2. ~NoOrder.vis /\ \A o \in Oid : cOrd[o].vis => cOrd[o].st # "none"
      BY DEF NoOrder, BuyInv, Shown
    <3> QED
      BY <1>1, <3>1, <3>2 DEF EntryOnce, Fits, SnapOnce, Buying, CLive
  <2>2. CASE ~GetOrders
    <3>1. step' # "positions"
      BY <1>w, <2>2, ScanTakes DEF Still, Crash, Start, BootSubscribe, SaveOrder, PreOpenJob,
         PreOpenQuery, PreOpenDuplicates, PreOpenOverdue,
         PreOpenRepairs, PreOpenEnd, Repair, TickStart, TickSave, AfterClose, Idle, ctl, Where
    <3> QED
      BY <3>1 DEF SnapOnce
  <2> QED
    BY <2>1, <2>2
<1>6. ASSUME step' \in Purchasing
      PROVE  /\ \/ PreOpenScan \/ SaveOrder \/ PreOpenRepairs
                \/ PreOpenQuery \/ PreOpenDuplicates \/ PreOpenOverdue
             /\ step \in Purchasing /\ job' \notin {"down", "boot"}
  BY <1>w, <1>6, ScanTakes DEF Still, Crash, Start, BootSubscribe, GetOrders, SaveOrder,
     PreOpenJob, PreOpenQuery, PreOpenDuplicates, PreOpenOverdue, PreOpenRepairs, PreOpenEnd,
     Repair, TickStart, TickSave, AfterClose, Idle, ctl, Where, Purchasing
<1>7. ASSUME step' \in Purchasing
      PROVE  \A s \in Sym : /\ Held(mem, s)' = Held(mem, s)
                            /\ HasOpenBuy(mem, s)' = HasOpenBuy(mem, s)
  BY <1>1, <1>6, <1>7 DEF Held, HasOpenBuy, Live
<1>8. FreeIsFree'
  BY <1>1, <1>6, <1>7 DEF EntryOnce, FreeIsFree, Buying, CLive
<1>9. TodoFree'
  <2>1. SUFFICES ASSUME step' \in {"buy", "buy_save"}, NEW s \in todo' PROVE ~Held(mem, s)'
    BY DEF TodoFree
  <2>2. step' \in Purchasing
    BY <2>1 DEF Purchasing
  <2>3. CASE PreOpenScan
    BY <1>7, <2>1, <2>2, <2>3, ScanTakes DEF Signalable
  <2>4. CASE ~PreOpenScan
    <3>1. \/ SaveOrder \/ PreOpenRepairs
          \/ PreOpenQuery \/ PreOpenDuplicates \/ PreOpenOverdue
      BY <1>6, <2>2, <2>4
    <3>2. step = "buy_save" /\ todo' = todo
      BY <2>1, <3>1 DEF SaveOrder, PreOpenRepairs, PreOpenQuery, PreOpenDuplicates,
         PreOpenOverdue
    <3> QED
      BY <1>7, <2>1, <2>2, <3>2 DEF EntryOnce, TodoFree, TypeOK
  <2> QED
    BY <2>3, <2>4
<1>10. NoDuplicate'
  <2>1. CASE PreOpenQuery
    <3>1. YesterdaysBuys = {}
      BY DEF YesterdaysBuys, EntryOnce, Fits, Buying
    <3>2. step = "cancel" /\ step' = "yesterday" /\ oids' = {} /\ mem' = mem
      BY <2>1, <3>1 DEF PreOpenQuery
    <3> QED
      BY <3>2 DEF EntryOnce, NoDuplicate, Live
  <2>2. CASE PreOpenDuplicates
    <3>1. step = "yesterday" /\ step' = "duplicates" /\ oids' = Duplicates(mem)
      BY <2>2 DEF PreOpenDuplicates
    <3>2. Duplicates(mem) = {}
      BY <3>1 DEF Duplicates, Entries, EntryOnce, NoDuplicate, Oid
    <3> QED
      BY <3>1, <3>2 DEF NoDuplicate
  <2>3. CASE step' \notin {"yesterday", "duplicates"}
    BY <1>4, <2>3 DEF NoDuplicate
  <2>4. ASSUME step' \in {"yesterday", "duplicates"}, ~PreOpenQuery, ~PreOpenDuplicates
        PROVE  FALSE
    <3>1. \/ PreOpenScan \/ SaveOrder \/ PreOpenRepairs \/ PreOpenOverdue
      BY <1>6, <2>4 DEF Purchasing
    <3> QED
      BY <2>4, <3>1, ScanTakes DEF SaveOrder, PreOpenRepairs, PreOpenOverdue
  <2> QED
    BY <2>1, <2>2, <2>3, <2>4
<1> QED
  BY <1>2, <1>3, <1>5, <1>8, <1>9, <1>10 DEF EntryOnce

LEMMA EntryStep ==
  ASSUME EntryFaults, TypeOK, SellInv, SellInv', BuyInv, BuyInv', EntryOnce, [Next]_vars
  PROVE  EntryOnce'
BY Steps, EntryCounter, EntryTurn, EntryAbsorb, EntryStill

\* A sum of one order or none.
LEMMA EntryIsOne ==
  ASSUME TypeOK, EntryOnce
  PROVE  OneEntry
<1>1. SUFFICES ASSUME NEW s \in Sym
               PROVE  cPos[s] + MapThenSumSet(Rest, {o \in Oid : /\ CLive(o) /\ cOrd[o].sym = s
                                                                 /\ cOrd[o].side = "buy"})
                         <= OrderQty
  BY DEF OneEntry
<1> DEFINE B == {o \in Oid : /\ CLive(o) /\ cOrd[o].sym = s /\ cOrd[o].side = "buy"}
           r == RestOf(cOrd)
<1>2. cPos[s] \in Nat /\ OrderQty \in Nat /\ cPos[s] <= OrderQty
  BY LedgerAssumption DEF TypeOK, EntryOnce, Fits
<1>3. ASSUME NEW o \in B
      PROVE  r[o] = Rest(o) /\ Rest(o) \in Nat /\ Rest(o) + cPos[s] <= OrderQty /\ B = {o}
  <2>1. Buying(o) /\ cOrd[o].filled \in Nat /\ cOrd[o].qty \in Nat
    BY DEF Buying, TypeOK, CounterOrder
  <2>2. cOrd[o].filled < cOrd[o].qty /\ Rest(o) + cPos[s] <= OrderQty
    BY <2>1 DEF EntryOnce, Fits
  <2>3. r[o] = Rest(o) /\ Rest(o) \in Nat
    BY <2>1, <2>2 DEF Rest, RestOf
  <2>4. \A k \in B : k = o
    BY DEF EntryOnce, Fits, Buying
  <2> QED
    BY <2>2, <2>3, <2>4
<1>4. MapThenSumSet(Rest, B) = SumOf(r, B)
  <2>1. NaturalOn(r, B) /\ B \in SUBSET Oid
    BY <1>3 DEF NaturalOn
  <2> HIDE DEF B
  <2> QED
    BY <2>1, RestsAdd
<1>5. CASE B = {}
  <2> HIDE DEF B
  <2>1. SumOf(r, B) = 0
    BY <1>5, SumEmpty
  <2>2. MapThenSumSet(Rest, B) = 0
    BY <1>4, <2>1
  <2>3. cPos[s] + MapThenSumSet(Rest, B) <= OrderQty
    BY <1>2, <2>2
  <2> QED
    BY <2>3 DEF B
<1>6. CASE B # {}
  <2>1. PICK o \in B : TRUE
    BY <1>6
  <2>2. r[o] = Rest(o) /\ Rest(o) \in Nat /\ Rest(o) + cPos[s] <= OrderQty /\ B = {o}
    BY <1>3
  <2> HIDE DEF B, r
  <2>3. SumOf(r, B) = r[o]
    <3>1. SumOf(r, {} \cup {o}) = SumOf(r, {}) + r[o]
      BY <2>2, SumAdd, FS_EmptySet DEF NaturalOn
    <3>2. SumOf(r, {}) = 0 /\ {} \cup {o} = B
      BY <2>2, SumEmpty
    <3> QED
      BY <2>2, <3>1, <3>2
  <2>4. cPos[s] + MapThenSumSet(Rest, B) <= OrderQty
    <3>1. MapThenSumSet(Rest, B) = Rest(o)
      BY <1>4, <2>2, <2>3
    <3> QED
      BY <1>2, <2>2, <3>1
  <2> QED
    BY <2>4 DEF B
<1> QED
  BY <1>5, <1>6

\* What is held of a symbol and what is working to buy more, cancels under way included,
\* fit in one order's size, through crashes and restarts, refused calls and cancels that
\* fail, if answers come and are up to date, orders end with the day and nothing chases.
THEOREM OneEntryEach == ASSUME EntryFaults PROVE Spec => []OneEntry
<1>0. GoodFaults /\ BuyFaults
  BY EntryFaultsGood
<1>1. Init => TypeOK /\ BuyInv /\ EntryOnce
  BY TypeInit, BuyInit, EntryInit
<1>2. Spec => []SellInv
  BY <1>0, BooksAndSells
<1>3. TypeOK /\ BuyInv /\ EntryOnce /\ SellInv /\ SellInv' /\ [Next]_vars
        => (TypeOK /\ BuyInv /\ EntryOnce)'
  BY <1>0, TypeStep, BuyStep, EntryStep
<1>4. TypeOK /\ BuyInv /\ EntryOnce => OneEntry
  BY EntryIsOne
<1> QED
  BY <1>1, <1>2, <1>3, <1>4, PTL DEF Spec


-----------------------------------------------------------------------------
(***************************************************************************)
(* The capital.  The proof needs, besides, orders that end with their day. *)
(* What works to buy is compared, order by order, with what the state      *)
(* takes for open, and the sums follow.                                    *)
(***************************************************************************)
CapFaults == TodayFaults /\ "overnight" \notin Faults

\* What the buys at the counter may still spend, and what the state reckons with.
BuyRests(c) ==
    [o \in Oid |-> IF c[o].st = "live" /\ c[o].side = "buy" THEN c[o].qty - c[o].filled ELSE 0]

OpenRests(m) ==
    [o \in Oid |-> IF Live(m, o) /\ m.ord[o].purpose \in BuyAmount
                   THEN m.ord[o].qty - m.ord[o].filled ELSE 0]

Exposure == SumOf(cPos, Sym) + SumOf(BuyRests(cOrd), Oid)

\* The pilot recorded every order when it placed it.
Written ==
    \A o \in Oid : cOrd[o].st # "none" =>
        mem.ord[o].st # "NONE" /\ mem.ord[o].purpose # "UNKNOWN"

\* The record of a buy, and the answer of get_orders about it, have its size and
\* count no fill the counter does not.
Sized ==
    \A o \in Oid : cOrd[o].st # "none" /\ cOrd[o].side = "buy" =>
        /\ mem.ord[o].qty = cOrd[o].qty /\ mem.ord[o].filled <= cOrd[o].filled
        /\ cOrd[o].filled <= cOrd[o].qty
        /\ CLive(o) => cOrd[o].filled < cOrd[o].qty /\ cOrd[o].day = day
        /\ step = "positions" /\ snap[o].vis =>
              snap[o].qty = cOrd[o].qty /\ snap[o].filled <= cOrd[o].filled

\* While it buys, the pilot reckons with no less than there is.
Reckoned ==
    step \in {"buy", "buy_save", "repair", "repair_save"} =>
        Exposure <= SumOf(vol, Sym) + SumOf(OpenRests(mem), Oid)

CapInv == Written /\ Sized /\ Reckoned /\ Exposure <= CapAmt


LEMMA ValueIs ==
  ASSUME NEW v \in [Sym -> Nat]
  PROVE  MarketValue(v) = SumOf(v, Sym) /\ SumOf(v, Sym) \in Nat
<1> DEFINE Folds(g) == g = [T \in SUBSET Sym |-> IF T = {} THEN 0
                                                 ELSE v[Pick(T)] + g[T \ {Pick(T)}]]
<1>1. IsFiniteSet(Sym) /\ NaturalOn(v, Sym)
  BY LedgerAssumption DEF NaturalOn
<1>2. ASSUME NEW g PROVE Folds(g) <=> IsSum(v, g, Sym)
  BY Zenon DEF IsSum
<1>3. MarketValue(v) = (CHOOSE g : Folds(g))[Sym]
  BY DEF MarketValue, MapThenSumSet, MapThenFoldSet, Pick
<1> HIDE DEF Folds
<1>4. Folds(CHOOSE g : Folds(g))
  <2>1. \E g : Folds(g)
    BY <1>1, <1>2, SumExists
  <2> QED
    BY <2>1, Zenon
<1> QED
  BY <1>1, <1>2, <1>3, <1>4, SumUnique, SumNat

LEMMA OpenIs ==
  ASSUME NEW m, NaturalOn(OpenRests(m), Oid)
  PROVE  OpenBuyAmount(m) = SumOf(OpenRests(m), Oid)
<1> DEFINE S == {o \in Oid : Live(m, o) /\ m.ord[o].purpose \in BuyAmount}
           W == OpenRests(m)
           Folds(g) == g = [T \in SUBSET S |-> IF T = {} THEN 0
                              ELSE (m.ord[Pick(T)].qty - m.ord[Pick(T)].filled)
                                       + g[T \ {Pick(T)}]]
<1>1. IsFiniteSet(S) /\ NaturalOn(W, S) /\ S \in SUBSET Oid
  <2>1. MaxOrders \in Nat /\ IsFiniteSet(Oid)
    BY LedgerAssumption, FS_Interval DEF Oid
  <2> QED
    BY <2>1, FS_Subset DEF NaturalOn
<1>2. \A T \in SUBSET S : T # {} =>
         Pick(T) \in S /\ W[Pick(T)] = m.ord[Pick(T)].qty - m.ord[Pick(T)].filled
  BY DEF Pick, OpenRests
<1>3. ASSUME NEW g PROVE Folds(g) <=> IsSum(W, g, S)
  <2> HIDE DEF W, S
  <2>1. [T \in SUBSET S |-> IF T = {} THEN 0
                            ELSE (m.ord[Pick(T)].qty - m.ord[Pick(T)].filled) + g[T \ {Pick(T)}]]
          = [T \in SUBSET S |-> IF T = {} THEN 0 ELSE W[Pick(T)] + g[T \ {Pick(T)}]]
    BY <1>2
  <2> QED
    BY <2>1, Zenon DEF IsSum
<1>4. OpenBuyAmount(m) = (CHOOSE g : Folds(g))[S]
  BY DEF OpenBuyAmount, MapThenSumSet, MapThenFoldSet, Pick
<1>5. SumOf(W, S) = SumOf(W, Oid)
  <2>1. \A o \in Oid \ S : W[o] = 0
    BY DEF OpenRests
  <2> HIDE DEF W, S
  <2> QED
    BY <1>1, <2>1, SumPadded
<1> HIDE DEF Folds, W, S
<1>6. Folds(CHOOSE g : Folds(g))
  <2>1. \E g : Folds(g)
    BY <1>1, <1>3, SumExists
  <2> QED
    BY <2>1, Zenon
<1>7. (CHOOSE g : Folds(g))[S] = SumOf(W, S)
  BY <1>1, <1>3, <1>6, SumUnique
<1> QED
  BY <1>4, <1>5, <1>7 DEF W


\* The sums are naturals, and a pilot that has reconciled knows all that is to be bought.
LEMMA CapNow ==
  ASSUME TypeOK, BuyInv, TodayInv, CapInv
  PROVE  /\ NaturalOn(BuyRests(cOrd), Oid) /\ NaturalOn(OpenRests(mem), Oid)
         /\ SumOf(BuyRests(cOrd), Oid) \in Nat /\ SumOf(OpenRests(mem), Oid) \in Nat
         /\ SumOf(cPos, Sym) \in Nat /\ SumOf(vol, Sym) \in Nat /\ CapAmt \in Nat
         /\ IsFiniteSet(Oid) /\ IsFiniteSet(Sym)
         /\ InStep => SumOf(BuyRests(cOrd), Oid) <= SumOf(OpenRests(mem), Oid)
<1>0. /\ cOrd \in Counters /\ mem \in PilotState /\ day \in Nat
      /\ cPos \in [Sym -> Nat] /\ vol \in [Sym -> Nat]
  BY DEF TypeOK, Counters
<1>1. IsFiniteSet(Oid) /\ IsFiniteSet(Sym) /\ CapAmt \in Nat
  BY FS_Interval, LedgerAssumption DEF Oid
<1>2. \A o \in Oid : /\ cOrd[o].qty \in Nat /\ cOrd[o].filled \in Nat
                     /\ mem.ord[o].qty \in Nat /\ mem.ord[o].filled \in Nat
  BY <1>0 DEF Counters, CounterOrder, PilotState, Order
<1>3. ASSUME NEW o \in Oid, cOrd[o].st = "live", cOrd[o].side = "buy"
      PROVE  /\ cOrd[o].filled < cOrd[o].qty /\ mem.ord[o].qty = cOrd[o].qty
             /\ mem.ord[o].filled <= cOrd[o].filled
             /\ InStep => Live(mem, o) /\ mem.ord[o].purpose \in BuyAmount
  <2>1. /\ cOrd[o].filled < cOrd[o].qty /\ mem.ord[o].qty = cOrd[o].qty
        /\ mem.ord[o].filled <= cOrd[o].filled /\ cOrd[o].day = day
    BY <1>3 DEF CapInv, Sized, CLive
  <2>2. OfToday(o)
    BY <1>3, <2>1 DEF OfToday
  <2> QED
    BY <1>3, <2>1, <2>2 DEF TodayInv, Untouched, BuyInv, KnowsBuys, WorkingBuy, CLive, BuyAmount,
                            BuySide
<1>4. ASSUME NEW o \in Oid, Live(mem, o), mem.ord[o].purpose \in BuyAmount
      PROVE  mem.ord[o].filled <= mem.ord[o].qty
  <2>1. cOrd[o].st # "none" /\ mem.ord[o].purpose \in BuySide
    BY <1>4 DEF BuyInv, BuyAbout, Live, CapInv, Written, BuyAmount
  <2>2. cOrd[o].side = "buy"
    BY <1>4, <2>1 DEF TodayInv, Dated, Live
  <2>3. mem.ord[o].qty = cOrd[o].qty /\ mem.ord[o].filled <= cOrd[o].filled
        /\ cOrd[o].filled <= cOrd[o].qty
    BY <2>1, <2>2 DEF CapInv, Sized
  <2> QED
    BY <1>2, <2>3
<1>5. NaturalOn(BuyRests(cOrd), Oid)
  BY <1>2, <1>3 DEF NaturalOn, BuyRests
<1>6. NaturalOn(OpenRests(mem), Oid)
  BY <1>2, <1>4 DEF NaturalOn, OpenRests
<1>7. ASSUME InStep PROVE \A o \in Oid : BuyRests(cOrd)[o] <= OpenRests(mem)[o]
  <2>1. ASSUME NEW o \in Oid PROVE BuyRests(cOrd)[o] <= OpenRests(mem)[o]
    <3>1. CASE cOrd[o].st = "live" /\ cOrd[o].side = "buy"
      BY <1>2, <1>3, <1>7, <3>1 DEF BuyRests, OpenRests
    <3>2. CASE ~(cOrd[o].st = "live" /\ cOrd[o].side = "buy")
      <4>1. BuyRests(cOrd)[o] = 0 /\ OpenRests(mem)[o] \in Nat
        BY <1>6, <3>2 DEF BuyRests, NaturalOn
      <4> QED
        BY <4>1
    <3> QED
      BY <3>1, <3>2
  <2> QED
    BY <2>1
<1>8. InStep => SumOf(BuyRests(cOrd), Oid) <= SumOf(OpenRests(mem), Oid)
  BY <1>1, <1>5, <1>6, <1>7, SumLeq
<1>9. SumOf(BuyRests(cOrd), Oid) \in Nat /\ SumOf(OpenRests(mem), Oid) \in Nat
  BY <1>1, <1>5, <1>6, SumNat
<1> QED
  BY <1>0, <1>1, <1>5, <1>6, <1>8, <1>9, ValueIs

LEMMA CapInit == Init => CapInv
<1> SUFFICES ASSUME Init PROVE CapInv
  OBVIOUS
<1>1. \A o \in Oid : cOrd[o].st = "none"
  BY DEF Init, NoSnap, NoOrder
<1>2. step = "none" /\ cPos = NoVol
  BY DEF Init
<1>3. SumOf(cPos, Sym) = 0
  BY <1>2, SumPadded, SumEmpty DEF NoVol
<1>4. SumOf(BuyRests(cOrd), Oid) = 0
  <2>1. \A o \in Oid : BuyRests(cOrd)[o] = 0
    BY <1>1 DEF BuyRests
  <2> QED
    BY <2>1, SumPadded, SumEmpty
<1> QED
  BY <1>1, <1>2, <1>3, <1>4, LedgerAssumption DEF CapInv, Written, Sized, Reckoned, Exposure

\* Nothing is placed and nothing forgotten, and no more is held or to be bought.
LEMMA CapLess ==
  ASSUME TypeOK, BuyInv, TodayInv, CapInv, Written', Sized', UNCHANGED <<mem, vol, step>>,
         Exposure' <= Exposure, Exposure' \in Nat
  PROVE  CapInv'
<1>1. /\ Exposure \in Nat /\ CapAmt \in Nat
      /\ SumOf(vol, Sym) + SumOf(OpenRests(mem), Oid) \in Nat
  BY CapNow DEF Exposure
<1>2. Exposure' <= CapAmt
  BY <1>1 DEF CapInv
<1>3. Reckoned'
  <2>1. SUFFICES ASSUME step \in {"buy", "buy_save", "repair", "repair_save"}
                 PROVE  Exposure' <= SumOf(vol, Sym) + SumOf(OpenRests(mem), Oid)
    BY DEF Reckoned
  <2>2. Exposure <= SumOf(vol, Sym) + SumOf(OpenRests(mem), Oid)
    BY <2>1 DEF CapInv, Reckoned
  <2> QED
    BY <1>1, <2>2
<1> QED
  BY <1>2, <1>3 DEF CapInv


\* A lot that is bought moves from what is to be bought to what is held.
LEMMA CapFill ==
  ASSUME TypeOK, BuyInv, TodayInv, CapInv, NEW x \in Oid, CounterFill(x)
  PROVE  CapInv'
<1>0. /\ cOrd \in Counters /\ mem \in PilotState /\ snap \in [Oid -> CounterOrder]
      /\ cPos \in [Sym -> Nat] /\ cOrd[x].sym \in Sym
  BY DEF TypeOK, Counters, CounterOrder
<1>1. /\ UNCHANGED <<mem, vol, step, snap, day>> /\ cOrd[x].st = "live"
  BY DEF CounterFill, world, pilot, ctl, CLive
<1>2. /\ \A o \in Oid : o # x => cOrd'[o] = cOrd[o]
      /\ cOrd'[x].filled = cOrd[x].filled + 1 /\ cOrd'[x].qty = cOrd[x].qty
      /\ cOrd'[x].st = IF cOrd[x].filled + 1 >= cOrd[x].qty THEN "filled" ELSE "live"
      /\ cOrd'[x].side = cOrd[x].side /\ cOrd'[x].day = cOrd[x].day
  BY <1>0 DEF CounterFill, Counters, CounterOrder
<1>3. \A o \in Oid : /\ cOrd[o].qty \in Nat /\ cOrd[o].filled \in Nat
                     /\ mem.ord[o].filled \in Nat /\ snap[o].filled \in Nat
  BY <1>0 DEF Counters, CounterOrder, PilotState, Order
<1>4. Written'
  BY <1>1, <1>2 DEF CapInv, Written
<1>5. Sized'
  <2>1. ASSUME NEW o \in Oid, cOrd'[o].st # "none", cOrd'[o].side = "buy"
        PROVE  /\ mem.ord[o].qty = cOrd'[o].qty /\ mem.ord[o].filled <= cOrd'[o].filled
               /\ cOrd'[o].filled <= cOrd'[o].qty
               /\ cOrd'[o].st = "live" => cOrd'[o].filled < cOrd'[o].qty /\ cOrd'[o].day = day
               /\ step = "positions" /\ snap[o].vis =>
                     snap[o].qty = cOrd'[o].qty /\ snap[o].filled <= cOrd'[o].filled
    <3>1. CASE o = x
      <4>1. /\ mem.ord[x].qty = cOrd[x].qty /\ mem.ord[x].filled <= cOrd[x].filled
            /\ cOrd[x].filled < cOrd[x].qty /\ cOrd[x].day = day
            /\ step = "positions" /\ snap[x].vis =>
                  snap[x].qty = cOrd[x].qty /\ snap[x].filled <= cOrd[x].filled
        BY <1>1, <1>2, <2>1, <3>1 DEF CapInv, Sized, CLive
      <4> QED
        BY <1>2, <1>3, <3>1, <4>1
    <3>2. CASE o # x
      BY <1>2, <2>1, <3>2 DEF CapInv, Sized, CLive
    <3> QED
      BY <3>1, <3>2
  <2> QED
    BY <1>1, <2>1 DEF Sized, CLive
<1> DEFINE f == BuyRests(cOrd)
           g == BuyRests(cOrd')
           s == cOrd[x].sym
<1>6. NaturalOn(f, Oid) /\ IsFiniteSet(Oid) /\ IsFiniteSet(Sym)
  BY CapNow
<1>7. \A o \in Oid \ {x} : g[o] = f[o]
  BY <1>2 DEF BuyRests
<1>8. \A y \in Sym \ {s} : cPos'[y] = cPos[y]
  BY <1>0 DEF CounterFill
<1>9. CASE cOrd[x].side = "buy"
  <2>1. cOrd[x].filled < cOrd[x].qty
    BY <1>1, <1>9 DEF CapInv, Sized, CLive
  <2>2. f[x] = cOrd[x].qty - cOrd[x].filled
    BY <1>1, <1>9 DEF BuyRests
  <2>3. g[x] = f[x] - 1 /\ g[x] \in Nat
    <3>1. CASE cOrd[x].filled + 1 >= cOrd[x].qty
      BY <1>2, <1>3, <1>9, <2>1, <2>2, <3>1 DEF BuyRests
    <3>2. CASE ~(cOrd[x].filled + 1 >= cOrd[x].qty)
      BY <1>2, <1>3, <1>9, <2>1, <2>2, <3>2 DEF BuyRests
    <3> QED
      BY <3>1, <3>2
  <2>4. cPos'[s] = cPos[s] + 1 /\ cPos' \in [Sym -> Nat]
    BY <1>0, <1>9 DEF CounterFill
  <2> HIDE DEF f, g, s
  <2>5. NaturalOn(g, Oid)
    BY <1>6, <1>7, <2>3 DEF NaturalOn
  <2>6. SumOf(f, Oid) - f[x] = SumOf(g, Oid) - g[x]
    BY <1>6, <1>7, <2>5, SumShift
  <2>7. SumOf(cPos, Sym) - cPos[s] = SumOf(cPos', Sym) - cPos'[s]
    <3>1. NaturalOn(cPos, Sym) /\ NaturalOn(cPos', Sym) /\ s \in Sym
      BY <1>0, <2>4 DEF NaturalOn, s
    <3> QED
      BY <1>6, <1>8, <3>1, SumShift
  <2>8. /\ SumOf(f, Oid) \in Nat /\ SumOf(g, Oid) \in Nat /\ f[x] \in Nat
        /\ SumOf(cPos, Sym) \in Nat /\ SumOf(cPos', Sym) \in Nat /\ cPos[s] \in Nat
    BY <1>0, <1>6, <2>4, <2>5, SumNat, ValueIs DEF NaturalOn, s
  <2>9. SumOf(cPos', Sym) + SumOf(g, Oid) = SumOf(cPos, Sym) + SumOf(f, Oid)
    BY <2>3, <2>4, <2>6, <2>7, <2>8
  <2>10. Exposure' <= Exposure /\ Exposure' \in Nat
    BY <2>8, <2>9 DEF Exposure, f, g
  <2> QED
    BY <1>1, <1>4, <1>5, <2>10, CapLess
<1>10. CASE cOrd[x].side # "buy"
  <2>1. cPos'[s] = cPos[s] - 1 /\ cPos' \in [Sym -> Nat]
    <3>1. cOrd[x].side = "sell"
      BY <1>0, <1>10 DEF Counters, CounterOrder
    <3>2. cPos[s] > 0
      BY <3>1 DEF CounterFill
    <3> QED
      BY <1>0, <1>10, <3>2 DEF CounterFill
  <2>2. g[x] = f[x]
    BY <1>2, <1>10 DEF BuyRests
  <2> HIDE DEF f, g, s
  <2>3. SumOf(g, Oid) = SumOf(f, Oid)
    BY <1>7, <2>2, SumAlike
  <2>4. SumOf(cPos', Sym) <= SumOf(cPos, Sym)
    <3>1. NaturalOn(cPos, Sym) /\ NaturalOn(cPos', Sym)
      BY <1>0, <2>1 DEF NaturalOn
    <3>2. \A y \in Sym : cPos'[y] <= cPos[y]
      BY <1>0, <1>8, <2>1
    <3> QED
      BY <1>6, <3>1, <3>2, SumLeq
  <2>5. /\ SumOf(f, Oid) \in Nat /\ SumOf(cPos, Sym) \in Nat /\ SumOf(cPos', Sym) \in Nat
    BY <1>0, <1>6, <2>1, SumNat, ValueIs
  <2>6. Exposure' <= Exposure /\ Exposure' \in Nat
    BY <2>3, <2>4, <2>5 DEF Exposure, f, g
  <2> QED
    BY <1>1, <1>4, <1>5, <2>6, CapLess
<1> QED
  BY <1>9, <1>10

\* The rest of what the counter and the clock do.
LEMMA CapCounter ==
  ASSUME CapFaults, TypeOK, BuyInv, TodayInv, CapInv,
         CounterStep \/ NewDay \/ (\E o \in Oid : GraceEnds(o)) \/ Flag \/ Clock \/ UNCHANGED vars
  PROVE  CapInv'
<1>0. cOrd \in Counters /\ cPos \in [Sym -> Nat]
  BY DEF TypeOK, Counters
<1>1. CASE \E x \in Oid : CounterFill(x)
  BY <1>1, CapFill
<1>2. CASE (\E x \in Oid : CounterClose(x) \/ CounterReveal(x)) \/ NewDay
           \/ (\E o \in Oid : GraceEnds(o)) \/ Flag \/ Clock \/ UNCHANGED vars
  <2>1. UNCHANGED <<mem, vol, step, snap, cPos>>
    <3>1. CASE NewDay
      <4>1. UNCHANGED <<cPos, pilot>>
        BY <3>1, Zenon DEF NewDay
      <4> QED
        BY <4>1 DEF pilot, ctl
    <3>2. CASE ~NewDay
      BY <1>2, <3>2 DEF CounterClose, CounterReveal, GraceEnds, Flag, Clock, vars, counter, pilot,
                        ctl
    <3> QED
      BY <3>1, <3>2
  <2>2. \A o \in Oid : /\ cOrd'[o].side = cOrd[o].side /\ cOrd'[o].qty = cOrd[o].qty
                       /\ cOrd'[o].filled = cOrd[o].filled /\ cOrd'[o].day = cOrd[o].day
                       /\ cOrd'[o].st # "none" => cOrd[o].st # "none"
                       /\ cOrd'[o].st = "live" => cOrd[o].st = "live" /\ day' = day
    <3>1. CASE \E x \in Oid : CounterClose(x) \/ CounterReveal(x)
      BY <1>0, <3>1 DEF CounterClose, CounterReveal, Counters, CounterOrder, CLive, world
    <3>2. CASE NewDay
      BY <3>2, DayCloses DEF CapFaults, CLive
    <3>3. CASE (\E o \in Oid : GraceEnds(o)) \/ Flag \/ Clock \/ UNCHANGED vars
      BY <3>3 DEF GraceEnds, Flag, Clock, vars, counter, world
    <3> QED
      BY <1>2, <3>1, <3>2, <3>3
  <2>3. Written'
    BY <2>1, <2>2 DEF CapInv, Written
  <2>4. Sized'
    BY <2>1, <2>2 DEF CapInv, Sized, CLive
  <2> DEFINE f == BuyRests(cOrd)
             g == BuyRests(cOrd')
  <2>5. NaturalOn(f, Oid) /\ IsFiniteSet(Oid)
    BY CapNow
  <2>6. \A o \in Oid : g[o] \in Nat /\ g[o] <= f[o]
    <3>1. ASSUME NEW o \in Oid PROVE (g[o] = f[o] \/ g[o] = 0) /\ f[o] \in Nat
      BY <2>2, <2>5 DEF BuyRests, NaturalOn
    <3> HIDE DEF f, g
    <3> QED
      BY <3>1
  <2> HIDE DEF f, g
  <2>7. NaturalOn(g, Oid)
    BY <2>6 DEF NaturalOn
  <2>8. SumOf(g, Oid) <= SumOf(f, Oid)
    BY <2>5, <2>6, <2>7, SumLeq
  <2>9. SumOf(f, Oid) \in Nat /\ SumOf(g, Oid) \in Nat /\ SumOf(cPos, Sym) \in Nat
    BY <1>0, <2>5, <2>7, SumNat, ValueIs
  <2>10. Exposure' <= Exposure /\ Exposure' \in Nat
    BY <2>1, <2>8, <2>9 DEF Exposure, f, g
  <2> QED
    BY <2>1, <2>3, <2>4, <2>10, CapLess
<1> QED
  BY <1>1, <1>2 DEF CounterStep


\* A turn: an entry is only placed when the capital has room for it.
LEMMA CapTurn ==
  ASSUME TodayFaults, TypeOK, BuyInv, TodayInv, CapInv, TurnStep
  PROVE  CapInv'
<1>1. PICK C \in SUBSET Oid, N \in SUBSET FreeOid, s \in Sym, side \in {"buy", "sell"},
           p \in Purpose, q \in Nat : Turn(C, N, s, side, p, q)
  BY Turns
<1>2. Placing(C, N, s, side, p, q) /\ Leaving(C, N) /\ GoesOn /\ N \subseteq Oid
  BY <1>1, MovesFacts DEF Turn, FreeOid
<1>3. UNCHANGED <<cPos, day, vol>> /\ step' # "positions"
  BY <1>2 DEF GoesOn
<1>4. "lost" \notin Faults /\ ~ChaseEntry
  BY DEF TodayFaults, BuyFaults
<1>5. ASSUME NEW n \in N
      PROVE  /\ mem'.ord[n].purpose = p /\ mem'.ord[n].st = "SUBMITTED"
             /\ mem'.ord[n].qty = q /\ mem'.ord[n].filled = 0
             /\ cOrd'[n].qty = q /\ cOrd'[n].filled = 0 /\ cOrd'[n].side = side
             /\ cOrd'[n].st = "live" /\ cOrd'[n].day = day
             /\ cOrd[n].st = "none" /\ mem.ord[n].st = "NONE" /\ n \in Oid
             /\ p # "UNKNOWN" /\ (side = "sell" => p \notin BuyAmount)
             /\ side = "buy" => /\ p = "OPEN" /\ q = OrderQty /\ CheckCaps(mem, vol, q, day)
                                /\ step \in {"buy", "repair"}
  <2>1. MayPlace(s, side, p, q)
    BY <1>1 DEF Turn
  <2>2. /\ p # "UNKNOWN" /\ (side = "sell" => p \notin BuyAmount)
        /\ side = "buy" => /\ p = "OPEN" /\ q = OrderQty /\ CheckCaps(mem, vol, q, day)
                           /\ step \in {"buy", "repair"}
    BY <1>4, <2>1 DEF MayPlace, SellSide, BuyAmount, BuySide
  <2>3. mem'.ord[n] = NewRecord(s, p, q)
    BY <1>2, <1>4 DEF Placing
  <2>4. /\ mem'.ord[n].purpose = p /\ mem'.ord[n].st = "SUBMITTED"
        /\ mem'.ord[n].qty = q /\ mem'.ord[n].filled = 0
    BY <2>3 DEF NewRecord
  <2>5. cOrd[n].st = "none" /\ n \in Oid
    BY <1>2 DEF Placing
  <2>6. mem.ord[n].st = "NONE"
    BY <2>5 DEF BuyInv, BuyAbout
  <2> QED
    BY <1>2, <2>2, <2>4, <2>5, <2>6 DEF Placing
<1>6. OrderQty \in Nat /\ OrderQty > 0
  BY LedgerAssumption
<1>7. Written'
  <2>1. ASSUME NEW o \in Oid, cOrd'[o].st # "none"
        PROVE  mem'.ord[o].st # "NONE" /\ mem'.ord[o].purpose # "UNKNOWN"
    <3>1. CASE o \in N
      BY <1>5, <3>1
    <3>2. CASE o \notin N
      BY <1>2, <2>1, <3>2 DEF Leaving, Kept, CapInv, Written
    <3> QED
      BY <3>1, <3>2
  <2> QED
    BY <2>1 DEF Written
<1>8. Sized'
  <2>1. ASSUME NEW o \in Oid, cOrd'[o].st # "none", cOrd'[o].side = "buy"
        PROVE  /\ mem'.ord[o].qty = cOrd'[o].qty /\ mem'.ord[o].filled <= cOrd'[o].filled
               /\ cOrd'[o].filled <= cOrd'[o].qty
               /\ cOrd'[o].st = "live" => cOrd'[o].filled < cOrd'[o].qty /\ cOrd'[o].day = day
    <3>1. CASE o \in N
      BY <1>5, <1>6, <2>1, <3>1
    <3>2. CASE o \notin N
      BY <1>2, <2>1, <3>2 DEF Leaving, Kept, CapInv, Sized, CLive
    <3> QED
      BY <3>1, <3>2
  <2> QED
    BY <1>3, <2>1 DEF Sized, CLive
<1> DEFINE f == BuyRests(cOrd)
           g == BuyRests(cOrd')
           h == OpenRests(mem)
           k == OpenRests(mem')
<1>9. /\ NaturalOn(f, Oid) /\ NaturalOn(h, Oid) /\ IsFiniteSet(Oid)
      /\ SumOf(f, Oid) \in Nat /\ SumOf(h, Oid) \in Nat
      /\ SumOf(cPos, Sym) \in Nat /\ SumOf(vol, Sym) \in Nat /\ CapAmt \in Nat
  BY CapNow
<1>10. \A o \in Oid \ N : g[o] = f[o]
  BY <1>2 DEF Leaving, BuyRests
<1>11. step \in {"buy", "repair"} => \A o \in Oid \ N : k[o] = h[o]
  <2>1. step \in {"buy", "repair"} => C = {}
    BY <1>1 DEF Turn, MayCancel
  <2> QED
    BY <1>2, <2>1 DEF Leaving, Kept, OpenRests, Live
<1>12. step' \in {"buy", "buy_save", "repair", "repair_save"} => step \in {"buy", "repair"}
  BY <1>2 DEF GoesOn
<1>13. CASE N = {} \/ side = "sell"
  <2>1. \A o \in Oid : g[o] = f[o]
    <3>1. \A n \in N : g[n] = 0 /\ f[n] = 0
      BY <1>5, <1>13 DEF BuyRests
    <3> QED
      BY <1>10, <3>1
  <2>2. step \in {"buy", "repair"} => \A o \in Oid : k[o] = h[o]
    <3>1. \A n \in N : k[n] = 0 /\ h[n] = 0
      BY <1>5, <1>13 DEF OpenRests, Live
    <3> QED
      BY <1>11, <3>1
  <2> HIDE DEF f, g, h, k
  <2>3. SumOf(g, Oid) = SumOf(f, Oid)
    BY <2>1, SumAlike
  <2>4. step \in {"buy", "repair"} => SumOf(k, Oid) = SumOf(h, Oid)
    BY <2>2, SumAlike
  <2>5. Exposure' = Exposure
    BY <1>3, <2>3 DEF Exposure, f, g
  <2>6. Reckoned'
    BY <1>3, <1>12, <2>4, <2>5 DEF Reckoned, CapInv, h, k
  <2> QED
    BY <1>7, <1>8, <2>5, <2>6 DEF CapInv
<1>14. CASE N # {} /\ side = "buy"
  <2>1. PICK n \in N : N = {n}
    BY <1>2, <1>14 DEF Placing
  <2>2. /\ n \in Oid /\ q = OrderQty /\ CheckCaps(mem, vol, q, day)
        /\ step \in {"buy", "repair"}
    BY <1>5, <1>14, <2>1
  <2>3. g[n] = q /\ f[n] = 0 /\ k[n] = q /\ h[n] = 0
    BY <1>5, <1>6, <1>14, <2>1 DEF BuyRests, OpenRests, Live, BuyAmount, BuySide
  <2>4. q <= CapAmt - SumOf(vol, Sym) - SumOf(h, Oid)
    <3>1. vol \in [Sym -> Nat]
      BY DEF TypeOK
    <3> QED
      BY <1>9, <2>2, <3>1, ValueIs, OpenIs DEF CheckCaps
  <2>5. Exposure <= SumOf(vol, Sym) + SumOf(h, Oid)
    BY <2>2 DEF CapInv, Reckoned
  <2> HIDE DEF f, g, h, k
  <2>6. NaturalOn(g, Oid) /\ NaturalOn(k, Oid)
    BY <1>9, <1>10, <1>11, <2>1, <2>2, <2>3 DEF NaturalOn
  <2>7. SumOf(g, Oid) - q = SumOf(f, Oid) - 0
    BY <1>9, <1>10, <2>1, <2>2, <2>3, <2>6, SumShift
  <2>8. SumOf(k, Oid) - q = SumOf(h, Oid) - 0
    BY <1>9, <1>11, <2>1, <2>2, <2>3, <2>6, SumShift
  <2>9. SumOf(g, Oid) \in Nat /\ SumOf(k, Oid) \in Nat
    BY <1>9, <2>6, SumNat
  <2>10. Exposure = SumOf(cPos, Sym) + SumOf(f, Oid) /\ Exposure' = SumOf(cPos, Sym) + SumOf(g, Oid)
    BY <1>3 DEF Exposure, f, g
  <2>11. /\ Exposure' <= SumOf(vol, Sym) + SumOf(k, Oid)
         /\ Exposure' <= CapAmt
    BY <1>9, <2>4, <2>5, <2>7, <2>8, <2>9, <2>10
  <2>12. Reckoned'
    BY <1>3, <2>11 DEF Reckoned, k
  <2> QED
    BY <1>7, <1>8, <2>11, <2>12 DEF CapInv
<1> QED
  BY <1>13, <1>14

\* The reconciliation: a record takes the size and the fills of the answer.
LEMMA CapAbsorb ==
  ASSUME TypeOK, BuyInv, TodayInv, CapInv, GetPositions
  PROVE  CapInv'
<1>1. /\ step = "positions" /\ cOrd' = cOrd /\ cPos' = cPos /\ day' = day
      /\ mem' = Absorb(mem, snap, cPos, young) /\ step' \in {"subscribe", "cancel", "pending"}
  BY DEF GetPositions, counter, world, AfterReconcile
<1>2. \A o \in Oid : mem'.ord[o] = AbsorbOrder(mem, snap, young, o)
  BY <1>1, AbsorbType DEF TypeOK
<1>3. mem \in PilotState /\ snap \in [Oid -> CounterOrder]
  BY DEF TypeOK
<1>4. ASSUME NEW o \in Oid
      PROVE  /\ snap[o].vis => /\ mem'.ord[o].qty = snap[o].qty
                               /\ mem'.ord[o].filled = snap[o].filled
             /\ ~snap[o].vis => /\ mem'.ord[o].qty = mem.ord[o].qty
                                /\ mem'.ord[o].filled = mem.ord[o].filled
             /\ mem.ord[o].st # "NONE" => /\ mem'.ord[o].st # "NONE"
                                          /\ mem'.ord[o].purpose = mem.ord[o].purpose
  BY <1>2, <1>3, AbsorbOrderFacts, AbsorbKeeps
<1>5. Written'
  BY <1>1, <1>4 DEF CapInv, Written
<1>6. Sized'
  <2>1. ASSUME NEW o \in Oid, cOrd[o].st # "none", cOrd[o].side = "buy"
        PROVE  /\ mem'.ord[o].qty = cOrd[o].qty /\ mem'.ord[o].filled <= cOrd[o].filled
               /\ cOrd[o].filled <= cOrd[o].qty
               /\ CLive(o) => cOrd[o].filled < cOrd[o].qty /\ cOrd[o].day = day
    BY <1>1, <1>4, <2>1 DEF CapInv, Sized
  <2> QED
    BY <1>1, <2>1 DEF Sized, CLive
<1> QED
  BY <1>1, <1>5, <1>6 DEF CapInv, Reckoned, Exposure

\* The other steps of the process: the account is read when phase 5 begins, and once more
\* for the repairs.
LEMMA CapStill ==
  ASSUME TodayFaults, TypeOK, BuyInv, TodayInv, CapInv, Still, ~GetPositions
  PROVE  CapInv'
<1>w. Where /\ job \in Job /\ "crash" \notin Faults
  BY DEF BuyInv, TypeOK, TodayFaults
<1>1. /\ cOrd' = cOrd /\ day' = day /\ cPos' = cPos
      /\ \/ mem' = disk /\ job' \in {"down", "boot"}
         \/ mem'.ord = mem.ord
  BY StillKeeps
<1>2. Exposure' = Exposure
  BY <1>1 DEF Exposure
<1>3. CASE Crash \/ Start
  <2>1. job = "down" /\ step' = "orders"
    BY <1>w, <1>3 DEF Crash, Start
  <2>2. \A o \in Oid : cOrd'[o].st = "none"
    BY <1>1, <1>w, <2>1 DEF BuyInv, NothingYet
  <2> QED
    BY <1>2, <2>1, <2>2 DEF CapInv, Written, Sized, Reckoned
<1>4. CASE ~Crash /\ ~Start
  <2>1. mem'.ord = mem.ord
    <3>1. CASE PreOpenJob \/ PreOpenScan \/ AfterClose
      <4>1. job' \notin {"down", "boot"}
        BY <1>w, <3>1, ScanTakes DEF PreOpenJob, AfterClose, ctl, Where
      <4> QED
        BY <1>1, <4>1
    <3>2. CASE ~(PreOpenJob \/ PreOpenScan \/ AfterClose)
      <4>1. mem' = mem
        BY <1>4, <3>2 DEF Still, BootSubscribe, GetOrders, QueryFails, SaveOrder,
           PreOpenQuery, PreOpenDuplicates, PreOpenOverdue, PreOpenRepairs, PreOpenEnd,
           Repair, TickStart, TickSave
      <4> QED
        BY <4>1
    <3> QED
      BY <3>1, <3>2
  <2>2. Written'
    BY <1>1, <2>1 DEF CapInv, Written
  <2>3. OpenRests(mem') = OpenRests(mem)
    BY <2>1 DEF OpenRests, Live
  <2>4. Sized'
    <3>1. CASE GetOrders
      <4>1. /\ \A o \in Oid : snap'[o] = IF cOrd[o].vis THEN cOrd[o] ELSE NoOrder
            /\ ~NoOrder.vis
        BY <3>1 DEF GetOrders, NoOrder
      <4>2. \A o \in Oid : cOrd[o].filled \in Nat
        BY DEF TypeOK, CounterOrder
      <4> QED
        BY <1>1, <2>1, <4>1, <4>2 DEF CapInv, Sized, CLive
    <3>2. CASE ~GetOrders
      <4>1. step' # "positions"
        BY <1>w, <1>4, <3>2, ScanTakes DEF Still, BootSubscribe, QueryFails, AfterReconcile,
           SaveOrder, PreOpenJob, PreOpenQuery, PreOpenDuplicates, PreOpenOverdue, PreOpenRepairs,
           PreOpenEnd, Repair, TickStart, TickSave, AfterClose, Idle, ctl, Where
      <4> QED
        BY <1>1, <2>1, <4>1 DEF CapInv, Sized, CLive
    <3> QED
      BY <3>1, <3>2
  <2>5. Reckoned'
    <3>1. CASE PreOpenScan \/ PreOpenRepairs \/ (PreOpenOverdue /\ step' = "buy")
      <4>1. vol' = cPos /\ step \in {"duplicates", "expire", "buy"}
        BY <3>1, ScanTakes DEF PreOpenRepairs, PreOpenOverdue
      <4>2. InStep
        BY <1>w, <4>1 DEF Where, InStep, Job
      <4>3. Exposure <= SumOf(cPos, Sym) + SumOf(OpenRests(mem), Oid)
        BY <4>2, CapNow DEF Exposure
      <4> QED
        BY <1>2, <2>3, <4>1, <4>3 DEF Reckoned
    <3>2. CASE ~(PreOpenScan \/ PreOpenRepairs \/ (PreOpenOverdue /\ step' = "buy"))
      <4>1. step' \in {"buy", "buy_save", "repair", "repair_save"} =>
               step \in {"buy", "buy_save", "repair", "repair_save"} /\ vol' = vol
        BY <1>w, <1>4, <3>2 DEF Still, BootSubscribe, GetOrders, QueryFails, AfterReconcile,
           SaveOrder, PreOpenJob, PreOpenQuery, PreOpenDuplicates, PreOpenOverdue, PreOpenEnd, Repair,
           TickStart, TickSave, AfterClose, Idle, ctl, Where
      <4> QED
        BY <1>2, <2>3, <4>1 DEF CapInv, Reckoned
    <3> QED
      BY <3>1, <3>2
  <2> QED
    BY <1>2, <2>2, <2>4, <2>5 DEF CapInv
<1> QED
  BY <1>3, <1>4

LEMMA CapIsKept ==
  ASSUME TypeOK, BuyInv, TodayInv, CapInv
  PROVE  ExposureCapped
<1> DEFINE W == {o \in Oid : WorkingBuy(o)}
           r == RestOf(cOrd)
           f == BuyRests(cOrd)
<1>1. NaturalOn(f, Oid) /\ IsFiniteSet(Oid) /\ W \in SUBSET Oid
  BY CapNow
<1>2. \A o \in W : r[o] = f[o]
  BY DEF RestOf, BuyRests, WorkingBuy, CLive
<1>3. MapThenSumSet(Rest, W) = SumOf(r, W)
  BY <1>1, <1>2, RestsAdd DEF NaturalOn
<1>4. SumOf(r, W) = SumOf(f, W)
  <2> HIDE DEF r, f, W
  <2> QED
    BY <1>2, SumAlike
<1>5. SumOf(f, W) <= SumOf(f, Oid) /\ SumOf(f, W) \in Nat /\ SumOf(f, Oid) \in Nat
  <2> HIDE DEF f, W
  <2>1. IsFiniteSet(W) /\ NaturalOn(f, W)
    BY <1>1, FS_Subset DEF NaturalOn
  <2> QED
    BY <1>1, <2>1, SumWithin, SumNat
<1>6. MarketValue(cPos) = SumOf(cPos, Sym) /\ SumOf(cPos, Sym) \in Nat /\ CapAmt \in Nat
  BY CapNow, ValueIs DEF TypeOK
<1>7. SumOf(cPos, Sym) + SumOf(f, Oid) <= CapAmt
  BY DEF CapInv, Exposure
<1> HIDE DEF f, r, W
<1>8. MarketValue(cPos) + MapThenSumSet(Rest, W) <= CapAmt
  BY <1>3, <1>4, <1>5, <1>6, <1>7
<1> QED
  BY <1>8 DEF ExposureCapped, W

\* What the account holds and what works to buy more stays within the capital bound, under
\* the assumptions of the daily limit and with orders that end with their day: the gate
\* adds the account's value, read when the phase begins, to the open amounts of the state,
\* and a lot that fills in between is still in the second.
THEOREM CapitalIsKept == ASSUME CapFaults PROVE Spec => []ExposureCapped
<1>1. TodayFaults
  BY DEF CapFaults
<1>2. Init => CapInv
  BY CapInit
<1>3. TypeOK /\ BuyInv /\ TodayInv /\ CapInv /\ [Next]_vars => CapInv'
  BY <1>1, Steps, CapCounter, CapTurn, CapAbsorb, CapStill
<1>4. TypeOK /\ BuyInv /\ TodayInv /\ CapInv => ExposureCapped
  BY CapIsKept
<1>5. Spec => [](TypeOK /\ BuyInv /\ TodayInv)
  BY <1>1, TodayHolds
<1> QED
  BY <1>2, <1>3, <1>4, <1>5, PTL DEF Spec
=============================================================================
