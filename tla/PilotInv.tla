----------------------------- MODULE PilotInv ------------------------------
(***************************************************************************)
(* The inductive invariant behind SellsCovered.  It holds when get_orders  *)
(* shows an order as soon as it is taken, no accepted order call looks     *)
(* like a failure, and a pilot that may crash gets its answers at boot.    *)
(***************************************************************************)
EXTENDS Pilot

\* What the counter and its queries must not do.
GoodFaults ==
    /\ "lag" \notin Faults /\ "lost" \notin Faults
    /\ ~({"crash", "query"} \subseteq Faults)

\* The pilot has reconciled since it was started.
InStep == job \notin {"down", "boot"} \/ (job = "boot" /\ step = "subscribe")

\* Whoever is in a callback is at a step.
JobInv ==
    /\ job \in {"down", "idle"} => step = "none"
    /\ job = "boot" => step \in {"orders", "positions", "subscribe"}

\* Every working order can be queried, and nothing that was never placed.
Visible ==
    \A o \in Oid : (CLive(o) => cOrd[o].vis) /\ (cOrd[o].vis => cOrd[o].st # "none")

\* A record is about the order of its number: same symbol, and what sells is not
\* booked as a purchase.
Matches(m) ==
    \A o \in Oid : m.ord[o].st # "NONE" =>
        /\ cOrd[o].st # "none" /\ m.ord[o].sym = cOrd[o].sym
        /\ cOrd[o].side = "sell" => m.ord[o].purpose \notin BuySide

\* The answer of get_orders that a reconciliation works with has every order that
\* still works.
SnapInv ==
    step = "positions" => \A o \in Oid :
        /\ CLive(o) => snap[o].vis /\ snap[o].st = "live"
        /\ snap[o].vis => /\ cOrd[o].st # "none" /\ snap[o].sym = cOrd[o].sym

\* Without crashes nothing has been traded before the first callback.
FreshInv ==
    "crash" \notin Faults /\ job \in {"down", "boot"} =>
        /\ \A o \in Oid : cOrd[o].st = "none"
        /\ \A s \in Sym : mem.pos[s].rem = 0 /\ disk.pos[s].rem = 0 /\ cPos[s] = 0

\* Every working sell is known as working.
Tracked == InStep => \A o \in Oid : WorkingSell(o) => Live(mem, o)

OneSell ==
    \A o, p \in Oid : WorkingSell(o) /\ WorkingSell(p) /\ cOrd[o].sym = cOrd[p].sym
                       => o = p

Covered == \A o \in Oid : WorkingSell(o) => Rest(o) <= cPos[cOrd[o].sym]

\* The orders of s that the state takes for working and that sell.
KnownSells(s) ==
    {o \in Oid : Live(mem, o) /\ cOrd[o].sym = s /\ cOrd[o].side = "sell"}

Booked == InStep => \A s \in Sym : KnownSells(s) = {} => mem.pos[s].rem <= cPos[s]

\* The symbols phase 2 still has to go through have no working sell.
TodoInv == step = "expire" => \A s \in todo : ~HasOpenSell(mem, s)

\* The orders that phases 1 and 1' and on_tick go through are no sells.
EntryInv ==
    /\ step \in {"duplicates", "pending", "pending_save"} =>
           \A o \in oids : mem.ord[o].purpose \in BuySide
    /\ step = "yesterday" => \A o \in oids : cOrd[o].side # "sell"

SellInv ==
    /\ JobInv /\ Visible /\ Matches(mem) /\ Matches(disk) /\ SnapInv /\ FreshInv
    /\ Tracked /\ OneSell /\ Covered /\ Booked /\ TodoInv /\ EntryInv

=============================================================================
