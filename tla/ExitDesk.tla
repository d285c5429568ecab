------------------------------ MODULE ExitDesk ------------------------------
(***************************************************************************)
(* What the pilot promises about selling, without its state file, its      *)
(* reconciliation and its crashes: per symbol a number of shares and at    *)
(* most one offer to sell, which never exceeds the shares.  Pilot          *)
(* implements it, cPos being the shares and the working sell orders of the *)
(* counter the offer.                                                      *)
(***************************************************************************)
EXTENDS Integers

CONSTANT Sym

VARIABLES shares, offer

vars == <<shares, offer>>

Init == shares = [s \in Sym |-> 0] /\ offer = [s \in Sym |-> 0]

\* An entry fills.
Acquire(s) == shares' = [shares EXCEPT ![s] = @ + 1] /\ UNCHANGED offer

\* The only way to offer: nothing is on offer, and the shares are there.
Offer(s, q) ==
    /\ offer[s] = 0 /\ q <= shares[s]
    /\ offer' = [offer EXCEPT ![s] = q] /\ UNCHANGED shares

\* A lot of the offer trades.
Trade(s) ==
    /\ offer[s] > 0
    /\ offer' = [offer EXCEPT ![s] = @ - 1] /\ shares' = [shares EXCEPT ![s] = @ - 1]

\* Offers are withdrawn: one is rejected, or the day closes on several.
Withdraw(S) ==
    /\ offer' = [s \in Sym |-> IF s \in S THEN 0 ELSE offer[s]] /\ UNCHANGED shares

Next ==
    \/ \E s \in Sym : Acquire(s) \/ Trade(s) \/ \E q \in 1..shares[s] : Offer(s, q)
    \/ \E S \in SUBSET Sym : Withdraw(S)

Spec == Init /\ [][Next]_vars

=============================================================================
