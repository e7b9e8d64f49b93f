------------------------------- MODULE Custody -------------------------------
(***************************************************************************)
(* What the escrow promises about the money of one goods payment: it waits *)
(* in escrow, and then goes either to the seller, in two steps, or back to *)
(* the buyer, in two steps, and never changes road.                        *)
(***************************************************************************)
CONSTANT Payments
VARIABLE custody

Init == custody = [p \in Payments |-> "ESCROW"]

\* Both at once for the payments of one order, hence the set.
Return(S) ==
    /\ \A p \in S : custody[p] = "ESCROW"
    /\ custody' = [p \in Payments |-> IF p \in S THEN "RETURNING" ELSE custody[p]]

Move(p, from, to) ==
    /\ custody[p] = from
    /\ custody' = [custody EXCEPT ![p] = to]

Release(p)  == Move(p, "ESCROW", "SELLER_DUE")
PayOut(p)   == Move(p, "SELLER_DUE", "SELLER")
Returned(p) == Move(p, "RETURNING", "BUYER")

Next ==
    \/ \E S \in SUBSET Payments : Return(S)
    \/ \E p \in Payments : Release(p) \/ PayOut(p) \/ Returned(p)

Spec == Init /\ [][Next]_custody
=============================================================================
