----------------------------- MODULE MCInspection -----------------------------
(* Small instances of Inspection. *)
EXTENDS Inspection, TLC

CONSTANTS b1, b2, buyer, seller, r1, r2

MCSymmetry == Permutations(Bids) \cup Permutations(Payers) \cup Permutations(Requests)

\* The requests of users and of the provider are overtaken, those of the
\* maintenance, of admins and the check-in are not.
MCUsers == {"select", "withdraw", "release", "decline", "cancel", "settle", "settle disputed"}

\* Two requests overlap before the first counter, release and dispute; after
\* one of those they come one at a time, interleaved with all that is one step.
MCBudget ==
      Cardinality({n \in Requests : request[n].at # "idle"})
    + (IF \E b \in Bids : rounds[b] > 0 THEN 1 ELSE 0)
    + (IF released["agreement"] > 0 THEN 1 ELSE 0)
    + (IF order = "OPEN" THEN 0 ELSE 1) <= 2
=============================================================================
