----------------------------- MODULE MCTransport -----------------------------
(* Small instances of Transport. *)
EXTENDS Transport, TLC

CONSTANTS o1, o2, r1, r2

\* Truck owners and requests are interchangeable.
MCSymmetry == Permutations(Owners) \cup Permutations(Requests)

\* Two requests overlap on a job with one fee; a second fee, a second job and
\* the time after the order's cancellation are explored one request at a time.
MCBudget ==
    jobs + Cardinality({f \in Fees : fee[f] # "NONE"})
         + Cardinality({n \in Requests : request[n].at # "idle"})
         + (IF order = "CANCELLED" THEN 1 ELSE 0) <= 4
=============================================================================
