-------------------------------- MODULE Visit --------------------------------
(***************************************************************************)
(* What an inspection promises about money: nothing is taken before an     *)
(* inspector was on site, the whole fee is taken before one who was there  *)
(* reports, what was taken is returned only while nobody has reported, and *)
(* after that each share is paid once, to the one who reported.            *)
(***************************************************************************)
CONSTANTS
    Inspectors,
    Payers,     \* each pays a share of the fee
    Nobody

VARIABLES
    visited,    \* inspectors who were on site
    share,      \* a payer's money: owed, taken or returned
    report,     \* who reported
    paid        \* who was paid a share

visit == <<visited, share, report, paid>>

Init ==
    /\ visited = {}
    /\ share = [p \in Payers |-> "OWED"]
    /\ report = Nobody
    /\ paid = [p \in Payers |-> Nobody]

Arrive(i) ==
    /\ visited' = visited \cup {i}
    /\ UNCHANGED <<share, report, paid>>

Take(p) ==
    /\ visited # {}
    /\ share[p] = "OWED"
    /\ share' = [share EXCEPT ![p] = "TAKEN"]
    /\ UNCHANGED <<visited, report, paid>>

Report(i) ==
    /\ i \in visited
    /\ report = Nobody
    /\ \A p \in Payers : share[p] = "TAKEN"
    /\ report' = i
    /\ UNCHANGED <<visited, share, paid>>

Return ==
    /\ report = Nobody
    /\ share' = [p \in Payers |-> IF share[p] = "TAKEN" THEN "RETURNED" ELSE share[p]]
    /\ UNCHANGED <<visited, report, paid>>

Pay(p) ==
    /\ report # Nobody
    /\ share[p] = "TAKEN" /\ paid[p] = Nobody
    /\ paid' = [paid EXCEPT ![p] = report]
    /\ UNCHANGED <<visited, share, report>>

Next ==
    \/ \E i \in Inspectors : Arrive(i) \/ Report(i)
    \/ \E p \in Payers : Take(p) \/ Pay(p)
    \/ Return

Spec == Init /\ [][Next]_visit
=============================================================================
