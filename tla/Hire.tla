-------------------------------- MODULE Hire --------------------------------
(***************************************************************************)
(* What the transport of an order promises: a driver is agreed, the fee is *)
(* asked for that driver and paid, the driver reports the loading, and     *)
(* only then does the truck move.  Nobody else is hired while a fee is     *)
(* alive, and a paid driver is never replaced.                             *)
(***************************************************************************)
CONSTANTS
    Drivers,
    Nobody

VARIABLES
    driver,    \* who is to drive
    due,       \* whose fee was asked for, and may be paid
    paid,      \* that fee is paid
    report,    \* who reported the loading
    moving     \* the truck is on its way, or there

hire == <<driver, due, paid, report, moving>>

Init ==
    /\ driver = Nobody /\ due = Nobody /\ report = Nobody
    /\ paid = FALSE /\ moving = FALSE

Agree(d) ==
    /\ due = Nobody
    /\ driver' = d
    /\ UNCHANGED <<due, paid, report, moving>>

GiveUp ==
    /\ ~paid
    /\ driver' = Nobody
    /\ UNCHANGED <<due, paid, report, moving>>

Ask ==
    /\ due = Nobody /\ driver \in Drivers
    /\ due' = driver
    /\ UNCHANGED <<driver, paid, report, moving>>

Lapse ==
    /\ ~paid
    /\ due' = Nobody
    /\ UNCHANGED <<driver, paid, report, moving>>

Pay ==
    /\ due # Nobody
    /\ paid' = TRUE
    /\ UNCHANGED <<driver, due, report, moving>>

Report ==
    /\ paid /\ driver = due
    /\ report = Nobody /\ report' = driver
    /\ UNCHANGED <<driver, due, paid, moving>>

Depart ==
    /\ report # Nobody
    /\ moving' = TRUE
    /\ UNCHANGED <<driver, due, paid, report>>

\* A sweep, or a handler with an old reading, takes the job out of its way.
Stop ==
    /\ moving' = FALSE
    /\ UNCHANGED <<driver, due, paid, report>>

Next ==
    \/ \E d \in Drivers : Agree(d)
    \/ GiveUp \/ Ask \/ Lapse \/ Pay
    \/ Report \/ Depart \/ Stop

Spec == Init /\ [][Next]_hire
=============================================================================
