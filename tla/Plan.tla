-------------------------------- MODULE Plan --------------------------------
(***************************************************************************)
(* What a payment in installments promises: the seller's part is held once *)
(* the whole price was received, the cancellation ends that for ever, then *)
(* each installment is returned once, and the plan is closed when nothing  *)
(* that was received is left.                                              *)
(***************************************************************************)
CONSTANTS
    Children,   \* the installments
    Whole       \* the sets of them that make up the price

VARIABLES
    received,   \* installments the buyer paid
    offline,    \* an admin took the whole price
    seller,     \* the seller's part: none, held, or over
    returning,  \* installments on their way back, or back
    returned,   \* installments that are back
    closed      \* the plan's own refund is completed

plan == <<received, offline, seller, returning, returned, closed>>

Init ==
    /\ received = {} /\ returning = {} /\ returned = {}
    /\ seller = "NONE"
    /\ offline = FALSE /\ closed = FALSE

Receive(c) ==
    /\ c \notin received
    /\ ~closed
    /\ received' = received \cup {c}
    /\ UNCHANGED <<offline, seller, returning, returned, closed>>

\* An admin's confirmation is recorded.  One that comes late may open the plan
\* again.
TakeOffline ==
    /\ offline' = TRUE
    /\ closed' \in BOOLEAN
    /\ closed' => closed
    /\ UNCHANGED <<received, seller, returning, returned>>

\* The admin's confirmation may be what completes the price.
Hold ==
    /\ seller = "NONE" /\ ~closed
    /\ seller' = "HELD"
    /\ offline => offline'
    /\ offline' \in BOOLEAN
    /\ offline' \/ received \in Whole
    /\ UNCHANGED <<received, returning, returned, closed>>

Cancel(S) ==
    /\ seller # "OVER"
    /\ returning = {}
    /\ S \subseteq received
    /\ seller' = "OVER"
    /\ returning' = S
    /\ UNCHANGED <<received, offline, returned, closed>>

Return(c) ==
    /\ c \in returning \ returned
    /\ returned' = returned \cup {c}
    /\ closed' \in BOOLEAN
    /\ closed => closed'
    /\ closed' => received \subseteq returned'
    /\ UNCHANGED <<received, offline, seller, returning>>

Next ==
    \/ \E c \in Children : Receive(c) \/ Return(c)
    \/ \E S \in SUBSET Children : Cancel(S)
    \/ TakeOffline
    \/ Hold

Spec == Init /\ [][Next]_plan
=============================================================================
