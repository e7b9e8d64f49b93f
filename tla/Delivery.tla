------------------------------- MODULE Delivery -------------------------------
(***************************************************************************)
(* What the queue promises about every text: it is tried while it waits,   *)
(* one at a time, and at most Limit times not counting the calls whose     *)
(* outcome was forgotten; a text that was recorded as sent, or given up,   *)
(* is never tried again.  The promise is void once two cycles overlapped.  *)
(***************************************************************************)
EXTENDS Naturals

CONSTANTS Texts, Limit

VARIABLES
    status,
    tries,        \* failures that were recorded
    trying,       \* the call whose outcome is not recorded yet: {} or one
    delivered,
    unrecorded,   \* deliveries that will not be recorded
    void

all == <<status, tries, trying, delivered, unrecorded, void>>

Init ==
    /\ status = [t \in Texts |-> "PENDING"]
    /\ tries = [t \in Texts |-> 0]
    /\ trying = {}
    /\ delivered = [t \in Texts |-> 0]
    /\ unrecorded = [t \in Texts |-> 0]
    /\ ~void

\* A call that fails may have delivered the text.
Try(t, reached, failed) ==
    /\ status[t] = "PENDING" /\ trying = {}
    /\ trying' = {[text |-> t, failed |-> failed]}
    /\ reached \/ failed
    /\ delivered' = IF reached THEN [delivered EXCEPT ![t] = @ + 1] ELSE delivered
    /\ unrecorded' = IF reached /\ failed THEN [unrecorded EXCEPT ![t] = @ + 1] ELSE unrecorded
    /\ UNCHANGED <<status, tries, void>>

RecordSent(t) ==
    /\ trying = {[text |-> t, failed |-> FALSE]} /\ trying' = {}
    /\ status' = [status EXCEPT ![t] = "SENT"]
    /\ UNCHANGED <<tries, delivered, unrecorded, void>>

RecordFailure(t) ==
    /\ trying = {[text |-> t, failed |-> TRUE]} /\ trying' = {}
    /\ tries' = [tries EXCEPT ![t] = @ + 1]
    /\ status' = IF tries'[t] = Limit THEN [status EXCEPT ![t] = "FAILED"] ELSE status
    /\ UNCHANGED <<delivered, unrecorded, void>>

\* The caller stops before it has recorded the outcome.
Forget ==
    /\ trying # {} /\ trying' = {}
    /\ unrecorded' = [t \in Texts |->
         IF [text |-> t, failed |-> FALSE] \in trying THEN unrecorded[t] + 1 ELSE unrecorded[t]]
    /\ UNCHANGED <<status, tries, delivered, void>>

Next ==
    \/ \E t \in Texts :
         \/ \E reached, failed \in BOOLEAN : Try(t, reached, failed)
         \/ RecordSent(t) \/ RecordFailure(t)
    \/ Forget
    \/ void'

Spec == Init /\ [][Next]_all
=============================================================================
