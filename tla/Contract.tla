------------------------------ MODULE Contract ------------------------------
(***************************************************************************)
(* What the competition for a listing promises: an offer is talked about,  *)
(* then agreed by both sides, then becomes the only open order of its      *)
(* listing, and never goes back; and the seller gives up few agreements.   *)
(***************************************************************************)
EXTENDS Naturals

CONSTANTS Rows, MaxReleases
VARIABLES deal, releases

Init ==
    /\ deal = [r \in Rows |-> "TALK"]
    /\ releases = 0

\* One deal moves and the others stay.
Move(r, from, to) ==
    /\ deal[r] = from /\ deal'[r] = to
    /\ deal' = [deal EXCEPT ![r] = deal'[r]]
    /\ UNCHANGED releases

Agree(r) == Move(r, "TALK", "AGREED")

Conclude(r) ==
    /\ \A s \in Rows : deal[s] # "OPEN"
    /\ Move(r, "AGREED", "OPEN")

Finish(r) == Move(r, "OPEN", "DONE")

GiveUp ==
    /\ releases < MaxReleases
    /\ releases' = releases + 1
    /\ UNCHANGED deal

Next ==
    \/ \E r \in Rows : Agree(r) \/ Conclude(r) \/ Finish(r)
    \/ GiveUp

Spec == Init /\ [][Next]_<<deal, releases>>
=============================================================================
