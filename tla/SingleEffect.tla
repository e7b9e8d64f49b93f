----------------------------- MODULE SingleEffect -----------------------------
(***************************************************************************)
(* What a key promises to a client that repeats a request: one repetition  *)
(* at a time does the work, none does once an answer is kept, and an       *)
(* effect is kept with its answer or its answer is lost.  The promise is   *)
(* void as soon as somebody worked longer than the key waits.              *)
(***************************************************************************)
EXTENDS Naturals

CONSTANT Requests

VARIABLES
    working,    \* requests that do the work
    acted,      \* of these, the ones whose effect is there, and no answer yet
    answered,   \* is an answer kept?
    effects,
    lost,       \* effects whose answer was lost
    void

all == <<working, acted, answered, effects, lost, void>>

Init ==
    /\ working = {} /\ acted = {} /\ ~answered
    /\ effects = 0 /\ lost = 0
    /\ ~void

Begin(r) ==
    /\ working = {} /\ ~answered
    /\ working' = {r}
    /\ UNCHANGED <<acted, answered, effects, lost, void>>

Act(r) ==
    /\ r \in working \ acted
    /\ acted' = acted \cup {r}
    /\ effects' = effects + 1
    /\ UNCHANGED <<working, answered, lost, void>>

\* An answer is kept.
Keep(r) ==
    /\ r \in acted
    /\ working' = working \ {r} /\ acted' = acted \ {r}
    /\ answered' = TRUE
    /\ UNCHANGED <<effects, lost, void>>

Lose(r) ==
    /\ r \in acted
    /\ working' = working \ {r} /\ acted' = acted \ {r}
    /\ lost' = lost + 1
    /\ UNCHANGED <<answered, effects, void>>

\* The work ends without an effect.
GiveUp(r) ==
    /\ r \in working \ acted
    /\ working' = working \ {r}
    /\ UNCHANGED <<acted, answered, effects, lost, void>>

Next ==
    \/ \E r \in Requests : Begin(r)
    \/ \E r \in working : Act(r) \/ Keep(r) \/ Lose(r) \/ GiveUp(r)
    \/ void'

Spec == Init /\ [][Next]_all
=============================================================================
