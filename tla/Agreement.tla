------------------------------ MODULE Agreement ------------------------------
(***************************************************************************)
(* What the review of a price promises: one proposal at a time waits for   *)
(* an answer and is never rewritten; it is answered once; one price is     *)
(* agreed at most, it is asked for from then on, and nothing else is paid. *)
(***************************************************************************)
EXTENDS Naturals

CONSTANTS
    Ids, Parties,
    Terms       \* a price, or a party's wish to leave

VARIABLES
    proposal,   \* who proposed what, under each id: {} or one record
    open,       \* the proposal that waits for an answer
    agreed,     \* the one that was agreed
    asked,      \* the price that is asked
    paid        \* the amount of the payment, 0 while there is none

all == <<proposal, open, agreed, asked, paid>>

Init ==
    /\ proposal = [i \in Ids |-> {}]
    /\ open = {} /\ agreed = {}
    /\ asked \in {t.price : t \in Terms}
    /\ paid = 0

\* A new proposal in place of the open ones, if there are any.
Put(i) ==
    /\ open' = {i}
    /\ proposal[i] = {}
    /\ \E who \in Parties, t \in Terms :
         proposal' = [proposal EXCEPT ![i] = {[by |-> who, price |-> t.price, leaves |-> t.leaves]}]
    /\ UNCHANGED <<agreed, asked, paid>>

Propose(i) == open = {} /\ Put(i)

\* The other party answers with a proposal of its own.
Counter(i, j) ==
    /\ open = {j} /\ Put(i)
    /\ \A old \in proposal[j], new \in proposal'[i] : old.by # new.by

\* The one that is open is answered, and this is all.
Close(i) ==
    /\ open = {i} /\ open' = {}
    /\ UNCHANGED <<proposal, agreed, asked, paid>>

Agree(i) ==
    /\ open = {i} /\ open' = {}
    /\ agreed = {} /\ agreed' = {i}
    /\ \A t \in proposal[i] : ~t.leaves /\ asked' = t.price
    /\ UNCHANGED <<proposal, paid>>

Pay ==
    /\ agreed # {}
    /\ paid = 0 /\ paid' = asked
    /\ UNCHANGED <<proposal, open, agreed, asked>>

PaymentFails ==
    /\ paid # 0 /\ paid' = 0
    /\ UNCHANGED <<proposal, open, agreed, asked>>

Next ==
    \/ \E i \in Ids : Propose(i) \/ Close(i) \/ Agree(i) \/ \E j \in Ids : Counter(i, j)
    \/ Pay \/ PaymentFails

Spec == Init /\ [][Next]_all
=============================================================================
