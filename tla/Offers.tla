-------------------------------- MODULE Offers --------------------------------
(***************************************************************************)
(* The competition for one listing: bids, the exclusive negotiation with   *)
(* its chain of counter-offers, the provisional agreement, and the order   *)
(* made from it, up to the end of that order.                              *)
(*                                                                         *)
(* A row of the Offer table never changes its price: a counter creates a   *)
(* child.  The row without a child is the leaf.  Every handler reads the   *)
(* leaf, checks it and writes, and most of them write without condition;   *)
(* select, confirm and the release of an agreement first lock the Listing  *)
(* row.  Each is a request of two or more steps here.  Whether the stock   *)
(* suffices is left open: it is Escrow's subject.                          *)
(***************************************************************************)
EXTENDS Naturals, FiniteSets

CONSTANTS
    Buyers,
    Requests,      \* requests that may be in flight together
    MaxRows,       \* bound on the offers ever created
    MaxReleases,   \* MAX_ACCEPTED_RELEASES_PER_JOB and the overrides
    DueRows        \* the offers whose pickup window may end

Rows == 1 .. MaxRows
NoRow == 0

ASSUME OffersAssumption ==
    /\ MaxRows \in Nat
    /\ MaxReleases \in Nat
    /\ DueRows \subseteq Rows
    /\ Buyers \cap Rows = {}

VARIABLES
    status,     \* offer.status, "NONE" before the row exists
    buyer,      \* offer.buyerId
    by,         \* who named the row's price: the bidder, or counteredBy
    parent,     \* offer.parentOfferId
    agreed,     \* offers accepted by the side that did not name the price
    due,        \* offers whose expiresAt has passed
    order,      \* status of the order made from the offer
    releases,   \* OFFER_PROVISIONAL_RELEASED events of the seller
    request     \* requests: step reached, offer (or bidder), what was read

rowVars == <<buyer, by, parent>>
vars == <<status, rowVars, agreed, due, order, releases, request>>

\* ENDED is REJECTED, WITHDRAWN or EXPIRED, which no handler tells apart.
OfferStatus == {"PENDING", "SELECTED", "COUNTERED", "PROVISIONAL", "ACCEPTED", "ENDED"}
Negotiating == {"SELECTED", "COUNTERED", "PROVISIONAL"}
Parties == {"BUYER", "SELLER"}

\* DISPUTED is a dispute of an unpaid order; CONFIRMED is every later status.
OrderStatus == {"NONE", "PENDING_PAYMENT", "DISPUTED", "CONFIRMED", "COMPLETED", "CANCELLED"}

\* The steps that hold the lock on the Listing row, and those that do not.
LockedSteps == {"select", "create order", "release agreement", "release by seller"}
OpenSteps == {"idle", "bid", "buyer accepts", "seller accepts", "buyer counters", "seller counters",
              "confirm", "end", "expire", "sweep"}

Idle == [at |-> "idle", on |-> NoRow]

TypeOK ==
    /\ status \in [Rows -> OfferStatus \cup {"NONE"}]
    /\ buyer \in [Rows -> Buyers \cup {NoRow}]
    /\ by \in [Rows -> Parties]
    /\ parent \in [Rows -> Rows \cup {NoRow}]
    /\ agreed \subseteq Rows
    /\ due \subseteq DueRows
    /\ order \in [Rows -> OrderStatus]
    /\ \A r \in Rows : order[r] # "NONE" => status[r] # "NONE"
    /\ releases \in Nat
    /\ request \in [Requests -> [at : LockedSteps \cup OpenSteps,
                                 on : Rows \cup Buyers \cup {NoRow}]]

Init ==
    /\ status = [r \in Rows |-> "NONE"]
    /\ buyer = [r \in Rows |-> NoRow]
    /\ by = [r \in Rows |-> "BUYER"]
    /\ parent = [r \in Rows |-> NoRow]
    /\ agreed = {}
    /\ due = {}
    /\ order = [r \in Rows |-> "NONE"]
    /\ releases = 0
    /\ request = [n \in Requests |-> Idle]

-----------------------------------------------------------------------------
(* Reading *)

\* The leaf of a chain, of which nothing stale should be acted on.
findLeafOffer(r) ==
    /\ status[r] # "NONE"
    /\ \A child \in Rows : parent[child] # r

LiveLeaf(r, statuses) == findLeafOffer(r) /\ status[r] \in statuses /\ r \notin due

\* An order that is neither cancelled nor completed.
active(r) == order[r] \notin {"NONE", "CANCELLED", "COMPLETED"}
activeOrder == \E r \in Rows : active(r)

\* Another buyer is in negotiation.
activeNegotiation(b) ==
    \E r \in Rows : /\ findLeafOffer(r)
                    /\ status[r] \in Negotiating
                    /\ buyer[r] # b

Locked == \E n \in Requests : request[n].at \in LockedSteps

at(n, step) == request[n].at = step
on(n) == request[n].on
goto(n, step, r) == request' = [request EXCEPT ![n] = [at |-> step, on |-> r]]
leave(n) == request' = [request EXCEPT ![n] = Idle]
reading == UNCHANGED <<status, rowVars, agreed, due, order, releases>>

\* A new row; no bid or counter is begun or written when all are used.
rowFree == \E r \in Rows : status[r] = "NONE"
newRow == CHOOSE r \in Rows : status[r] = "NONE"

-----------------------------------------------------------------------------
(* Bids *)

\* One active thread per buyer and listing is checked before the transaction.
AskBid(n, b) ==
    /\ at(n, "idle")
    /\ rowFree
    /\ \A r \in Rows :
          buyer[r] = b /\ findLeafOffer(r) => status[r] \notin Negotiating \cup {"PENDING", "ACCEPTED"}
    /\ goto(n, "bid", b)
    /\ reading

createOffer(n) ==
    /\ at(n, "bid")
    /\ rowFree
    /\ status' = [status EXCEPT ![newRow] = "PENDING"]
    /\ buyer' = [buyer EXCEPT ![newRow] = on(n)]
    /\ leave(n)
    /\ UNCHANGED <<by, parent, agreed, due, order, releases>>

\* The seller selects a waiting bid: the Listing is locked, the bid, the
\* other negotiations and the orders are read ...
selectable(r) == LiveLeaf(r, {"PENDING"}) /\ ~activeNegotiation(buyer[r]) /\ ~activeOrder

unlocked == TRUE
listingFree == ~Locked

SelectLock(n, r) ==
    /\ at(n, "idle")
    /\ listingFree
    /\ selectable(r)
    /\ goto(n, "select", r)
    /\ reading

\* ... and the bid is claimed if it still waits.
selectOffer(n) ==
    LET r == on(n) IN
    /\ at(n, "select")
    /\ status[r] = "PENDING"
    /\ status' = [status EXCEPT ![r] = "SELECTED"]
    /\ leave(n)
    /\ UNCHANGED <<rowVars, agreed, due, order, releases>>

-----------------------------------------------------------------------------
(* Negotiation *)

\* Whose turn it is: who did not name the last price; anyone's on a selected bid.
anyonesTurn(r, party) == TRUE
turnOf(r, party) == status[r] = "COUNTERED" => by[r] # party

\* ACCEPT, ACCEPT_SELECTED and ACCEPT_COUNTER.
AskAccept(n, r) ==
    /\ at(n, "idle")
    /\ LiveLeaf(r, {"SELECTED", "COUNTERED"})
    /\ \/ turnOf(r, "BUYER") /\ goto(n, "buyer accepts", r)
       \/ turnOf(r, "SELLER") /\ goto(n, "seller accepts", r)
    /\ reading

moveOfferToProvisional(n, step, party) ==
    LET r == on(n) IN
    /\ at(n, step)
    /\ status[r] \in {"SELECTED", "COUNTERED"}
    /\ status' = [status EXCEPT ![r] = "PROVISIONAL"]
    /\ agreed' = IF parent[r] = NoRow \/ by[r] # party THEN agreed \cup {r} ELSE agreed
    /\ leave(n)
    /\ UNCHANGED <<rowVars, due, order, releases>>

\* COUNTER by the seller, RE_COUNTER by the buyer: never twice in a row.
AskCounter(n, r) ==
    /\ at(n, "idle")
    /\ rowFree
    /\ LiveLeaf(r, {"SELECTED", "COUNTERED"})
    /\ \/ turnOf(r, "BUYER") /\ goto(n, "buyer counters", r)
       \/ turnOf(r, "SELLER") /\ goto(n, "seller counters", r)
    /\ reading

\* The parent is written without condition and the child created.
counterOffer(n, step, party) ==
    LET r == on(n) IN
    /\ at(n, step)
    /\ rowFree
    /\ status' = [status EXCEPT ![r] = "COUNTERED", ![newRow] = "COUNTERED"]
    /\ buyer' = [buyer EXCEPT ![newRow] = buyer[r]]
    /\ by' = [by EXCEPT ![newRow] = party]
    /\ parent' = [parent EXCEPT ![newRow] = r]
    /\ leave(n)
    /\ UNCHANGED <<agreed, due, order, releases>>

\* REJECT (by the buyer, in negotiation), WITHDRAW (a waiting bid) and RELEASE
\* (by the seller, while the buyer owes the answer): the leaf is read, "superseded"
\* looks for a child once more, and the write has no condition.
AskEnd(n, r) ==
    /\ at(n, "idle")
    /\ LiveLeaf(r, {"PENDING", "SELECTED", "COUNTERED"})
    /\ goto(n, "end", r)
    /\ reading

rejectOrWithdraw(n) ==
    /\ at(n, "end")
    /\ \A child \in Rows : parent[child] # on(n)
    /\ status' = [status EXCEPT ![on(n)] = "ENDED"]
    /\ leave(n)
    /\ UNCHANGED <<rowVars, agreed, due, order, releases>>

-----------------------------------------------------------------------------
(* The agreement *)

AskConfirm(n, r) ==
    /\ at(n, "idle")
    /\ LiveLeaf(r, {"PROVISIONAL"})
    /\ goto(n, "confirm", r)
    /\ reading

\* acceptOfferAndCreateOrder: the Listing is locked, the offer claimed and the
\* orders read ...
noOtherUnpaidOrder == \A r \in Rows : order[r] # "PENDING_PAYMENT"
noOtherOrder == ~activeOrder

ConfirmLock(n) ==
    LET r == on(n) IN
    /\ at(n, "confirm")
    /\ listingFree
    /\ status[r] \in Negotiating \cup {"PENDING"}
    /\ noOtherOrder
    /\ goto(n, "create order", r)
    /\ reading

\* ... and the order is created; one offer has one order (agreedOfferId is
\* unique).
acceptOfferAndCreateOrder(n) ==
    LET r == on(n) IN
    /\ at(n, "create order")
    /\ status[r] \in Negotiating \cup {"PENDING"}
    /\ order[r] = "NONE"
    /\ status' = [status EXCEPT ![r] = "ACCEPTED"]
    /\ order' = [order EXCEPT ![r] = "PENDING_PAYMENT"]
    /\ leave(n)
    /\ UNCHANGED <<rowVars, agreed, due, releases>>

\* RELEASE_PROVISIONAL: the Listing is locked, the seller's releases counted
\* and the leaf read.  An admin's releases, which take from the same allowance,
\* and the buyer's are not counted here ...
AskReleaseProvisional(n, r) ==
    /\ at(n, "idle")
    /\ listingFree
    /\ LiveLeaf(r, {"PROVISIONAL"})
    /\ \/ releases < MaxReleases /\ goto(n, "release by seller", r)
       \/ goto(n, "release agreement", r)
    /\ reading

\* ... and the offer written.
releaseProvisional(n) ==
    /\ request[n].at \in {"release by seller", "release agreement"}
    /\ status' = [status EXCEPT ![on(n)] = "ENDED"]
    /\ releases' = IF at(n, "release by seller") THEN releases + 1 ELSE releases
    /\ leave(n)
    /\ UNCHANGED <<rowVars, agreed, due, order>>

\* A request is refused on its second look, loses its claim, or dies.
RequestEnds(n) ==
    /\ ~at(n, "idle")
    /\ leave(n)
    /\ reading

-----------------------------------------------------------------------------
(* Expiry and promotion *)

Due(r) ==
    /\ r \in DueRows \ due
    /\ status[r] \in Negotiating \cup {"PENDING"}
    /\ due' = due \cup {r}
    /\ UNCHANGED <<status, rowVars, agreed, order, releases, request>>

\* The due waiting bids expire and one of the others, the best the stock
\* suffices for, is selected.  s is the statuses the transaction wrote so far.
promoteNextWaitingBuyer(s) ==
    LET expired == [r \in Rows |-> IF s[r] = "PENDING" /\ r \in due THEN "ENDED" ELSE s[r]] IN
    \/ status' = expired
    \/ \E next \in Rows :
          /\ ~Locked
          /\ expired[next] = "PENDING"
          /\ status' = [expired EXCEPT ![next] = "SELECTED"]

\* respondToOffer finds the offer it read expired ...
AskExpire(n, r) ==
    /\ at(n, "idle")
    /\ r \in due
    /\ status[r] \in Negotiating \cup {"PENDING"}
    /\ goto(n, "expire", r)
    /\ reading

\* ... and writes it without condition.
expireOfferIfNeeded(n) ==
    /\ at(n, "expire")
    /\ status' = [status EXCEPT ![on(n)] = "ENDED"]
    /\ leave(n)
    /\ UNCHANGED <<rowVars, agreed, due, order, releases>>

\* The maintenance expires each due offer conditionally.  If it had read the
\* offer as selected, it promotes the next buyer, whatever it is by now.
expireOffers(r) ==
    /\ r \in due
    /\ status[r] \in {"PENDING", "SELECTED", "COUNTERED"}
    /\ status' = [status EXCEPT ![r] = "ENDED"]
    /\ UNCHANGED <<rowVars, agreed, due, order, releases, request>>

ReadDueSelected(n, r) ==
    /\ at(n, "idle")
    /\ r \in due
    /\ status[r] = "SELECTED"
    /\ goto(n, "sweep", r)
    /\ reading

expireSelected(n) ==
    LET r == on(n) IN
    /\ at(n, "sweep")
    /\ status[r] \in {"PENDING", "SELECTED", "COUNTERED"}
    /\ promoteNextWaitingBuyer([status EXCEPT ![r] = "ENDED"])
    /\ leave(n)
    /\ UNCHANGED <<rowVars, agreed, due, order, releases>>

-----------------------------------------------------------------------------
(* The order *)

orderMovesUnchecked(r, from, to) == order' = [order EXCEPT ![r] = to]
orderMoves(r, from, to) ==
    /\ order[r] \in from
    /\ order' = [order EXCEPT ![r] = to]

\* An order cancelled before payment gives its offer up and promotes the next
\* waiting buyer.
cancelPendingOrder(r) ==
    /\ orderMoves(r, {"PENDING_PAYMENT"}, "CANCELLED")
    /\ promoteNextWaitingBuyer(
          IF status[r] = "ACCEPTED" THEN [status EXCEPT ![r] = "ENDED"] ELSE status)
    /\ UNCHANGED <<rowVars, agreed, due, releases, request>>

\* One cancelled later keeps its offer ACCEPTED and promotes nobody.
cancelOrder(r) ==
    /\ orderMoves(r, {"DISPUTED", "CONFIRMED"}, "CANCELLED")
    /\ UNCHANGED <<status, rowVars, agreed, due, releases, request>>

\* The goods payment commits the stock.  If nothing remains, the open offers
\* are rejected.
GoodsPaid(r) ==
    /\ ~Locked
    /\ orderMoves(r, {"PENDING_PAYMENT", "DISPUTED"}, "CONFIRMED")
    /\ \/ UNCHANGED status
       \/ status' = [s \in Rows |-> IF status[s] \in {"PENDING", "COUNTERED", "SELECTED"}
                                    THEN "ENDED" ELSE status[s]]
    /\ UNCHANGED <<rowVars, agreed, due, releases, request>>

\* After the settlement, in a transaction of its own.
releaseWaitingBidders ==
    /\ \E r \in Rows : order[r] \in {"CONFIRMED", "COMPLETED"}
    /\ status' = [r \in Rows |-> IF status[r] = "PENDING" /\ findLeafOffer(r)
                                 THEN "ENDED" ELSE status[r]]
    /\ UNCHANGED <<rowVars, agreed, due, order, releases, request>>

Dispute(r) ==
    /\ \/ orderMoves(r, {"PENDING_PAYMENT"}, "DISPUTED")
       \/ orderMoves(r, {"DISPUTED"}, "PENDING_PAYMENT")
    /\ UNCHANGED <<status, rowVars, agreed, due, releases, request>>

Complete(r) ==
    /\ orderMoves(r, {"CONFIRMED"}, "COMPLETED")
    /\ UNCHANGED <<status, rowVars, agreed, due, releases, request>>

\* An admin approves the recovery of the offers of a disputed order.
RecoverOffers ==
    /\ \E r \in Rows : order[r] \in {"DISPUTED", "CONFIRMED"}
    /\ status' = [r \in Rows |-> IF status[r] \in Negotiating \cup {"PENDING"}
                                 THEN "ENDED" ELSE status[r]]
    /\ UNCHANGED <<rowVars, agreed, due, order, releases, request>>

-----------------------------------------------------------------------------
RowRequest(n, r) ==
    \/ SelectLock(n, r)
    \/ AskAccept(n, r)
    \/ AskCounter(n, r)
    \/ AskEnd(n, r)
    \/ AskConfirm(n, r)
    \/ AskReleaseProvisional(n, r)
    \/ AskExpire(n, r)
    \/ ReadDueSelected(n, r)

RequestStep(n) ==
    \/ createOffer(n)
    \/ selectOffer(n)
    \/ moveOfferToProvisional(n, "buyer accepts", "BUYER")
    \/ moveOfferToProvisional(n, "seller accepts", "SELLER")
    \/ counterOffer(n, "buyer counters", "BUYER")
    \/ counterOffer(n, "seller counters", "SELLER")
    \/ rejectOrWithdraw(n)
    \/ ConfirmLock(n)
    \/ acceptOfferAndCreateOrder(n)
    \/ releaseProvisional(n)
    \/ expireOfferIfNeeded(n)
    \/ expireSelected(n)
    \/ RequestEnds(n)

OrderStep(r) ==
    \/ cancelPendingOrder(r)
    \/ cancelOrder(r)
    \/ GoodsPaid(r)
    \/ Dispute(r)
    \/ Complete(r)

Next ==
    \/ \E n \in Requests, b \in Buyers : AskBid(n, b)
    \/ \E n \in Requests, r \in Rows : RowRequest(n, r)
    \/ \E n \in Requests : RequestStep(n)
    \/ \E r \in Rows : OrderStep(r) \/ Due(r) \/ expireOffers(r)
    \/ releaseWaitingBidders
    \/ RecoverOffers

Spec == Init /\ [][Next]_vars

-----------------------------------------------------------------------------
(* Properties *)

\* A listing never has two orders that are neither cancelled nor completed,
\* however confirmations overlap (acceptOfferAndCreateOrder).
OneActiveOrder ==
    \A r, s \in Rows : active(r) /\ active(s) => r = s

\* An order is made only at a price that one side named and the other accepted,
\* or at a bid that was selected and then accepted by either; no overlap of
\* counters, acceptances and confirmations gets around the other side
\* (acceptOffer, acceptCounter, counterOffer, confirmProvisional).
BothAgreed ==
    \A r \in Rows : order[r] # "NONE" => r \in agreed

\* The seller selects no bid while an order of the listing is active, although
\* one may be confirmed at the same moment (selectOffer).
NoSelectionDuringOrder ==
    [][\A n \in Requests :
          /\ at(n, "select") /\ request'[n] = Idle
          /\ status[on(n)] = "PENDING" /\ status'[on(n)] = "SELECTED"
          => ~activeOrder]_vars

\* The seller gives up at most MaxReleases agreements, also when two of the
\* seller's releases overlap (releaseProvisional, releaseAllowance).
ReleasesWithinCap == releases <= MaxReleases

-----------------------------------------------------------------------------
(* What a listing promises *)

\* How far the deal about an offer has come.
deal == [r \in Rows |->
    CASE order[r] = "NONE" -> IF r \in agreed THEN "AGREED" ELSE "TALK"
      [] order[r] \in {"CANCELLED", "COMPLETED"} -> "DONE"
      [] OTHER -> "OPEN"]

Contract == INSTANCE Contract WITH deal <- deal

\* Every step is one of the abstract contract: only what both sides agreed
\* becomes an order, one at a time, an order that ended is never open again and an
\* agreement given up counts, whatever handlers overlap (acceptOfferAndCreateOrder,
\* cancelOrderInTransaction, releaseProvisional).
ContractSpec == Contract!Spec
=============================================================================
