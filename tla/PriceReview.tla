----------------------------- MODULE PriceReview -----------------------------
(***************************************************************************)
(* The review of an order's price after the inspection report              *)
(* (routes/orderPriceReviews.js), with what else decides on that order:    *)
(* the buyer's cancellation, a dispute, and the goods payment.             *)
(*                                                                         *)
(* A proposal and an answer read the order first and write it later: each  *)
(* is a read that starts a call, and a write.  Accepting fixes the price   *)
(* and the BUY decision in one transaction.                                *)
(*                                                                         *)
(* The order starts with its inspection completed and reported.            *)
(***************************************************************************)
EXTENDS Integers, FiniteSets

CONSTANTS
  Reviews,       \* ids of rows of PriceReview
  ReviewCalls,   \* requests that can be at work at one time
  Prices         \* what may be proposed

ASSUME PriceAssumption == Prices \subseteq Nat /\ Prices # {}

VARIABLES
  deal,         \* the order: status, buyerDecision, finalPrice
  review,       \* the rows of PriceReview; unused ids have status "NONE"
  reviewCall,   \* what each request has read; an idle one has op "idle"
  goods         \* amount of the goods payment, 0 while none is live

priceVars == <<deal, review, reviewCall, goods>>

Closed  == {"CANCELLED", "COMPLETED", "DISPUTED"}
Parties == {"buyer", "seller"}

NoReview == [status |-> "NONE", by |-> "buyer", price |-> 0, wantsOut |-> FALSE]
NoCall   == [op |-> "idle", by |-> "buyer", about |-> {}, price |-> 0]

PriceInit ==
  /\ \E price \in Prices :
       deal = [status |-> "PENDING_PAYMENT", buyerDecision |-> "none", finalPrice |-> price]
  /\ review = [r \in Reviews |-> NoReview]
  /\ reviewCall = [c \in ReviewCalls |-> NoCall]
  /\ goods = 0

PendingReviews == {r \in Reviews : review[r].status = "PENDING"}

StartCall(c, op, by, about, price) ==
  /\ reviewCall[c] = NoCall
  /\ reviewCall' = [reviewCall EXCEPT
                     ![c] = [op |-> op, by |-> by, about |-> about, price |-> price]]
  /\ UNCHANGED <<deal, review, goods>>

EndCall(c, op) ==
  /\ reviewCall[c].op = op
  /\ reviewCall' = [reviewCall EXCEPT ![c] = NoCall]

\* A row beside one that waits for an answer.
AddedBeside(rows, r, by, price, wantsOut) ==
  /\ rows[r].status = "NONE"
  /\ review' = [rows EXCEPT
                 ![r] = [status |-> "PENDING", by |-> by, price |-> price, wantsOut |-> wantsOut]]

\* A row with an id of its own; the unique index on (orderId) where PENDING
\* refuses a second one that waits for an answer.
Added(rows, r, by, price, wantsOut) ==
  /\ rows[r].status = "NONE"
  /\ \A q \in Reviews : rows[q].status # "PENDING"
  /\ review' = [rows EXCEPT
                 ![r] = [status |-> "PENDING", by |-> by, price |-> price, wantsOut |-> wantsOut]]

-----------------------------------------------------------------------------
\* POST /:id/price-reviews.

ReadProposal(c) ==
  /\ deal.status \notin Closed /\ goods = 0 /\ deal.buyerDecision = "none"
  /\ PendingReviews = {}
  /\ \E by \in Parties, price \in Prices :
       /\ by = "buyer" => price <= deal.finalPrice
       /\ StartCall(c, "propose", by, {}, price)

WriteProposal(c) ==
  LET call == reviewCall[c]
  IN  /\ EndCall(c, "propose")
      /\ deal.status \notin Closed
      /\ call.by = "seller" => call.price # deal.finalPrice
      /\ \E r \in Reviews : Added(review, r, call.by, call.price, FALSE)
      /\ UNCHANGED <<deal, goods>>

-----------------------------------------------------------------------------
\* PATCH /:id/price-reviews/:reviewId/respond: the order is read first, and the
\* proposal, whose id the request names, exists by then.

ReadAnswer(c) ==
  /\ deal.status \notin Closed /\ goods = 0 /\ deal.buyerDecision # "BUY"
  /\ \E r \in PendingReviews, by \in Parties, price \in Prices :
       by # review[r].by /\ StartCall(c, "answer", by, {r}, price)

\* updateMany where status PENDING, which each answer begins with.
Claimed(c, r, status) ==
  /\ EndCall(c, "answer")
  /\ r \in reviewCall[c].about
  /\ review[r].status = "PENDING"
  /\ status \in {"ACCEPTED", "COUNTERED", "REJECTED"}

AcceptPrice(c, r) ==
  /\ Claimed(c, r, "ACCEPTED")
  /\ ~review[r].wantsOut
  /\ review' = [review EXCEPT ![r].status = "ACCEPTED"]
  /\ deal' = [deal EXCEPT !.finalPrice = review[r].price, !.buyerDecision = "BUY"]
  /\ UNCHANGED goods

AcceptCancellation(c, r) ==
  /\ Claimed(c, r, "ACCEPTED")
  /\ review[r].wantsOut
  /\ deal.status \notin {"CANCELLED", "COMPLETED"}    \* NON_CANCELLABLE_STATUSES
  /\ review' = [review EXCEPT ![r].status = "ACCEPTED"]
  /\ deal' = [deal EXCEPT !.buyerDecision = "CANCEL", !.status = "CANCELLED"]
  /\ UNCHANGED goods

Counter(c, r) ==
  LET call == reviewCall[c]
  IN  /\ Claimed(c, r, "COUNTERED")
      /\ review[r].wantsOut \/ call.price # review[r].price
      /\ \E child \in Reviews, wantsOut \in BOOLEAN :
           Added([review EXCEPT ![r].status = "COUNTERED"], child, call.by, call.price, wantsOut)
      /\ UNCHANGED <<deal, goods>>

Reject(c, r) ==
  /\ Claimed(c, r, "REJECTED")
  /\ ~review[r].wantsOut
  /\ review' = [review EXCEPT ![r].status = "REJECTED"]
  /\ UNCHANGED <<deal, goods>>

-----------------------------------------------------------------------------
\* PATCH /:id/buyer-decision with CANCEL: the decision is written without a
\* condition, the order leaves only the status that was read.  (BUY there needs
\* an accepted review and no decision: accepting has recorded BUY already.)

ReadCancel(c) ==
  /\ deal.status \notin Closed /\ deal.buyerDecision = "none"
  /\ StartCall(c, "cancel", "buyer", {}, 0)

WriteCancel(c) ==
  /\ EndCall(c, "cancel")
  /\ deal.status = "PENDING_PAYMENT"
  /\ deal' = [deal EXCEPT !.buyerDecision = "CANCEL", !.status = "CANCELLED"]
  /\ UNCHANGED <<review, goods>>

\* POST /payments for the goods: the amount is compared with the price read.
ReadPrice(c) ==
  /\ deal.status \notin {"DISPUTED", "COMPLETED"} /\ deal.buyerDecision = "BUY"
  /\ StartCall(c, "pay", "buyer", {}, deal.finalPrice)

CreateGoodsPayment(c) ==
  /\ EndCall(c, "pay")
  /\ goods = 0
  /\ goods' = reviewCall[c].price
  /\ UNCHANGED <<deal, review>>

\* A call that is refused, fails or is rolled back.
CallFails(c) ==
  /\ reviewCall[c] # NoCall
  /\ reviewCall' = [reviewCall EXCEPT ![c] = NoCall]
  /\ UNCHANGED <<deal, review, goods>>

-----------------------------------------------------------------------------
\* The rest of the order, which Escrow models.

GoodsPaymentFails ==
  /\ goods # 0
  /\ goods' = 0
  /\ UNCHANGED <<deal, review, reviewCall>>

OrderMoves ==
  /\ \/ deal.status = "PENDING_PAYMENT" /\ deal' = [deal EXCEPT !.status = "DISPUTED"]
     \/ deal.status = "DISPUTED" /\ deal' = [deal EXCEPT !.status = "PENDING_PAYMENT"]
     \/ /\ deal.status \in {"PENDING_PAYMENT", "DISPUTED"}
        /\ deal' = [deal EXCEPT !.status = "CANCELLED"]
  /\ UNCHANGED <<review, reviewCall, goods>>

PriceNext ==
  \/ \E c \in ReviewCalls :
       \/ ReadProposal(c) \/ WriteProposal(c)
       \/ ReadAnswer(c)
       \/ \E r \in Reviews : AcceptPrice(c, r) \/ AcceptCancellation(c, r)
                             \/ Counter(c, r) \/ Reject(c, r)
       \/ ReadCancel(c) \/ WriteCancel(c)
       \/ ReadPrice(c) \/ CreateGoodsPayment(c)
       \/ CallFails(c)
  \/ GoodsPaymentFails \/ OrderMoves

PriceSpec == PriceInit /\ [][PriceNext]_priceVars

-----------------------------------------------------------------------------

ReviewStatus == {"NONE", "PENDING", "COUNTERED", "ACCEPTED", "REJECTED"}

\* The order, the proposals and the requests have the values of the schema.
PriceTypeOK ==
  /\ deal \in [status : {"PENDING_PAYMENT", "DISPUTED", "CANCELLED"},
               buyerDecision : {"none", "BUY", "CANCEL"}, finalPrice : Prices]
  /\ review \in [Reviews -> [status : ReviewStatus, by : Parties,
                             price : Prices \cup {0}, wantsOut : BOOLEAN]]
  /\ reviewCall \in [ReviewCalls ->
                      [op : {"idle", "propose", "answer", "cancel", "pay"}, by : Parties,
                       about : SUBSET Reviews, price : Prices \cup {0}]]
  /\ goods \in Prices \cup {0}

AgreedReviews == {r \in Reviews : review[r].status = "ACCEPTED" /\ ~review[r].wantsOut}

\* One price of an order is agreed at most, by a proposal of one party that the
\* other accepted; it is the order's price from then on, and the goods are paid
\* for at that price (respond ACCEPT, POST /payments), however late a proposal,
\* an answer, a cancellation or a payment acts on what it read.
PriceIsAgreedOnce ==
  /\ \A r, q \in AgreedReviews : r = q
  /\ \A r \in AgreedReviews : deal.finalPrice = review[r].price
  /\ goods # 0 => \E r \in AgreedReviews : goods = review[r].price

\* What a row proposes, if there is one.
ProposalIn(r) ==
  IF review[r].status = "NONE" THEN {}
  ELSE {[by |-> review[r].by, price |-> review[r].price, leaves |-> review[r].wantsOut]}

Agreement == INSTANCE Agreement WITH
  Ids      <- Reviews,
  Terms    <- [price : Prices, leaves : BOOLEAN],
  proposal <- [r \in Reviews |-> ProposalIn(r)],
  open     <- PendingReviews,
  agreed   <- AgreedReviews,
  asked    <- deal.finalPrice,
  paid     <- goods

\* Every step is one of the abstract agreement: one proposal at a time is open and
\* is answered once, as it was written, a counter-proposal by the other party
\* takes its place, and only the price agreed is paid, however late a call acts on
\* what it read (respond, POST /price-reviews, POST /payments).
AgreementSpec == Agreement!Spec
=============================================================================
