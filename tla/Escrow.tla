------------------------------- MODULE Escrow -------------------------------
(***************************************************************************)
(* The goods side of one listing: the orders placed on it, the payments    *)
(* for those orders, the seller's payouts, refunds, the listing's stock,   *)
(* and the settlement transactions that move all of them.                  *)
(*                                                                         *)
(* A settlement (settlePayment) is one interactive database transaction    *)
(* under READ COMMITTED: it reads the payment and its order without a      *)
(* lock, later takes the payment's row lock with an unconditional UPDATE,  *)
(* reads the order again, and commits.  Each of these points is a step, so *)
(* every other request may run between them.  All other transactions are   *)
(* one step each; requests whose checks run before their transaction       *)
(* starts (cancel, confirm-receipt) are two.                               *)
(***************************************************************************)
EXTENDS MarketStates, FiniteSets, Functions

CONSTANTS
    Orders,       \* orders that may be placed on the listing
    Payments,     \* payment attempts (Payment rows of type MARKETPLACE)
    NoPayment,    \* not a payment
    OrderOf,      \* the order each payment attempt is for
    Quantity,     \* listing.quantity
    Qty,          \* order.quantity
    Notices,      \* settlement requests that may be in flight together
    Generic,      \* what a webhook of a provider other than Chapa may report
    MaxDisputes   \* bound on the disputes raised in a behaviour

ASSUME ConstantsAssumption ==
    /\ NoPayment \notin Payments
    /\ OrderOf \in [Payments -> Orders]
    /\ Quantity \in Nat \ {0}
    /\ Qty \in [Orders -> 1 .. Quantity]
    /\ Generic \subseteq {"PAID", "FAILED", "REFUNDED", "RECONCILIATION_REQUIRED"}
    /\ MaxDisputes \in Nat

VARIABLES
    order,     \* order.status, "NONE" before the order exists
    job,       \* transportJob.status, "NONE" without a job or with a cleared one;
               \* "ACCEPTED" once the goods are confirmed ready for loading
    dispute,   \* the open dispute: status to go back to, seller payout frozen
    disputes,  \* disputes raised so far
    asked,     \* the pre-checked request in flight for an order
    receipt,   \* orders with a RECEIPT_CONFIRMED event
    avail,     \* listing.availableQuantity
    listing,   \* listing.status; "ACTIVE" stands for UNDER_NEGOTIATION too
    pay,       \* payment.status, "NONE" before the row exists
    linked,    \* payments holding their order's obligation (obligationId)
    prov,      \* what the provider knows of the payment
    flagged,   \* payments with a reconciliation issue
    payout,    \* status of the seller payout backed by the payment
    refund,    \* status of the payment's newest refund row
    events,    \* recorded provider events that can repeat: <<payment, eventId>>
    notice     \* settlement requests: point reached, payment, status, eventId

orderVars == <<order, job, dispute, disputes, asked, receipt>>
stockVars == <<avail, listing>>
moneyVars == <<pay, linked, prov, flagged>>
noticeVars == <<events, notice>>
vars == <<orderVars, stockVars, moneyVars, payout, refund, noticeVars>>

Roles == {"BUYER", "SELLER", "ADMIN"}
JobStatus == {"NONE", "ACCEPTED", "PICKUP", "IN_TRANSIT", "DELIVERED", "CANCELLED"}
PayoutStatus == {"NONE", "HELD", "ON_HOLD_DISPUTE", "RELEASED", "PAID_OUT", "CANCELLED"}
RefundStatus == {"NONE", "REQUESTED", "PROCESSING", "COMPLETED", "FAILED"}
Reports == {"PAID", "MISMATCH", "FAILED", "REFUNDED", "RECONCILIATION_REQUIRED"}

\* The eventId of a notice: "new" when it holds the time (Chapa), otherwise
\* the same again for the same payment (admin) and status (other webhooks).
EventIds == {"new", "admin"} \cup Reports
Decisions == {"PAID", "MISMATCH", "FAILED"}

\* The points of a settlement.  In the last four the payment row is locked.
Locked == {"confirm", "withhold", "late", "plain"}
Points == {"idle", "begin", "read", "readDisputed", "toRecon", "short"} \cup Locked

Idle == [at |-> "idle", pay |-> NoPayment, rep |-> "FAILED", id |-> "new"]
NoDispute == [prev |-> "NONE", seller |-> FALSE]

TypeOK ==
    /\ order \in [Orders -> OrderStatus \cup {"NONE"}]
    /\ job \in [Orders -> JobStatus]
    /\ dispute \in [Orders -> [prev : OrderStatus \cup {"NONE"}, seller : BOOLEAN]]
    /\ disputes \in 0 .. MaxDisputes
    /\ asked \in [Orders -> Roles \cup {"NONE", "RECEIPT"}]
    /\ receipt \subseteq Orders
    /\ avail \in 0 .. Quantity
    /\ listing \in {"ACTIVE", "SOLD", "EXPIRED"}
    /\ pay \in [Payments -> PaymentStatus \cup {"NONE"}]
    /\ linked \subseteq Payments
    /\ prov \in [Payments -> {"none", "calling", "open"} \cup Decisions]
    /\ flagged \subseteq Payments
    /\ payout \in [Payments -> PayoutStatus]
    /\ refund \in [Payments -> RefundStatus]
    /\ events \subseteq Payments \X EventIds
    /\ notice \in [Notices -> [at : Points, pay : Payments \cup {NoPayment},
                               rep : Reports, id : EventIds]]

Init ==
    /\ order = [o \in Orders |-> "NONE"]
    /\ job = [o \in Orders |-> "NONE"]
    /\ dispute = [o \in Orders |-> NoDispute]
    /\ disputes = 0
    /\ asked = [o \in Orders |-> "NONE"]
    /\ receipt = {}
    /\ avail = Quantity
    /\ listing = "ACTIVE"
    /\ pay = [p \in Payments |-> "NONE"]
    /\ linked = {}
    /\ prov = [p \in Payments |-> "none"]
    /\ flagged = {}
    /\ payout = [p \in Payments |-> "NONE"]
    /\ refund = [p \in Payments |-> "NONE"]
    /\ events = {}
    /\ notice = [n \in Notices |-> Idle]

-----------------------------------------------------------------------------
(* Helpers *)

GoodsOf(o) == {p \in Payments : OrderOf[p] = o}

goodsPaid(o) == \E p \in GoodsOf(o) : pay[p] = "PAID"

\* A settlement has updated p and not committed: p's row is locked.
RowLocked(p) == \E n \in Notices : notice[n].at \in Locked /\ notice[n].pay = p

NON_CANCELLABLE_STATUSES == {"COMPLETED", "CANCELLED"}
InMotion(o) == job[o] \in {"PICKUP", "IN_TRANSIT", "DELIVERED"}
Live(o) == order[o] \notin NON_CANCELLABLE_STATUSES \cup {"NONE"}

CanCommit(o) == listing = "ACTIVE" /\ avail >= Qty[o]

commitListingQuantity(o) ==
    /\ CanCommit(o)
    /\ avail' = avail - Qty[o]
    /\ listing' = IF avail = Qty[o] THEN "SOLD" ELSE "ACTIVE"

everPaid(o) == \E p \in GoodsOf(o) : pay[p] \in {"PAID", "REFUND_PENDING", "REFUNDED"}

\* The only orders whose cancellation gives nothing back.
neverCommittedForgetsDispute(o) ==
    order[o] \in {"PENDING_PAYMENT", "DISPUTED"}
neverCommitted(o) == order[o] = "PENDING_PAYMENT" /\ ~everPaid(o)

restoredUncapped(o) == avail + Qty[o]
restored(o) == IF avail + Qty[o] > Quantity THEN Quantity ELSE avail + Qty[o]

releaseListingQuantity(o) ==
    IF neverCommitted(o)
    THEN UNCHANGED stockVars
    ELSE avail' = restored(o) /\ listing' = "ACTIVE"

\* What cancelPayoutsForOrder cancels.
CancellablePayoutsButFrozen == {"HELD", "RELEASED"}
CancellablePayouts == {"HELD", "RELEASED", "ON_HOLD_DISPUTE"}

\* cancelPayoutsForOrder and requestRefund for every paid payment.
unwindMoney(o) ==
    LET paid == {p \in GoodsOf(o) : pay[p] = "PAID"} IN
    /\ \A p \in paid : ~RowLocked(p)
    /\ payout' = [p \in Payments |->
                     IF OrderOf[p] = o /\ payout[p] \in CancellablePayouts
                     THEN "CANCELLED" ELSE payout[p]]
    /\ pay' = [p \in Payments |-> IF p \in paid THEN "REFUND_PENDING" ELSE pay[p]]
    /\ refund' = [p \in Payments |-> IF p \in paid THEN "REQUESTED" ELSE refund[p]]

\* The whole cancellation; unpaid and processing payments are left alone.
cancelOrderInTransaction(o, role) ==
    /\ Live(o)
    /\ role = "ADMIN" \/ ~InMotion(o)
    /\ canTransitionOrder(order[o], "CANCELLED")
    /\ order' = [order EXCEPT ![o] = "CANCELLED"]
    /\ job' = IF job[o] \in {"NONE", "DELIVERED"} THEN job
              ELSE [job EXCEPT ![o] = "CANCELLED"]
    /\ releaseListingQuantity(o)
    /\ unwindMoney(o)
    /\ UNCHANGED <<linked, prov, flagged, noticeVars, receipt, disputes>>

-----------------------------------------------------------------------------
(* Orders: placing, moving, receiving *)

\* An accepted offer becomes an order; the database allows one live order
\* per listing.
acceptOfferAndCreateOrder(o) ==
    /\ order[o] = "NONE"
    /\ \A q \in Orders : ~Live(q)
    /\ CanCommit(o)
    /\ order' = [order EXCEPT ![o] = "PENDING_PAYMENT"]
    /\ UNCHANGED <<job, dispute, disputes, asked, receipt, stockVars, moneyVars,
                   payout, refund, noticeVars>>

\* Transport is arranged, again if an earlier job was cancelled, and the goods
\* are confirmed ready for loading: this is what unlocks the goods payment.
ArrangeTransport(o) ==
    /\ order[o] \in {"CONFIRMED", "PENDING_PAYMENT", "TRANSPORT_ARRANGED"}
    /\ job[o] \in {"NONE", "CANCELLED"}
    /\ job' = [job EXCEPT ![o] = "ACCEPTED"]
    /\ order' = IF order[o] = "CONFIRMED"
                THEN [order EXCEPT ![o] = "TRANSPORT_ARRANGED"] ELSE order
    /\ UNCHANGED <<dispute, disputes, asked, receipt, stockVars, moneyVars,
                   payout, refund, noticeVars>>

notClosed(o) == order[o] \notin {"DISPUTED", "CANCELLED"}

\* The order keeps its status, and the payment stays unlocked.
CancelTransport(o) ==
    /\ notClosed(o)
    /\ job[o] = "ACCEPTED"
    /\ job' = [job EXCEPT ![o] = "CANCELLED"]
    /\ UNCHANGED <<order, dispute, disputes, asked, receipt, stockVars, moneyVars,
                   payout, refund, noticeVars>>

\* The truck owner needs the goods paid; an admin does not.
Pickup(o, admin) ==
    /\ notClosed(o)
    /\ job[o] = "ACCEPTED"
    /\ admin \/ goodsPaid(o)
    /\ job' = [job EXCEPT ![o] = "PICKUP"]
    /\ UNCHANGED <<order, dispute, disputes, asked, receipt, stockVars, moneyVars,
                   payout, refund, noticeVars>>

Depart(o) ==
    /\ notClosed(o)
    /\ job[o] = "PICKUP"
    /\ job' = [job EXCEPT ![o] = "IN_TRANSIT"]
    /\ order' = IF order[o] \in {"CONFIRMED", "TRANSPORT_ARRANGED"}
                THEN [order EXCEPT ![o] = "IN_TRANSIT"] ELSE order
    /\ UNCHANGED <<dispute, disputes, asked, receipt, stockVars, moneyVars,
                   payout, refund, noticeVars>>

\* DELIVERED may be reported again; the order then catches up.
Deliver(o) ==
    /\ notClosed(o)
    /\ job[o] \in {"IN_TRANSIT", "DELIVERED"}
    /\ job' = [job EXCEPT ![o] = "DELIVERED"]
    /\ order' = IF order[o] \in {"CONFIRMED", "TRANSPORT_ARRANGED", "IN_TRANSIT"}
                THEN [order EXCEPT ![o] = "DELIVERED"] ELSE order
    /\ UNCHANGED <<dispute, disputes, asked, receipt, stockVars, moneyVars,
                   payout, refund, noticeVars>>

\* confirm-receipt: the checks before the transaction ...
AskReceipt(o) ==
    /\ asked[o] = "NONE"
    /\ order[o] \notin {"NONE", "COMPLETED"}
    /\ job[o] = "DELIVERED"
    /\ goodsPaid(o)
    /\ asked' = [asked EXCEPT ![o] = "RECEIPT"]
    /\ UNCHANGED <<order, job, dispute, disputes, receipt, stockVars, moneyVars,
                   payout, refund, noticeVars>>

receiptAllowed(o) ==
    /\ order[o] \notin {"NONE", "COMPLETED"}
    /\ job[o] = "DELIVERED"
    /\ canTransitionOrder(order[o], "COMPLETED")

\* ... and the transaction, which does not look at the payments again.
ConfirmReceipt(o) ==
    /\ asked[o] = "RECEIPT"
    /\ asked' = [asked EXCEPT ![o] = "NONE"]
    /\ \/ /\ receiptAllowed(o)
          /\ order' = [order EXCEPT ![o] = "COMPLETED"]
          /\ receipt' = receipt \cup {o}
       \/ /\ ~receiptAllowed(o)
          /\ UNCHANGED <<order, receipt>>
    /\ UNCHANGED <<job, dispute, disputes, stockVars, moneyVars, payout, refund, noticeVars>>

-----------------------------------------------------------------------------
(* Cancellation and disputes *)

\* PATCH /:id/cancel checks role and status before its transaction ...
AskCancel(o, role) ==
    /\ asked[o] = "NONE"
    /\ Live(o)
    /\ ~InMotion(o)
    /\ role = "BUYER" => order[o] = "PENDING_PAYMENT"
    /\ role = "SELLER" => order[o] \in {"PENDING_PAYMENT", "CONFIRMED"}
    /\ asked' = [asked EXCEPT ![o] = role]
    /\ UNCHANGED <<order, job, dispute, disputes, receipt, stockVars, moneyVars,
                   payout, refund, noticeVars>>

\* ... and the transaction cancels the order it finds.
CancelOrder(o) ==
    /\ asked[o] \in Roles
    /\ cancelOrderInTransaction(o, asked[o])
    /\ asked' = [asked EXCEPT ![o] = "NONE"]
    /\ UNCHANGED dispute

CancelRefused(o) ==
    /\ asked[o] \in Roles
    /\ \/ ~Live(o)
       \/ asked[o] # "ADMIN" /\ InMotion(o)
       \/ ~canTransitionOrder(order[o], "CANCELLED")
    /\ asked' = [asked EXCEPT ![o] = "NONE"]
    /\ UNCHANGED <<order, job, dispute, disputes, receipt, stockVars, moneyVars,
                   payout, refund, noticeVars>>

\* Maintenance cancels an order whose payment window has passed.
expireUnpaidOrder(o) ==
    /\ order[o] = "PENDING_PAYMENT"
    /\ ~goodsPaid(o)
    /\ cancelOrderInTransaction(o, "SYSTEM")
    /\ UNCHANGED <<dispute, asked>>

expireListing ==
    /\ listing = "ACTIVE"
    /\ listing' = "EXPIRED"
    /\ UNCHANGED <<orderVars, avail, moneyVars, payout, refund, noticeVars>>

\* What holdForDispute freezes.
FreezableReleasedOnly == {"RELEASED"}
Freezable == {"HELD", "RELEASED"}

\* seller says whether the dispute type covers the seller.
RaiseDispute(o, seller) ==
    /\ disputes < MaxDisputes
    /\ order[o] \in DISPUTABLE_STATUSES
    /\ disputes' = disputes + 1
    /\ dispute' = [dispute EXCEPT ![o] = [prev |-> order[o], seller |-> seller]]
    /\ order' = [order EXCEPT ![o] = "DISPUTED"]
    /\ payout' = [p \in Payments |->
                     IF OrderOf[p] = o /\ seller /\ payout[p] \in Freezable
                     THEN "ON_HOLD_DISPUTE" ELSE payout[p]]
    /\ UNCHANGED <<job, asked, receipt, stockVars, moneyVars, refund, noticeVars>>

\* resumeAfterDispute: the payouts the dispute froze go back to HELD.
resumed(o) == {p \in GoodsOf(o) : dispute[o].seller /\ payout[p] = "ON_HOLD_DISPUTE"}

\* The paid payments that get their payout from the replay.
replayedWithoutHold(o) == {}
replayed(o) == {p \in GoodsOf(o) : pay[p] = "PAID" /\ payout[p] = "NONE"}

\* replayDisputedPaidPayment for every paid payment of o, after the order
\* went back to prev: the first one commits the goods of an unpaid order.
replayDisputedPaidPayments(o, prev) ==
    /\ payout' = [p \in Payments |->
                     IF p \in resumed(o) \cup replayed(o) THEN "HELD" ELSE payout[p]]
    /\ \/ /\ prev = "PENDING_PAYMENT"
          /\ goodsPaid(o)
          /\ commitListingQuantity(o)
          /\ order' = [order EXCEPT ![o] = "CONFIRMED"]
       \/ /\ prev # "PENDING_PAYMENT" \/ ~goodsPaid(o)
          /\ order' = [order EXCEPT ![o] = prev]
          /\ UNCHANGED stockVars

\* DISMISSED, or CANCEL_SERVICE for a transporter whose fee is not paid: the
\* job is then cleared and transport can be arranged again.
ResolveDispute(o, cancelService) ==
    /\ dispute[o].prev # "NONE"
    /\ order[o] = "DISPUTED"
    /\ cancelService => job[o] \notin {"NONE", "CANCELLED"}
    /\ replayDisputedPaidPayments(o, dispute[o].prev)
    /\ dispute' = [dispute EXCEPT ![o] = NoDispute]
    /\ job' = IF cancelService THEN [job EXCEPT ![o] = "NONE"] ELSE job
    /\ UNCHANGED <<disputes, asked, receipt, moneyVars, refund, noticeVars>>

ResolveCancelOrder(o) ==
    /\ dispute[o].prev # "NONE"
    /\ order[o] = "DISPUTED"
    /\ cancelOrderInTransaction(o, "ADMIN")
    /\ dispute' = [dispute EXCEPT ![o] = NoDispute]
    /\ UNCHANGED asked

-----------------------------------------------------------------------------
(* Payment attempts *)

otherVars == <<orderVars, stockVars, payout, refund>>

\* The unique obligationId leaves one attempt per order until it fails.
createPayment(p) ==
    LET o == OrderOf[p] IN
    /\ pay[p] = "NONE"
    /\ order[o] \notin {"NONE", "DISPUTED", "COMPLETED"}
    /\ job[o] # "NONE"
    /\ GoodsOf(o) \cap linked = {}
    /\ \A q \in GoodsOf(o) : pay[q] \notin {"PENDING", "PROCESSING", "PAID"}
    /\ pay' = [pay EXCEPT ![p] = "PENDING"]
    /\ linked' = linked \cup {p}
    /\ UNCHANGED <<otherVars, prov, flagged, noticeVars>>

\* Chapa checkout: the row is claimed, then the provider is called.
initializeChapa(p) ==
    /\ pay[p] = "PENDING"
    /\ ~RowLocked(p)
    /\ prov[p] = "none"
    /\ pay' = [pay EXCEPT ![p] = "PROCESSING"]
    /\ prov' = [prov EXCEPT ![p] = "calling"]
    /\ UNCHANGED <<otherVars, linked, flagged, noticeVars>>

initializeFails(p) ==
    /\ prov[p] = "calling"
    /\ ~RowLocked(p)
    /\ prov' = [prov EXCEPT ![p] = "none"]
    /\ pay' = IF pay[p] = "PROCESSING" THEN [pay EXCEPT ![p] = "PENDING"] ELSE pay
    /\ UNCHANGED <<otherVars, linked, flagged, noticeVars>>

CheckoutOpens(p) ==
    /\ prov[p] = "calling"
    /\ prov' = [prov EXCEPT ![p] = "open"]
    /\ UNCHANGED <<otherVars, pay, linked, flagged, noticeVars>>

\* The buyer pays, pays another amount, or gives up, at the provider.
ProviderDecides(p, d) ==
    /\ prov[p] = "open"
    /\ prov' = [prov EXCEPT ![p] = d]
    /\ UNCHANGED <<otherVars, pay, linked, flagged, noticeVars>>

-----------------------------------------------------------------------------
(* Settlement *)

begin(n, p, report, id) ==
    /\ notice[n] = Idle
    /\ notice' = [notice EXCEPT ![n] =
                     [at |-> "begin", pay |-> p, rep |-> report, id |-> id]]
    /\ UNCHANGED <<otherVars, moneyVars, events>>

\* Chapa callback, webhook or verify: nothing to do for a PAID payment,
\* otherwise what the provider answers is settled.
ChapaNotice(n, p) ==
    /\ pay[p] # "PAID"
    /\ prov[p] \in Decisions
    /\ begin(n, p, prov[p], "new")

\* The signed webhook of another provider.
GenericNotice(n, p, s) ==
    /\ pay[p] # "NONE"
    /\ begin(n, p, s, s)

\* An admin confirms an offline payment that never went to a provider.
AdminConfirm(n, p) ==
    /\ pay[p] = "PENDING"
    /\ prov[p] = "none"
    /\ begin(n, p, "PAID", "admin")

\* The state guards: reports a payment in status s does not take.
Ignores(s, report) ==
    \/ s = "REFUNDED" /\ report # "REFUNDED"
    \/ s = "PAID" /\ report \in {"FAILED", "RECONCILIATION_REQUIRED"}

goto(n, point) ==
    /\ notice' = [notice EXCEPT ![n].at = point]
    /\ UNCHANGED events

\* The transaction of n is over; if it committed, its event is recorded.
leave(n) ==
    /\ notice' = [notice EXCEPT ![n] = Idle]
    /\ UNCHANGED events
commit(n) ==
    /\ notice' = [notice EXCEPT ![n] = Idle]
    /\ events' = IF notice[n].id = "new" THEN events
                 ELSE events \cup {<<notice[n].pay, notice[n].id>>}

\* Another transaction has inserted the same event and not committed yet.
SameEventOpen(n) ==
    /\ notice[n].id # "new"
    /\ \E m \in Notices \ {n} :
          /\ notice[m].at \notin {"idle", "begin", "short"}
          /\ notice[m].pay = notice[n].pay
          /\ notice[m].id = notice[n].id

Seen(n) == <<notice[n].pay, notice[n].id>> \in events

\* The first, unlocked read of the payment and its order decides the path.
\* A report that does not match the payment is parked for reconciliation.
SettleRead(n) ==
    LET p == notice[n].pay  report == notice[n].rep IN
    /\ notice[n].at = "begin"
    /\ ~SameEventOpen(n)
    /\ report # "MISMATCH"
    /\ \/ /\ Seen(n)
          /\ leave(n)
       \/ /\ ~Seen(n)
          /\ Ignores(pay[p], report)
          /\ commit(n)
       \/ /\ ~Seen(n)
          /\ ~Ignores(pay[p], report)
          /\ goto(n, IF report = "PAID" /\ order[OrderOf[p]] = "DISPUTED"
                     THEN "readDisputed" ELSE "read")
    /\ UNCHANGED <<otherVars, moneyVars>>

\* An amount or currency that does not match is checked before the event.
SettleReadMismatch(n) ==
    LET p == notice[n].pay IN
    /\ notice[n].at = "begin"
    /\ notice[n].rep = "MISMATCH"
    /\ \/ /\ canTransition(pay[p], "RECONCILIATION_REQUIRED")
          /\ goto(n, "toRecon")
          /\ UNCHANGED flagged
       \/ /\ ~canTransition(pay[p], "RECONCILIATION_REQUIRED")
          /\ flagged' = flagged \cup {p}
          /\ leave(n)
    /\ UNCHANGED <<otherVars, pay, linked, prov>>

SettleMismatch(n) ==
    LET p == notice[n].pay IN
    /\ notice[n].at = "toRecon"
    /\ ~RowLocked(p)
    /\ pay' = [pay EXCEPT ![p] = "RECONCILIATION_REQUIRED"]
    /\ flagged' = flagged \cup {p}
    /\ leave(n)
    /\ UNCHANGED <<otherVars, linked, prov>>

\* Any report but PAID: the unconditional update, and the obligation is
\* freed by FAILED.
SettleUnpaid(n) ==
    LET p == notice[n].pay IN
    /\ notice[n].at = "read"
    /\ notice[n].rep # "PAID"
    /\ ~RowLocked(p)
    /\ pay' = [pay EXCEPT ![p] = notice[n].rep]
    /\ linked' = IF notice[n].rep = "FAILED" THEN linked \ {p} ELSE linked
    /\ commit(n)
    /\ UNCHANGED <<otherVars, prov, flagged>>

\* PAID: the unconditional update takes the row lock; the order is read
\* again and decides what the rest of the transaction does.
SettleLock(n) ==
    LET p == notice[n].pay  o == OrderOf[p] IN
    /\ notice[n].at \in {"read", "readDisputed"}
    /\ notice[n].rep = "PAID"
    /\ ~RowLocked(p)
    /\ goto(n, CASE notice[n].at = "readDisputed" -> "withhold"
                 [] notice[n].at = "read" /\ order[o] = "PENDING_PAYMENT" -> "confirm"
                 [] notice[n].at = "read" /\ order[o] = "CANCELLED" -> "late"
                 [] OTHER -> "plain")
    /\ UNCHANGED <<otherVars, moneyVars>>

\* The payment is PAID without business effects: the order was disputed when
\* first read, or it is cancelled (both flagged), or it is past payment.
SettleCommit(n) ==
    LET p == notice[n].pay IN
    /\ notice[n].at \in {"withhold", "late", "plain"}
    /\ pay' = [pay EXCEPT ![p] = "PAID"]
    /\ flagged' = IF notice[n].at = "plain" THEN flagged ELSE flagged \cup {p}
    /\ commit(n)
    /\ UNCHANGED <<otherVars, linked, prov>>

createPayoutHold(p) ==
    payout' = IF payout[p] = "NONE" THEN [payout EXCEPT ![p] = "HELD"] ELSE payout

\* The payment confirms its order: stock, order and payout move with it.
SettleConfirm(n) ==
    LET p == notice[n].pay  o == OrderOf[p] IN
    /\ notice[n].at = "confirm"
    /\ order[o] = "PENDING_PAYMENT"
    /\ commitListingQuantity(o)
    /\ pay' = [pay EXCEPT ![p] = "PAID"]
    /\ order' = [order EXCEPT ![o] = "CONFIRMED"]
    /\ createPayoutHold(p)
    /\ commit(n)
    /\ UNCHANGED <<job, dispute, disputes, asked, receipt, linked, prov, flagged, refund>>

\* No stock: rolled back, then recorded by a transaction of its own.
SettleNoStock(n) ==
    /\ notice[n].at = "confirm"
    /\ ~CanCommit(OrderOf[notice[n].pay])
    /\ goto(n, "short")
    /\ UNCHANGED <<otherVars, moneyVars>>

SettleShortUnflagged(n) ==
    LET p == notice[n].pay IN
    /\ notice[n].at = "short"
    /\ ~RowLocked(p)
    /\ pay' = IF canTransition(pay[p], "RECONCILIATION_REQUIRED")
              THEN [pay EXCEPT ![p] = "RECONCILIATION_REQUIRED"] ELSE pay
    /\ leave(n)
    /\ UNCHANGED <<otherVars, linked, prov, flagged>>

SettleShort(n) ==
    LET p == notice[n].pay IN
    /\ notice[n].at = "short"
    /\ ~RowLocked(p)
    /\ \/ /\ canTransition(pay[p], "RECONCILIATION_REQUIRED")
          /\ pay' = [pay EXCEPT ![p] = "RECONCILIATION_REQUIRED"]
          /\ flagged' = flagged \cup {p}
       \/ /\ ~canTransition(pay[p], "RECONCILIATION_REQUIRED")
          /\ UNCHANGED <<pay, flagged>>
    /\ leave(n)
    /\ UNCHANGED <<otherVars, linked, prov>>

\* ORDER_STATE_CONFLICT: the order moved after it was read; rolled back.
SettleConflict(n) ==
    /\ notice[n].at = "confirm"
    /\ CanCommit(OrderOf[notice[n].pay])
    /\ order[OrderOf[notice[n].pay]] # "PENDING_PAYMENT"
    /\ leave(n)
    /\ UNCHANGED <<otherVars, moneyVars>>

\* The server dies or the transaction times out: nothing is written.
SettleDies(n) ==
    /\ notice[n].at # "idle"
    /\ leave(n)
    /\ UNCHANGED <<otherVars, moneyVars>>

-----------------------------------------------------------------------------
(* Refunds and payouts *)

settling == <<linked, prov, flagged, noticeVars>>

\* Submitting a refund needs a provider transaction and a cancelled order.
processRefund(p) ==
    /\ refund[p] = "REQUESTED"
    /\ prov[p] # "none"
    /\ order[OrderOf[p]] = "CANCELLED"
    /\ refund' = [refund EXCEPT ![p] = "PROCESSING"]
    /\ UNCHANGED <<orderVars, stockVars, pay, payout, settling>>

\* The provider reports the refund done.
finalizeRefund(p) ==
    /\ refund[p] = "PROCESSING"
    /\ order[OrderOf[p]] = "CANCELLED"
    /\ canTransition(pay[p], "REFUNDED")
    /\ ~RowLocked(p)
    /\ refund' = [refund EXCEPT ![p] = "COMPLETED"]
    /\ pay' = [pay EXCEPT ![p] = "REFUNDED"]
    /\ UNCHANGED <<orderVars, stockVars, payout, settling>>

\* The provider refuses or reverses it, or an admin fails an unsubmitted one.
failRefund(p) ==
    /\ refund[p] \in {"REQUESTED", "PROCESSING"}
    /\ ~RowLocked(p)
    /\ refund' = [refund EXCEPT ![p] = "FAILED"]
    /\ pay' = IF pay[p] = "REFUND_PENDING" THEN [pay EXCEPT ![p] = "PAID"] ELSE pay
    /\ UNCHANGED <<orderVars, stockVars, payout, settling>>

retryRefund(p) ==
    /\ refund[p] = "FAILED"
    /\ pay[p] \in {"PAID", "REFUND_PENDING"}
    /\ ~RowLocked(p)
    /\ refund' = [refund EXCEPT ![p] = "REQUESTED"]
    /\ pay' = [pay EXCEPT ![p] = "REFUND_PENDING"]
    /\ UNCHANGED <<orderVars, stockVars, payout, settling>>

receivedAnyway(o) == TRUE
received(o) == o \in receipt \/ order[o] = "COMPLETED"

\* releaseDuePayouts, for a payout whose hold window has passed.
releaseDuePayout(p) ==
    /\ payout[p] = "HELD"
    /\ received(OrderOf[p])
    /\ payout' = [payout EXCEPT ![p] = "RELEASED"]
    /\ UNCHANGED <<orderVars, stockVars, moneyVars, refund, noticeVars>>

markPaidOut(p) ==
    /\ payout[p] = "RELEASED"
    /\ payout' = [payout EXCEPT ![p] = "PAID_OUT"]
    /\ UNCHANGED <<orderVars, stockVars, moneyVars, refund, noticeVars>>

-----------------------------------------------------------------------------
OrderStep(o) ==
    \/ acceptOfferAndCreateOrder(o)
    \/ ArrangeTransport(o)
    \/ CancelTransport(o)
    \/ \E admin \in BOOLEAN : Pickup(o, admin)
    \/ Depart(o)
    \/ Deliver(o)
    \/ AskReceipt(o)
    \/ ConfirmReceipt(o)
    \/ \E role \in Roles : AskCancel(o, role)
    \/ CancelOrder(o)
    \/ CancelRefused(o)
    \/ expireUnpaidOrder(o)
    \/ \E seller \in BOOLEAN : RaiseDispute(o, seller)
    \/ \E cancelService \in BOOLEAN : ResolveDispute(o, cancelService)
    \/ ResolveCancelOrder(o)

PaymentStep(p) ==
    \/ createPayment(p)
    \/ initializeChapa(p)
    \/ initializeFails(p)
    \/ CheckoutOpens(p)
    \/ \E d \in Decisions : ProviderDecides(p, d)
    \/ processRefund(p)
    \/ finalizeRefund(p)
    \/ failRefund(p)
    \/ retryRefund(p)
    \/ releaseDuePayout(p)
    \/ markPaidOut(p)

Arrives(n, p) ==
    \/ ChapaNotice(n, p)
    \/ AdminConfirm(n, p)
    \/ \E s \in Generic : GenericNotice(n, p, s)

SettleStep(n) ==
    \/ SettleRead(n)
    \/ SettleReadMismatch(n)
    \/ SettleMismatch(n)
    \/ SettleUnpaid(n)
    \/ SettleLock(n)
    \/ SettleCommit(n)
    \/ SettleConfirm(n)
    \/ SettleNoStock(n)
    \/ SettleShort(n)
    \/ SettleConflict(n)

Next ==
    \/ \E o \in Orders : OrderStep(o)
    \/ \E p \in Payments : PaymentStep(p)
    \/ \E n \in Notices, p \in Payments : Arrives(n, p)
    \/ \E n \in Notices : SettleStep(n) \/ SettleDies(n)
    \/ expireListing

Spec == Init /\ [][Next]_vars

\* Chapa redelivers its webhook until it is answered and the buyer's page
\* keeps asking for verification, so a settlement that dies is started again;
\* a step that can be tried again and again is not refused forever.
SettlementFairness ==
    /\ \A p \in Payments : SF_vars(\E n \in Notices : ChapaNotice(n, p))
    /\ \A n \in Notices :
          /\ SF_vars(SettleRead(n))
          /\ SF_vars(SettleLock(n))
          /\ SF_vars(SettleCommit(n))
          /\ SF_vars(SettleConfirm(n))
          /\ SF_vars(SettleNoStock(n))
          /\ SF_vars(SettleShort(n))
          /\ SF_vars(SettleConflict(n))

FairSpec == Spec /\ SettlementFairness

-----------------------------------------------------------------------------
(* Safety *)

Sold == {"CONFIRMED", "TRANSPORT_ARRANGED", "IN_TRANSIT", "DELIVERED", "COMPLETED"}

\* The status an order has, or had when its still open dispute was raised.
Standing(o) == IF dispute[o].prev # "NONE" THEN dispute[o].prev ELSE order[o]

\* The seller and the buyer are never both paid with the same money: once a
\* refund of a payment was requested, or its status says it is being or has
\* been refunded, its payout can no longer leave the platform
\* (cancelPayoutsForOrder, requestRefund, releaseDuePayouts, markPaidOut).
NeverPaidTwice ==
    \A p \in Payments :
        refund[p] # "NONE" \/ pay[p] \in {"REFUND_PENDING", "REFUNDED"}
            => payout[p] \in {"NONE", "CANCELLED"}

\* Seller money leaves escrow only for an order whose goods were delivered
\* and whose receipt the buyer confirmed, and such an order never goes back
\* (releaseDuePayouts, confirm-receipt).
PayoutAfterReceipt ==
    \A p \in Payments :
        payout[p] \in {"RELEASED", "PAID_OUT"} =>
            /\ order[OrderOf[p]] = "COMPLETED"
            /\ OrderOf[p] \in receipt

\* While a dispute that covers the seller is open, none of the order's money
\* is on its way to the seller, whatever settlements were in flight when the
\* dispute was raised (holdForDispute against settlePayment).
DisputeFreezesPayout ==
    \A p \in Payments :
        order[OrderOf[p]] = "DISPUTED" /\ dispute[OrderOf[p]].seller
            => payout[p] \in {"NONE", "ON_HOLD_DISPUTE", "CANCELLED"}

\* The seller of sold goods always has a payout that can still reach him,
\* through disputes, replays, repeated notices and rolled back settlements
\* (settlePaymentCore, replayDisputedPaidPayment, createPayoutHold).
SoldOrderHasPayout ==
    \A o \in Orders :
        Standing(o) \in Sold /\ order[o] # "CANCELLED"
            => \E p \in GoodsOf(o) : payout[p] \notin {"NONE", "CANCELLED"}

\* The orders whose goods are off the listing, and the goods they hold.
Holding(o) == Standing(o) \in Sold /\ order[o] # "CANCELLED"
held == [o \in Orders |-> IF Holding(o) THEN Qty[o] ELSE 0]

\* Goods are never lost from the listing: whatever is not available was sold
\* in an order that still stands (commitListingQuantity,
\* releaseListingQuantity).
StockNeverLost == avail + SumFunction(held) >= Quantity

\* Money the provider took is never forgotten: the payment becomes PAID, or
\* a reconciliation issue says why it did not, whatever crashes, conflicts
\* and disputes come in between (settlePayment, its rollback and its
\* INSUFFICIENT_INVENTORY fallback).
TakenMoneySettles ==
    \A p \in Payments :
        prov[p] = "PAID" ~>
            \/ pay[p] \in {"PAID", "REFUND_PENDING", "REFUNDED"}
            \/ p \in flagged

-----------------------------------------------------------------------------
(* Refinement: who holds the money of each payment *)

custody ==
    [p \in Payments |->
        CASE refund[p] = "COMPLETED"                      -> "BUYER"
          [] refund[p] \in {"REQUESTED", "PROCESSING", "FAILED"} -> "RETURNING"
          [] refund[p] = "NONE" /\ payout[p] = "PAID_OUT" -> "SELLER"
          [] refund[p] = "NONE" /\ payout[p] = "RELEASED" -> "SELLER_DUE"
          [] OTHER                                        -> "ESCROW"]

Custody == INSTANCE Custody WITH custody <- custody

\* Every step of orders, settlements, disputes, refunds and payouts moves the
\* money of a payment along one of two one-way roads, or not at all.
CustodySpec == Custody!Spec

-----------------------------------------------------------------------------
(* What comments and documents say and the code does not do *)

\* "Provider notifications must never be able to move money backwards":
\* PAID does not fall back to an unpaid status and REFUNDED is final.
MoneyNeverBackwards ==
    [][\A p \in Payments :
          /\ pay[p] = "PAID" => pay'[p] \notin {"PENDING", "PROCESSING", "FAILED"}
          /\ pay[p] = "REFUNDED" => pay'[p] = "REFUNDED"]_vars
=============================================================================
