---------------------------- MODULE EscrowProofs ----------------------------
(***************************************************************************)
(* What holds of Escrow for every number of orders, payment attempts and   *)
(* settlement requests in flight.                                          *)
(*                                                                         *)
(* RequestsOK types the requests in flight beyond TypeOK; MoneyOK is the   *)
(* inductive invariant that ties payouts, receipts, disputes and refunds   *)
(* to the order they belong to.  Each is kept action by action; the        *)
(* safety theorems and the refinement follow from them.                    *)
(***************************************************************************)
EXTENDS Escrow, SumTheorems, TLAPS

-----------------------------------------------------------------------------
(* Types *)

\* A request in flight is about a payment; a report that does not match is
\* only ever parked; REFUNDED is reported by a generic webhook alone.
RequestsOK ==
    \A n \in Notices :
        /\ notice[n].at # "idle" => notice[n].pay \in Payments
        /\ notice[n].rep = "MISMATCH" => notice[n].at \in {"begin", "toRecon"}
        /\ notice[n].rep = "REFUNDED" => "REFUNDED" \in Generic

RequestsTyped ==
    /\ events \subseteq Payments \X EventIds
    /\ notice \in [Notices -> [at : Points, pay : Payments \cup {NoPayment},
                               rep : Reports, id : EventIds]]
    /\ RequestsOK

\* A request that leaves or commits leaves proper requests behind.
LEMMA LeaveTyped ==
    ASSUME TypeOK, RequestsOK, NEW n \in Notices, notice[n].at # "idle",
           leave(n) \/ commit(n)
    PROVE  RequestsTyped'
  <1>1. CASE leave(n)
    BY <1>1
       DEF leave, Idle, RequestsTyped, RequestsOK, TypeOK, Points, Locked, Reports, EventIds
  <1>2. CASE commit(n)
    BY <1>2
       DEF commit, Idle, RequestsTyped, RequestsOK, TypeOK, Points, Locked, Reports, EventIds
  <1> QED  BY <1>1, <1>2

\* So does one that goes on to a later point.
LEMMA GotoTyped ==
    ASSUME TypeOK, RequestsOK, NEW n \in Notices, notice[n].at # "idle",
           NEW point \in Points, goto(n, point),
           notice[n].rep = "MISMATCH" => point = "toRecon"
    PROVE  RequestsTyped'
  <1>1. notice' \in [Notices -> [at : Points, pay : Payments \cup {NoPayment},
                                rep : Reports, id : EventIds]]
    BY DEF goto, TypeOK
  <1>2. \A m \in Notices : /\ notice'[m].pay = notice[m].pay
                           /\ notice'[m].rep = notice[m].rep
                           /\ notice'[m].at = IF m = n THEN point ELSE notice[m].at
    BY DEF goto, TypeOK
  <1>3. RequestsOK'
    BY <1>2 DEF RequestsOK
  <1> QED  BY <1>1, <1>3 DEF goto, RequestsTyped, TypeOK


\* Every step of a settlement keeps the types.
LEMMA SettlementTyped ==
    ASSUME ConstantsAssumption, TypeOK, RequestsOK, NEW n \in Notices,
           SettleStep(n) \/ SettleDies(n)
    PROVE  TypeOK' /\ RequestsOK'
  <1> DEFINE p == notice[n].pay
  <1> USE DEF RequestsTyped
  <1>a. notice[n].at # "idle" => p \in Payments /\ OrderOf[p] \in Orders
    BY DEF RequestsOK, ConstantsAssumption
  <1>b. /\ notice[n].at = "idle" => ~SettleStep(n) /\ ~SettleDies(n)
    BY DEF SettleStep, SettleDies, SettleRead, SettleReadMismatch, SettleMismatch,
       SettleUnpaid, SettleLock, SettleCommit, SettleConfirm, SettleNoStock,
       SettleShort, SettleConflict
  <1>1. CASE SettleRead(n)
    <2>1. RequestsTyped'
      BY <1>1, <1>b, LeaveTyped, GotoTyped DEF SettleRead, Points
    <2> QED  BY <1>1, <2>1
                DEF SettleRead, TypeOK, otherVars, orderVars, stockVars, moneyVars
  <1>2. CASE SettleReadMismatch(n)
    <2>1. RequestsTyped'
      BY <1>2, <1>b, LeaveTyped, GotoTyped DEF SettleReadMismatch, Points
    <2> QED  BY <1>2, <1>a, <2>1
                DEF SettleReadMismatch, TypeOK, otherVars, orderVars, stockVars
  <1>3. CASE SettleMismatch(n)
    <2>1. RequestsTyped'
      BY <1>3, <1>b, LeaveTyped DEF SettleMismatch
    <2> QED  BY <1>3, <1>a, <2>1
                DEF SettleMismatch, TypeOK, PaymentStatus, otherVars, orderVars, stockVars
  <1>4. CASE SettleUnpaid(n)
    <2>1. RequestsTyped'
      BY <1>4, <1>b, LeaveTyped DEF SettleUnpaid
    <2>2. notice[n].rep \in PaymentStatus
      BY <1>4 DEF SettleUnpaid, TypeOK, RequestsOK, Reports, PaymentStatus
    <2> QED  BY <1>4, <1>a, <2>1, <2>2
                DEF SettleUnpaid, TypeOK, otherVars, orderVars, stockVars
  <1>5. CASE SettleLock(n)
    <2>1. RequestsTyped'
      <3>1. \E point \in Points : goto(n, point)
         BY <1>5 DEF SettleLock, Points, Locked
      <3> QED  BY <1>5, <1>b, <3>1, GotoTyped DEF SettleLock
    <2> QED  BY <1>5, <1>a, <2>1
                DEF SettleLock, TypeOK, otherVars, orderVars, stockVars, moneyVars
  <1>6. CASE SettleCommit(n)
    <2>1. RequestsTyped'
      BY <1>6, <1>b, LeaveTyped DEF SettleCommit
    <2> QED  BY <1>6, <1>a, <2>1
                DEF SettleCommit, TypeOK, PaymentStatus, otherVars, orderVars, stockVars
  <1>7. CASE SettleConfirm(n)
    <2>1. RequestsTyped'
      BY <1>7, <1>b, LeaveTyped DEF SettleConfirm
    <2>2. avail' \in 0 .. Quantity /\ listing' \in {"ACTIVE", "SOLD", "EXPIRED"}
      BY <1>7, <1>a
         DEF SettleConfirm, commitListingQuantity, CanCommit, TypeOK, ConstantsAssumption
    <2> QED  BY <1>7, <1>a, <2>1, <2>2
                DEF SettleConfirm, createPayoutHold, TypeOK, PaymentStatus, PayoutStatus, OrderStatus
  <1>8. CASE SettleNoStock(n)
    <2>1. RequestsTyped'
      BY <1>8, <1>b, GotoTyped DEF SettleNoStock, Points, RequestsOK
    <2> QED  BY <1>8, <1>a, <2>1
                DEF SettleNoStock, TypeOK, otherVars, orderVars, stockVars, moneyVars
  <1>9. CASE SettleShort(n)
    <2>1. RequestsTyped'
      BY <1>9, <1>b, LeaveTyped DEF SettleShort
    <2> QED  BY <1>9, <1>a, <2>1
                DEF SettleShort, TypeOK, PaymentStatus, otherVars, orderVars, stockVars
  <1>10. CASE SettleConflict(n) \/ SettleDies(n)
    <2>1. RequestsTyped'
      BY <1>10, <1>b, LeaveTyped DEF SettleConflict, SettleDies
    <2> QED  BY <1>10, <2>1
                DEF SettleConflict, SettleDies, TypeOK, otherVars, orderVars, stockVars, moneyVars
  <1> QED  BY <1>1, <1>2, <1>3, <1>4, <1>5, <1>6, <1>7, <1>8, <1>9, <1>10 DEF SettleStep

\* Every step of an order keeps the types.
LEMMA OrderTyped ==
    ASSUME ConstantsAssumption, TypeOK, RequestsOK, NEW o \in Orders, OrderStep(o)
    PROVE  TypeOK' /\ RequestsOK'
  <1> USE DEF ConstantsAssumption, TypeOK, OrderStatus, JobStatus, PaymentStatus,
        PayoutStatus, RefundStatus, Roles, stockVars, moneyVars, noticeVars
  <1>1. RequestsOK'
    BY DEF OrderStep, RequestsOK, acceptOfferAndCreateOrder, ArrangeTransport, CancelTransport, Pickup,
       Depart, Deliver, AskReceipt, ConfirmReceipt, AskCancel, CancelOrder,
       CancelRefused, expireUnpaidOrder, RaiseDispute, ResolveDispute,
       ResolveCancelOrder, cancelOrderInTransaction
  <1>2. CASE acceptOfferAndCreateOrder(o)
    BY <1>1, <1>2 DEF acceptOfferAndCreateOrder
  <1>3. CASE ArrangeTransport(o)
    BY <1>1, <1>3 DEF ArrangeTransport
  <1>16. CASE CancelTransport(o)
    BY <1>1, <1>16 DEF CancelTransport
  <1>4. CASE \E admin \in BOOLEAN : Pickup(o, admin)
    BY <1>1, <1>4 DEF Pickup
  <1>5. CASE Depart(o)
    BY <1>1, <1>5 DEF Depart
  <1>6. CASE Deliver(o)
    BY <1>1, <1>6 DEF Deliver
  <1>7. CASE AskReceipt(o)
    BY <1>1, <1>7 DEF AskReceipt
  <1>8. CASE ConfirmReceipt(o)
    <2>1. order' \in [Orders -> OrderStatus \cup {"NONE"}] /\ receipt' \subseteq Orders
      BY <1>8 DEF ConfirmReceipt
    <2> QED  BY <1>1, <1>8, <2>1 DEF ConfirmReceipt
  <1>9. CASE \E role \in Roles : AskCancel(o, role)
    BY <1>1, <1>9 DEF AskCancel
  <1>10. CASE CancelRefused(o)
    BY <1>1, <1>10 DEF CancelRefused
  <1>11. CASE CancelOrder(o)
    BY <1>1, <1>11 DEF CancelOrder, cancelOrderInTransaction, releaseListingQuantity,
       restored, unwindMoney
  <1>12. CASE expireUnpaidOrder(o)
    BY <1>1, <1>12 DEF expireUnpaidOrder, cancelOrderInTransaction,
       releaseListingQuantity, restored, unwindMoney
  <1>13. CASE ResolveCancelOrder(o)
    BY <1>1, <1>13 DEF ResolveCancelOrder, cancelOrderInTransaction,
       releaseListingQuantity, restored, unwindMoney, NoDispute
  <1>14. CASE \E seller \in BOOLEAN : RaiseDispute(o, seller)
    BY <1>1, <1>14 DEF RaiseDispute
  <1>15. CASE \E cancelService \in BOOLEAN : ResolveDispute(o, cancelService)
    <2>1. /\ order' \in [Orders -> OrderStatus \cup {"NONE"}]
          /\ avail' \in 0 .. Quantity
          /\ listing' \in {"ACTIVE", "SOLD", "EXPIRED"}
      BY <1>15
         DEF ResolveDispute, replayDisputedPaidPayments, commitListingQuantity, CanCommit
    <2> QED  BY <1>1, <1>15, <2>1
                DEF ResolveDispute, replayDisputedPaidPayments, NoDispute
  <1> QED  BY <1>2, <1>3, <1>4, <1>5, <1>6, <1>7, <1>8,
              <1>9, <1>10, <1>11, <1>12, <1>13, <1>14, <1>15, <1>16 DEF OrderStep

\* Every step of a payment, a refund or a payout keeps the types.
LEMMA PaymentTyped ==
    ASSUME ConstantsAssumption, TypeOK, RequestsOK, NEW p \in Payments, PaymentStep(p)
    PROVE  TypeOK' /\ RequestsOK'
  <1> USE DEF TypeOK, PaymentStatus, orderVars, stockVars, moneyVars, noticeVars,
        otherVars, settling
  <1>1. RequestsOK'
    BY DEF PaymentStep, RequestsOK, createPayment, initializeChapa, initializeFails,
       CheckoutOpens, ProviderDecides, processRefund, finalizeRefund, failRefund,
       retryRefund, releaseDuePayout, markPaidOut
  <1>2. CASE createPayment(p)
    BY <1>1, <1>2 DEF createPayment
  <1>3. CASE initializeChapa(p)
    BY <1>1, <1>3 DEF initializeChapa
  <1>4. CASE initializeFails(p)
    BY <1>1, <1>4 DEF initializeFails
  <1>5. CASE CheckoutOpens(p)
    BY <1>1, <1>5 DEF CheckoutOpens
  <1>6. CASE \E d \in Decisions : ProviderDecides(p, d)
    BY <1>1, <1>6 DEF ProviderDecides, Decisions
  <1>7. CASE processRefund(p)
    BY <1>1, <1>7 DEF processRefund, RefundStatus
  <1>8. CASE finalizeRefund(p)
    BY <1>1, <1>8 DEF finalizeRefund, RefundStatus
  <1>9. CASE failRefund(p)
    BY <1>1, <1>9 DEF failRefund, RefundStatus
  <1>10. CASE retryRefund(p)
    BY <1>1, <1>10 DEF retryRefund, RefundStatus
  <1>11. CASE releaseDuePayout(p) \/ markPaidOut(p)
    BY <1>1, <1>11 DEF releaseDuePayout, markPaidOut, PayoutStatus
  <1> QED  BY <1>2, <1>3, <1>4, <1>5, <1>6, <1>7, <1>8, <1>9, <1>10, <1>11
              DEF PaymentStep

\* A new request is well formed.
LEMMA ArrivalTyped ==
    ASSUME ConstantsAssumption, TypeOK, RequestsOK,
           NEW n \in Notices, NEW p \in Payments, Arrives(n, p)
    PROVE  TypeOK' /\ RequestsOK'
  <1>1. PICK report \in Decisions \cup Generic, id \in EventIds : begin(n, p, report, id)
    BY DEF Arrives, ChapaNotice, AdminConfirm, GenericNotice, Decisions, EventIds,
       Reports, ConstantsAssumption
  <1>2. report \in Reports
    BY DEF Decisions, Reports, ConstantsAssumption
  <1> QED  BY <1>1, <1>2 DEF begin, TypeOK, RequestsOK, Decisions, Points, otherVars,
              orderVars, stockVars, moneyVars

\* Every step of the system keeps the types.
LEMMA StepTyped == ASSUME ConstantsAssumption, TypeOK, RequestsOK, [Next]_vars
                   PROVE  TypeOK' /\ RequestsOK'
  <1>1. CASE expireListing
    BY <1>1 DEF expireListing, TypeOK, RequestsOK, orderVars, moneyVars, noticeVars
  <1>2. CASE UNCHANGED vars
    BY <1>2 DEF vars, TypeOK, RequestsOK, orderVars, stockVars, moneyVars, noticeVars
  <1> QED  BY <1>1, <1>2, OrderTyped, PaymentTyped, ArrivalTyped, SettlementTyped
              DEF Next

\* The empty marketplace is typed.
LEMMA InitTyped == ASSUME ConstantsAssumption, Init
                   PROVE  TypeOK /\ RequestsOK
  BY DEF Init, TypeOK, RequestsOK, OrderStatus, JobStatus, PaymentStatus, PayoutStatus,
     RefundStatus, ConstantsAssumption, Idle, NoDispute, Points, Reports, EventIds

\* No settlement, refund, cancellation or replay writes a status the tables
\* do not know, and the listing's stock stays between zero and its quantity
\* (settlePayment, cancelOrderInTransaction, releaseListingQuantity).
THEOREM TypeCorrect == Spec => [](TypeOK /\ RequestsOK)
  BY ConstantsAssumption, InitTyped, StepTyped, PTL DEF Spec

-----------------------------------------------------------------------------
(* Money *)

\* A receipt is recorded for exactly the completed orders.
ReceiptOK == \A o \in Orders : o \in receipt <=> order[o] = "COMPLETED"

\* A dispute is raised on an order that is neither completed nor cancelled.
DisputeOK == \A o \in Orders : dispute[o].prev \in DISPUTABLE_STATUSES \cup {"NONE"}

\* A cancelled order keeps no payout, and only its payments are refunded.
CancelledOK ==
    \A p \in Payments :
        /\ order[OrderOf[p]] = "CANCELLED" => payout[p] \in {"NONE", "CANCELLED"}
        /\ refund[p] # "NONE" => order[OrderOf[p]] = "CANCELLED"

\* Without a generic webhook that reports refunds, only a refund makes a
\* payment REFUND_PENDING or REFUNDED.
RefundedOK ==
    "REFUNDED" \notin Generic =>
        \A p \in Payments : pay[p] \in {"REFUND_PENDING", "REFUNDED"} => refund[p] # "NONE"

MoneyOK ==
    /\ ReceiptOK
    /\ DisputeOK
    /\ CancelledOK
    /\ PayoutAfterReceipt
    /\ DisputeFreezesPayout

\* What the transition table lets into DISPUTED (orderStateMachine.js).
LEMMA Disputable ==
    DISPUTABLE_STATUSES =
        {"PENDING_PAYMENT", "CONFIRMED", "TRANSPORT_ARRANGED", "IN_TRANSIT", "DELIVERED"}
  BY DEF DISPUTABLE_STATUSES, ORDER_TRANSITIONS, OrderStatus

\* Placing, moving, receiving, cancelling, disputing and resolving an order
\* keep the money invariant.
LEMMA OrderMoney ==
    ASSUME ConstantsAssumption, TypeOK, MoneyOK, NEW o \in Orders, OrderStep(o)
    PROVE  MoneyOK'
  <1> USE DEF MoneyOK, ReceiptOK, DisputeOK, CancelledOK, PayoutAfterReceipt,
        DisputeFreezesPayout
  <1>t. /\ order \in [Orders -> OrderStatus \cup {"NONE"}]
        /\ dispute \in [Orders -> [prev : OrderStatus \cup {"NONE"}, seller : BOOLEAN]]
        /\ receipt \subseteq Orders
        /\ payout \in [Payments -> PayoutStatus]
        /\ refund \in [Payments -> RefundStatus]
        /\ \A p \in Payments : OrderOf[p] \in Orders
    BY DEF TypeOK, ConstantsAssumption
  <1>1. CASE UNCHANGED <<order, dispute, receipt, payout, refund>>
    BY <1>1
  <1>2. CASE /\ UNCHANGED <<dispute, receipt, payout, refund>>
             /\ \E s \in {"PENDING_PAYMENT", "TRANSPORT_ARRANGED", "IN_TRANSIT", "DELIVERED"} :
                   order' = [order EXCEPT ![o] = s]
             /\ order[o] \notin {"CANCELLED", "COMPLETED", "DISPUTED"}
    BY <1>t, <1>2
  <1>3. CASE acceptOfferAndCreateOrder(o) \/ ArrangeTransport(o) \/ Depart(o) \/ Deliver(o)
    BY <1>1, <1>2, <1>3, <1>t DEF acceptOfferAndCreateOrder, ArrangeTransport, Depart,
       Deliver, notClosed
  <1>4. CASE \/ \E admin \in BOOLEAN : Pickup(o, admin)
             \/ \E role \in Roles : AskCancel(o, role)
             \/ AskReceipt(o) \/ CancelRefused(o) \/ CancelTransport(o)
    BY <1>1, <1>4 DEF CancelTransport, Pickup, AskCancel, AskReceipt, CancelRefused
  <1>5. CASE ConfirmReceipt(o)
    <2>1. receiptAllowed(o) => order[o] # "CANCELLED"
      BY <1>t DEF receiptAllowed, canTransitionOrder, ORDER_TRANSITIONS
    <2> QED  BY <1>1, <1>5, <1>t, <2>1 DEF ConfirmReceipt
  <1>6. ASSUME NEW role, cancelOrderInTransaction(o, role),
               dispute' \in {dispute, [dispute EXCEPT ![o] = NoDispute]}
        PROVE  MoneyOK'
    BY <1>6, <1>t
       DEF cancelOrderInTransaction, Live, NON_CANCELLABLE_STATUSES, unwindMoney,
       GoodsOf, CancellablePayouts, NoDispute, PayoutStatus
  <1>7. CASE CancelOrder(o) \/ expireUnpaidOrder(o) \/ ResolveCancelOrder(o)
    BY <1>6, <1>7 DEF CancelOrder, expireUnpaidOrder, ResolveCancelOrder
  <1>8. CASE \E seller \in BOOLEAN : RaiseDispute(o, seller)
    BY <1>8, <1>t, Disputable DEF RaiseDispute, Freezable, PayoutStatus
  <1>9. CASE \E cancelService \in BOOLEAN : ResolveDispute(o, cancelService)
    <2>1. /\ order[o] = "DISPUTED"
          /\ \E s \in {"PENDING_PAYMENT", "CONFIRMED", "TRANSPORT_ARRANGED",
                       "IN_TRANSIT", "DELIVERED"} :
                order' = [order EXCEPT ![o] = s]
          /\ dispute' = [dispute EXCEPT ![o] = NoDispute]
          /\ payout' = [p \in Payments |->
                IF p \in resumed(o) \cup replayed(o) THEN "HELD" ELSE payout[p]]
          /\ UNCHANGED <<receipt, refund>>
      BY <1>9, <1>t, Disputable DEF ResolveDispute, replayDisputedPaidPayments
    <2> QED  BY <1>t, <2>1 DEF NoDispute, resumed, replayed, GoodsOf, PayoutStatus
  <1> QED  BY <1>3, <1>4, <1>5, <1>7, <1>8, <1>9 DEF OrderStep

\* So do checkouts, refunds, releases and payouts.
LEMMA PaymentMoney ==
    ASSUME ConstantsAssumption, TypeOK, MoneyOK, NEW p \in Payments, PaymentStep(p)
    PROVE  MoneyOK'
  <1> USE DEF MoneyOK, ReceiptOK, DisputeOK, CancelledOK, PayoutAfterReceipt,
        DisputeFreezesPayout, TypeOK, otherVars, orderVars, settling
  <1>1. CASE \/ createPayment(p) \/ initializeChapa(p) \/ initializeFails(p)
             \/ CheckoutOpens(p) \/ \E d \in Decisions : ProviderDecides(p, d)
    BY <1>1 DEF createPayment, initializeChapa, initializeFails, CheckoutOpens,
       ProviderDecides
  <1>2. CASE processRefund(p) \/ finalizeRefund(p) \/ failRefund(p) \/ retryRefund(p)
    <2>1. /\ UNCHANGED <<order, dispute, receipt, payout>>
          /\ \E s \in RefundStatus : refund' = [refund EXCEPT ![p] = s]
          /\ refund[p] # "NONE"
      BY <1>2 DEF processRefund, finalizeRefund, failRefund, retryRefund, RefundStatus
    <2> QED  BY <2>1
  <1>3. CASE releaseDuePayout(p)
    BY <1>3, OrderOf[p] \in Orders DEF releaseDuePayout, received, ConstantsAssumption
  <1>4. CASE markPaidOut(p)
    BY <1>4 DEF markPaidOut
  <1> QED  BY <1>1, <1>2, <1>3, <1>4 DEF PaymentStep

\* A settlement changes orders and payouts only when it confirms an order
\* that still waits for payment.
LEMMA SettlementMoney ==
    ASSUME ConstantsAssumption, TypeOK, RequestsOK, MoneyOK, NEW n \in Notices,
           SettleStep(n) \/ SettleDies(n)
    PROVE  MoneyOK'
  <1> USE DEF MoneyOK, ReceiptOK, DisputeOK, CancelledOK, PayoutAfterReceipt,
        DisputeFreezesPayout, TypeOK, otherVars, orderVars
  <1>1. CASE SettleConfirm(n)
    <2> DEFINE p == notice[n].pay
    <2>1. p \in Payments /\ OrderOf[p] \in Orders
      BY <1>1 DEF SettleConfirm, RequestsOK, ConstantsAssumption
    <2>2. /\ order[OrderOf[p]] = "PENDING_PAYMENT"
          /\ order' = [order EXCEPT ![OrderOf[p]] = "CONFIRMED"]
          /\ createPayoutHold(p)
          /\ UNCHANGED <<dispute, receipt, refund>>
      BY <1>1 DEF SettleConfirm
    <2> QED  BY <2>1, <2>2 DEF createPayoutHold, PayoutStatus, ConstantsAssumption
  <1>2. CASE ~SettleConfirm(n)
    <2>1. UNCHANGED <<order, dispute, receipt, payout, refund>>
      BY <1>2
         DEF SettleStep, SettleDies, SettleRead, SettleReadMismatch, SettleMismatch,
         SettleUnpaid, SettleLock, SettleCommit, SettleNoStock, SettleShort, SettleConflict
    <2> QED  BY <2>1
  <1> QED  BY <1>1, <1>2

\* Every step of the system keeps the money invariant.
LEMMA StepMoney == ASSUME ConstantsAssumption, TypeOK, RequestsOK, MoneyOK, [Next]_vars
                   PROVE  MoneyOK'
  <1>1. CASE \/ expireListing \/ UNCHANGED vars
             \/ \E n \in Notices, p \in Payments : Arrives(n, p)
    <2>1. UNCHANGED <<order, dispute, receipt, payout, refund>>
      BY <1>1 DEF expireListing, vars, orderVars, Arrives, ChapaNotice, AdminConfirm,
         GenericNotice, begin, otherVars
    <2> QED  BY <2>1 DEF MoneyOK, ReceiptOK, DisputeOK, CancelledOK, PayoutAfterReceipt,
                DisputeFreezesPayout
  <1> QED  BY <1>1, OrderMoney, PaymentMoney, SettlementMoney DEF Next

\* The empty marketplace satisfies it.
LEMMA InitMoney == ASSUME Init, ConstantsAssumption PROVE MoneyOK
  BY DEF Init, ConstantsAssumption, MoneyOK, ReceiptOK, DisputeOK, CancelledOK,
     PayoutAfterReceipt, DisputeFreezesPayout, NoDispute

\* Receipts, disputes, cancellations, payouts and refunds agree with the
\* order they belong to, in every reachable state (the money handlers of
\* orderLifecycle.js, disputes.js, payoutService.js, paymentRefundService.js).
THEOREM MoneyCorrect == Spec => []MoneyOK
  BY ConstantsAssumption, TypeCorrect, InitMoney, StepMoney, PTL DEF Spec

\* Seller money leaves escrow only for a completed order whose receipt was
\* confirmed, whatever the settlements, cancellations and disputes
\* (releaseDuePayouts, confirm-receipt).
THEOREM PayoutNeedsReceipt == Spec => []PayoutAfterReceipt
  <1>1. MoneyOK => PayoutAfterReceipt
    BY DEF MoneyOK
  <1> QED  BY <1>1, MoneyCorrect, PTL

\* No money is on its way to a seller under an open dispute that covers him
\* (holdForDispute, createPayoutHold, markPaidOut).
THEOREM DisputeFreezes == Spec => []DisputeFreezesPayout
  <1>1. MoneyOK => DisputeFreezesPayout
    BY DEF MoneyOK
  <1> QED  BY <1>1, MoneyCorrect, PTL

-----------------------------------------------------------------------------
(* The seller's payout *)

\* Only a cancelled order has a cancelled payout; an order is disputed from
\* the time its dispute is opened until it is received, cancelled or resolved.
SoldOK ==
    /\ SoldOrderHasPayout
    /\ \A p \in Payments : payout[p] = "CANCELLED" => order[OrderOf[p]] = "CANCELLED"
    /\ \A o \in Orders :
          /\ order[o] = "DISPUTED" => dispute[o].prev # "NONE"
          /\ dispute[o].prev # "NONE" => order[o] \in {"DISPUTED", "COMPLETED", "CANCELLED"}

\* A step that leaves disputes alone, undoes no payout and sells nothing.
LEMMA SoldKept ==
    ASSUME ConstantsAssumption, TypeOK, SoldOK, UNCHANGED dispute,
           \A p \in Payments : \/ payout'[p] = payout[p]
                               \/ payout'[p] \notin {"NONE", "CANCELLED"},
           \A q \in Orders : \/ order'[q] = order[q]
                             \/ order[q] \in Sold \ {"COMPLETED"} /\ order'[q] \in Sold
                             \/ order[q] \in Sold \cup {"DISPUTED"} /\ order'[q] = "COMPLETED"
                             \/ order[q] = "NONE" /\ order'[q] = "PENDING_PAYMENT"
    PROVE  SoldOK'
  <1> USE DEF SoldOK, SoldOrderHasPayout
  <1>1. \A q \in Orders : (Standing(q) \in Sold)' /\ order'[q] # "CANCELLED"
                             => Standing(q) \in Sold /\ order[q] # "CANCELLED"
    BY DEF Standing, Sold
  <1>2. SoldOrderHasPayout'
    <2> SUFFICES ASSUME NEW q \in Orders, Standing(q) \in Sold, order[q] # "CANCELLED"
                 PROVE  \E p \in GoodsOf(q) : payout'[p] \notin {"NONE", "CANCELLED"}
      BY <1>1 DEF GoodsOf
    <2> PICK p \in GoodsOf(q) : payout[p] \notin {"NONE", "CANCELLED"}
      OBVIOUS
    <2> QED  BY DEF GoodsOf
  <1>3. \A p \in Payments : payout'[p] = "CANCELLED" => order'[OrderOf[p]] = "CANCELLED"
    BY DEF Sold, ConstantsAssumption
  <1>4. \A q \in Orders :
           /\ order'[q] = "DISPUTED" => dispute'[q].prev # "NONE"
           /\ dispute'[q].prev # "NONE" => order'[q] \in {"DISPUTED", "COMPLETED", "CANCELLED"}
    BY DEF Sold
  <1> QED  BY <1>2, <1>3, <1>4

\* Cancelling an order takes its payouts and nobody else's.
LEMMA SoldCancelled ==
    ASSUME ConstantsAssumption, TypeOK, SoldOK, NEW o \in Orders, NEW role,
           cancelOrderInTransaction(o, role),
           dispute' \in {dispute, [dispute EXCEPT ![o] = NoDispute]}
    PROVE  SoldOK'
  <1> USE DEF SoldOK, SoldOrderHasPayout
  <1>1. /\ order' = [order EXCEPT ![o] = "CANCELLED"]
        /\ \A p \in Payments :
              /\ OrderOf[p] # o => payout'[p] = payout[p]
              /\ payout'[p] = "CANCELLED" => payout[p] = "CANCELLED" \/ OrderOf[p] = o
    BY DEF cancelOrderInTransaction, unwindMoney, TypeOK
  <1>2. \A q \in Orders : /\ q # o => order'[q] = order[q] /\ dispute'[q] = dispute[q]
                          /\ order'[o] = "CANCELLED"
    BY <1>1 DEF TypeOK
  <1>3. SoldOrderHasPayout'
    <2> SUFFICES ASSUME NEW q \in Orders, (Standing(q) \in Sold)', order'[q] # "CANCELLED"
                 PROVE  \E p \in GoodsOf(q) : payout'[p] \notin {"NONE", "CANCELLED"}
      BY DEF GoodsOf
    <2>1. q # o /\ Standing(q) \in Sold /\ order[q] # "CANCELLED"
      BY <1>2 DEF Standing
    <2> PICK p \in GoodsOf(q) : payout[p] \notin {"NONE", "CANCELLED"}
      BY <2>1
    <2> QED  BY <1>1, <2>1 DEF GoodsOf
  <1>4. \A p \in Payments : payout'[p] = "CANCELLED" => order'[OrderOf[p]] = "CANCELLED"
    BY <1>1, <1>2 DEF ConstantsAssumption
  <1>5. \A q \in Orders :
           /\ order'[q] = "DISPUTED" => dispute'[q].prev # "NONE"
           /\ dispute'[q].prev # "NONE" => order'[q] \in {"DISPUTED", "COMPLETED", "CANCELLED"}
    BY <1>2
  <1> QED  BY <1>3, <1>4, <1>5

\* A dispute freezes payouts and remembers what the order was; no payout goes.
LEMMA SoldDisputed ==
    ASSUME ConstantsAssumption, TypeOK, SoldOK, NEW o \in Orders, NEW seller \in BOOLEAN,
           RaiseDispute(o, seller)
    PROVE  SoldOK'
  <1> USE DEF SoldOK, SoldOrderHasPayout
  <1>1. /\ order' = [order EXCEPT ![o] = "DISPUTED"]
        /\ order[o] \in {"PENDING_PAYMENT", "CONFIRMED", "TRANSPORT_ARRANGED",
                         "IN_TRANSIT", "DELIVERED"}
        /\ dispute' = [dispute EXCEPT ![o] = [prev |-> order[o], seller |-> seller]]
        /\ \A p \in Payments : \/ payout'[p] = payout[p]
                               \/ payout'[p] = "ON_HOLD_DISPUTE" /\ payout[p] \in Freezable
    BY Disputable DEF RaiseDispute, TypeOK
  <1>2. \A q \in Orders : /\ Standing(q)' = Standing(q)
                          /\ order'[q] = "CANCELLED" <=> order[q] = "CANCELLED"
    BY <1>1 DEF Standing, TypeOK
  <1>3. SoldOrderHasPayout'
    <2> SUFFICES ASSUME NEW q \in Orders, Standing(q) \in Sold, order[q] # "CANCELLED"
                 PROVE  \E p \in GoodsOf(q) : payout'[p] \notin {"NONE", "CANCELLED"}
      BY <1>2 DEF GoodsOf, Sold
    <2> PICK p \in GoodsOf(q) : payout[p] \notin {"NONE", "CANCELLED"}
      OBVIOUS
    <2> QED  BY <1>1 DEF GoodsOf, Freezable
  <1>4. \A p \in Payments : payout'[p] = "CANCELLED" => order'[OrderOf[p]] = "CANCELLED"
    BY <1>1, <1>2 DEF ConstantsAssumption
  <1>5. \A q \in Orders :
           /\ order'[q] = "DISPUTED" => dispute'[q].prev # "NONE"
           /\ dispute'[q].prev # "NONE" => order'[q] \in {"DISPUTED", "COMPLETED", "CANCELLED"}
    BY <1>1 DEF TypeOK
  <1> QED  BY <1>3, <1>4, <1>5

\* The order goes back to what it was, or is confirmed by a payment whose
\* payout the replay creates.
LEMMA SoldResolved ==
    ASSUME ConstantsAssumption, TypeOK, SoldOK, MoneyOK, NEW o \in Orders,
           NEW cancelService \in BOOLEAN, ResolveDispute(o, cancelService)
    PROVE  SoldOK'
  <1> USE DEF SoldOK, SoldOrderHasPayout
  <1>1. /\ order[o] = "DISPUTED"
        /\ dispute[o].prev # "NONE"
        /\ dispute' = [dispute EXCEPT ![o] = NoDispute]
        /\ payout' = [p \in Payments |->
              IF p \in resumed(o) \cup replayed(o) THEN "HELD" ELSE payout[p]]
        /\ \/ goodsPaid(o) /\ order' = [order EXCEPT ![o] = "CONFIRMED"]
           \/ order' = [order EXCEPT ![o] = dispute[o].prev]
    BY DEF ResolveDispute, replayDisputedPaidPayments
  <1>2. \A p \in Payments : payout'[p] = payout[p] \/ payout'[p] = "HELD"
    BY <1>1
  <1>3. order'[o] \in {"PENDING_PAYMENT", "CONFIRMED", "TRANSPORT_ARRANGED",
                       "IN_TRANSIT", "DELIVERED"}
    BY <1>1, Disputable DEF MoneyOK, DisputeOK, TypeOK
  <1>4. \A q \in Orders \ {o} : order'[q] = order[q] /\ dispute'[q] = dispute[q]
    BY <1>1 DEF TypeOK
  <1>5. dispute'[o].prev = "NONE"
    BY <1>1 DEF TypeOK, NoDispute
  <1>6. SoldOrderHasPayout'
    <2> SUFFICES ASSUME NEW q \in Orders, (Standing(q) \in Sold)', order'[q] # "CANCELLED"
                 PROVE  \E p \in GoodsOf(q) : payout'[p] \notin {"NONE", "CANCELLED"}
      BY DEF GoodsOf
    <2>1. CASE Standing(q) \in Sold /\ order[q] # "CANCELLED"
      <3> PICK p \in GoodsOf(q) : payout[p] \notin {"NONE", "CANCELLED"}
        BY <2>1
      <3> QED  BY <1>2 DEF GoodsOf
    <2>2. CASE ~(Standing(q) \in Sold /\ order[q] # "CANCELLED")
      <3>1. q = o
        BY <1>4, <2>2 DEF Standing
      <3>2. goodsPaid(o)
        BY <1>1, <1>5, <2>2, <3>1 DEF Standing, TypeOK
      <3> PICK p \in GoodsOf(o) : pay[p] = "PAID"
        BY <3>2 DEF goodsPaid
      <3>3. payout[p] # "CANCELLED"
        BY <1>1 DEF GoodsOf
      <3>4. payout'[p] \notin {"NONE", "CANCELLED"}
        BY <1>1, <3>3 DEF GoodsOf, replayed
      <3> QED  BY <3>1, <3>4 DEF GoodsOf
    <2> QED  BY <2>1, <2>2
  <1>7. \A p \in Payments : payout'[p] = "CANCELLED" => order'[OrderOf[p]] = "CANCELLED"
    BY <1>1, <1>2, <1>4 DEF ConstantsAssumption
  <1>8. \A q \in Orders :
           /\ order'[q] = "DISPUTED" => dispute'[q].prev # "NONE"
           /\ dispute'[q].prev # "NONE" => order'[q] \in {"DISPUTED", "COMPLETED", "CANCELLED"}
    BY <1>3, <1>4, <1>5
  <1> QED  BY <1>6, <1>7, <1>8

\* Every step of an order keeps the payout of sold goods.
LEMMA OrderSold ==
    ASSUME ConstantsAssumption, TypeOK, MoneyOK, SoldOK, NEW o \in Orders, OrderStep(o)
    PROVE  SoldOK'
  <1>1. CASE \/ CancelOrder(o) \/ expireUnpaidOrder(o) \/ ResolveCancelOrder(o)
    BY <1>1, SoldCancelled DEF CancelOrder, expireUnpaidOrder, ResolveCancelOrder
  <1>2. CASE \E seller \in BOOLEAN : RaiseDispute(o, seller)
    BY <1>2, SoldDisputed
  <1>3. CASE \E cancelService \in BOOLEAN : ResolveDispute(o, cancelService)
    BY <1>3, SoldResolved
  <1>4. CASE UNCHANGED <<order, dispute, payout>>
    BY <1>4, SoldKept
  <1>5. CASE /\ UNCHANGED <<dispute, payout>>
             /\ \/ order[o] = "NONE" /\ order' = [order EXCEPT ![o] = "PENDING_PAYMENT"]
                \/ /\ order[o] \in {"CONFIRMED", "TRANSPORT_ARRANGED", "IN_TRANSIT"}
                   /\ order' \in {[order EXCEPT ![o] = s] :
                                     s \in {"TRANSPORT_ARRANGED", "IN_TRANSIT", "DELIVERED"}}
                \/ /\ order[o] \in Sold \cup {"DISPUTED"}
                   /\ order' = [order EXCEPT ![o] = "COMPLETED"]
    <2>1. \A q \in Orders : \/ order'[q] = order[q]
                            \/ order[q] \in Sold \ {"COMPLETED"} /\ order'[q] \in Sold
                            \/ order[q] \in Sold \cup {"DISPUTED"} /\ order'[q] = "COMPLETED"
                            \/ order[q] = "NONE" /\ order'[q] = "PENDING_PAYMENT"
      BY <1>5 DEF TypeOK, Sold
    <2> QED  BY <1>5, <2>1, SoldKept
  <1>6. CASE acceptOfferAndCreateOrder(o) \/ ArrangeTransport(o) \/ Depart(o) \/ Deliver(o)
    BY <1>4, <1>5, <1>6 DEF acceptOfferAndCreateOrder, ArrangeTransport, Depart, Deliver
  <1>7. CASE ConfirmReceipt(o)
    <2>1. receiptAllowed(o) => order[o] \in Sold \cup {"DISPUTED"}
      <3>1. order[o] \in OrderStatus \cup {"NONE"}
        BY DEF TypeOK
      <3>2. \A s \in OrderStatus \ {"COMPLETED"} :
               canTransitionOrder(s, "COMPLETED") => s \in {"DELIVERED", "DISPUTED"}
        BY DEF OrderStatus, canTransitionOrder, ORDER_TRANSITIONS
      <3> QED  BY <3>1, <3>2 DEF receiptAllowed, Sold
    <2> QED  BY <1>4, <1>5, <1>7, <2>1 DEF ConfirmReceipt
  <1>8. CASE \/ \E admin \in BOOLEAN : Pickup(o, admin)
             \/ \E role \in Roles : AskCancel(o, role)
             \/ AskReceipt(o) \/ CancelRefused(o) \/ CancelTransport(o)
    BY <1>4, <1>8 DEF CancelTransport, Pickup, AskCancel, AskReceipt, CancelRefused
  <1> QED  BY <1>1, <1>2, <1>3, <1>6, <1>7, <1>8 DEF OrderStep

\* A settlement sells an order only together with its payout.
LEMMA SoldConfirmed ==
    ASSUME ConstantsAssumption, TypeOK, RequestsOK, SoldOK, NEW n \in Notices,
           SettleConfirm(n)
    PROVE  SoldOK'
  <1> USE DEF SoldOK, SoldOrderHasPayout
  <1> DEFINE p == notice[n].pay
             o == OrderOf[p]
  <1>1. /\ p \in Payments /\ o \in Orders
        /\ order[o] = "PENDING_PAYMENT"
        /\ order' = [order EXCEPT ![o] = "CONFIRMED"]
        /\ payout' = IF payout[p] = "NONE" THEN [payout EXCEPT ![p] = "HELD"] ELSE payout
        /\ UNCHANGED dispute
    BY DEF SettleConfirm, createPayoutHold, RequestsOK, ConstantsAssumption
  <1>2. payout'[p] \notin {"NONE", "CANCELLED"}
    BY <1>1 DEF TypeOK
  <1>3. /\ \A q \in Orders \ {o} : order'[q] = order[q]
        /\ \A r \in Payments \ {p} : payout'[r] = payout[r]
        /\ order'[o] = "CONFIRMED"
    BY <1>1 DEF TypeOK
  <1>4. SoldOrderHasPayout'
    <2> SUFFICES ASSUME NEW q \in Orders, (Standing(q) \in Sold)', order'[q] # "CANCELLED"
                 PROVE  \E r \in GoodsOf(q) : payout'[r] \notin {"NONE", "CANCELLED"}
      BY DEF GoodsOf
    <2>1. CASE q = o
      BY <1>1, <1>2, <2>1 DEF GoodsOf
    <2>2. CASE q # o
      <3>1. Standing(q) \in Sold /\ order[q] # "CANCELLED"
        BY <1>1, <1>3, <2>2 DEF Standing
      <3> PICK r \in GoodsOf(q) : payout[r] \notin {"NONE", "CANCELLED"}
        BY <3>1
      <3> QED  BY <1>2, <1>3 DEF GoodsOf
    <2> QED  BY <2>1, <2>2
  <1>5. \A r \in Payments : payout'[r] = "CANCELLED" => order'[OrderOf[r]] = "CANCELLED"
    BY <1>1, <1>2, <1>3 DEF ConstantsAssumption
  <1>6. \A q \in Orders :
           /\ order'[q] = "DISPUTED" => dispute'[q].prev # "NONE"
           /\ dispute'[q].prev # "NONE" => order'[q] \in {"DISPUTED", "COMPLETED", "CANCELLED"}
    BY <1>1, <1>3
  <1> QED  BY <1>4, <1>5, <1>6

\* Every step of the system keeps the payout of sold goods.
LEMMA StepSold ==
    ASSUME ConstantsAssumption, TypeOK, RequestsOK, MoneyOK, SoldOK, [Next]_vars
    PROVE  SoldOK'
  <1>1. CASE UNCHANGED <<order, dispute, payout>>
    BY <1>1, SoldKept
  <1>2. ASSUME NEW p \in Payments, PaymentStep(p) PROVE SoldOK'
    <2>1. CASE releaseDuePayout(p) \/ markPaidOut(p)
      <3>1. /\ UNCHANGED <<order, dispute>>
            /\ \A r \in Payments : \/ payout'[r] = payout[r]
                                   \/ payout'[r] \notin {"NONE", "CANCELLED"}
        BY <2>1 DEF releaseDuePayout, markPaidOut, orderVars, TypeOK
      <3> QED  BY <3>1, SoldKept
    <2> QED  BY <1>1, <1>2, <2>1
             DEF PaymentStep, createPayment, initializeChapa, initializeFails, CheckoutOpens,
             ProviderDecides, processRefund, finalizeRefund, failRefund, retryRefund,
             otherVars, orderVars
  <1>3. ASSUME NEW n \in Notices, SettleStep(n) \/ SettleDies(n) PROVE SoldOK'
    BY <1>1, <1>3, SoldConfirmed
       DEF SettleStep, SettleDies, SettleRead, SettleReadMismatch, SettleMismatch,
       SettleUnpaid, SettleLock, SettleCommit, SettleNoStock, SettleShort, SettleConflict,
       otherVars, orderVars
  <1>4. CASE \/ expireListing \/ UNCHANGED vars
             \/ \E n \in Notices, p \in Payments : Arrives(n, p)
    BY <1>1, <1>4 DEF expireListing, vars, orderVars, Arrives, ChapaNotice, AdminConfirm,
       GenericNotice, begin, otherVars
  <1> QED  BY <1>2, <1>3, <1>4, OrderSold DEF Next

\* The seller of sold goods always has a payout that can still reach him,
\* whatever disputes, replays, repeated notices and rolled back settlements
\* did to his order (settlePaymentCore, replayDisputedPaidPayment,
\* createPayoutHold).
THEOREM SoldHasPayout == Spec => []SoldOrderHasPayout
  <1>1. ConstantsAssumption /\ Init => SoldOK
    BY DEF Init, ConstantsAssumption, SoldOK, SoldOrderHasPayout, Standing, Sold, NoDispute
  <1>2. SoldOK => SoldOrderHasPayout
    BY DEF SoldOK
  <1> QED  BY <1>1, <1>2, ConstantsAssumption, TypeCorrect, MoneyCorrect, StepSold, PTL
              DEF Spec

-----------------------------------------------------------------------------
(* Stock *)

\* A step that changes what one order holds loses nothing when the listing
\* gets as much as the order gives, or is full again.
LEMMA StockMoves ==
    ASSUME ConstantsAssumption, IsFiniteSet(Orders), StockNeverLost, TypeOK, TypeOK',
           NEW o \in Orders, \A q \in Orders \ {o} : held'[q] = held[q],
           \/ avail' = Quantity
           \/ avail' + held'[o] >= avail + held[o]
    PROVE  StockNeverLost'
  <1>1. /\ DOMAIN held = Orders /\ \A q \in Orders : held[q] \in Nat
        /\ DOMAIN held' = Orders /\ \A q \in Orders : held'[q] \in Nat
    BY DEF held, ConstantsAssumption
  <1> DEFINE before == SumFunctionOnSet(held, Orders)
             after == SumFunctionOnSet(held', Orders)
  <1>2. before \in Nat /\ after \in Nat /\ after = before + held'[o] - held[o]
    <2> \A q \in Orders : held[q] \in Int /\ held'[q] \in Int
      BY <1>1
    <2> HIDE DEF before, after
    <2> QED  BY <1>1, SumNat, SumChange DEF before, after
  <1>3. avail + before >= Quantity
    BY <1>1 DEF StockNeverLost, SumFunction
  <1>4. avail \in Int /\ avail' \in Int /\ Quantity \in Int /\ held[o] \in Int /\ held'[o] \in Int
    BY <1>1 DEF TypeOK, ConstantsAssumption
  <1>5. avail' + after >= Quantity
    <2> HIDE DEF before, after
    <2> QED  BY <1>2, <1>3, <1>4
  <1> QED  BY <1>1, <1>5 DEF StockNeverLost, SumFunction

\* Nothing moves.
LEMMA StockKept ==
    ASSUME StockNeverLost, UNCHANGED avail, \A q \in Orders : Holding(q)' = Holding(q)
    PROVE  StockNeverLost'
  <1>1. held' = held
    BY DEF held
  <1> QED  BY <1>1 DEF StockNeverLost

\* Cancelling an order gives back at least what it held, or fills the listing:
\* an order that was never committed holds nothing.
LEMMA StockCancelled ==
    ASSUME ConstantsAssumption, IsFiniteSet(Orders), TypeOK, TypeOK', SoldOK, StockNeverLost,
           NEW o \in Orders, NEW role, cancelOrderInTransaction(o, role),
           dispute' \in {dispute, [dispute EXCEPT ![o] = NoDispute]}
    PROVE  StockNeverLost'
  <1>1. /\ order' = [order EXCEPT ![o] = "CANCELLED"]
        /\ \/ neverCommitted(o) /\ avail' = avail
           \/ avail' \in {avail + Qty[o], Quantity}
    BY DEF cancelOrderInTransaction, releaseListingQuantity, restored, stockVars
  <1>2. \A q \in Orders \ {o} : held'[q] = held[q]
    BY <1>1 DEF held, Holding, Standing, TypeOK
  <1>3. held'[o] = 0
    BY <1>1 DEF held, Holding, TypeOK
  <1>4. /\ held[o] \in {0, Qty[o]} /\ Qty[o] \in Nat /\ avail \in Nat
        /\ neverCommitted(o) => held[o] = 0
    BY DEF held, Holding, Standing, Sold, SoldOK, neverCommitted, TypeOK, ConstantsAssumption
  <1>5. avail' = Quantity \/ avail' + held'[o] >= avail + held[o]
    BY <1>1, <1>3, <1>4
  <1> QED  BY <1>2, <1>5, StockMoves

\* An order that is confirmed holds what the listing gives it.
LEMMA StockCommitted ==
    ASSUME ConstantsAssumption, IsFiniteSet(Orders), TypeOK, TypeOK', StockNeverLost,
           NEW o \in Orders, commitListingQuantity(o), ~Holding(o),
           order' = [order EXCEPT ![o] = "CONFIRMED"], dispute'[o].prev = "NONE",
           \A q \in Orders \ {o} : dispute'[q] = dispute[q]
    PROVE  StockNeverLost'
  <1>1. \A q \in Orders \ {o} : held'[q] = held[q]
    BY DEF held, Holding, Standing, TypeOK
  <1>2. held[o] = 0 /\ held'[o] = Qty[o]
    BY DEF held, Holding, Standing, Sold, TypeOK
  <1>3. avail' + held'[o] >= avail + held[o]
    BY <1>2 DEF commitListingQuantity, TypeOK, ConstantsAssumption
  <1> QED  BY <1>1, <1>3, StockMoves

\* Every step of an order keeps the goods.
LEMMA OrderStock ==
    ASSUME ConstantsAssumption, IsFiniteSet(Orders), TypeOK, TypeOK', MoneyOK, SoldOK,
           StockNeverLost, NEW o \in Orders, OrderStep(o)
    PROVE  StockNeverLost'
  <1> USE DEF Holding, Standing, Sold, stockVars
  <1>1. CASE CancelOrder(o) \/ expireUnpaidOrder(o) \/ ResolveCancelOrder(o)
    BY <1>1, StockCancelled DEF CancelOrder, expireUnpaidOrder, ResolveCancelOrder
  <1>2. CASE \E seller \in BOOLEAN : RaiseDispute(o, seller)
    <2>1. \A q \in Orders : Holding(q)' = Holding(q)
      BY <1>2, Disputable DEF RaiseDispute, TypeOK, SoldOK
    <2> QED  BY <1>2, <2>1, StockKept DEF RaiseDispute
  <1>3. CASE \E cancelService \in BOOLEAN : ResolveDispute(o, cancelService)
    <2>1. /\ order[o] = "DISPUTED" /\ dispute[o].prev \in DISPUTABLE_STATUSES
          /\ dispute'[o].prev = "NONE"
          /\ \A q \in Orders \ {o} : dispute'[q] = dispute[q]
      BY <1>3 DEF ResolveDispute, NoDispute, TypeOK, MoneyOK, DisputeOK
    <2>2. \/ /\ dispute[o].prev = "PENDING_PAYMENT" /\ commitListingQuantity(o)
             /\ order' = [order EXCEPT ![o] = "CONFIRMED"]
          \/ order' = [order EXCEPT ![o] = dispute[o].prev] /\ UNCHANGED avail
      BY <1>3 DEF ResolveDispute, replayDisputedPaidPayments
    <2>3. CASE order' = [order EXCEPT ![o] = dispute[o].prev] /\ UNCHANGED avail
      <3>1. \A q \in Orders : Holding(q)' = Holding(q)
        BY <2>1, <2>3, Disputable DEF TypeOK
      <3> QED  BY <2>3, <3>1, StockKept
    <2> QED  BY <2>1, <2>2, <2>3, StockCommitted
  <1>4. CASE /\ UNCHANGED <<dispute, avail>>
             /\ \/ UNCHANGED order
                \/ order[o] = "NONE" /\ order' = [order EXCEPT ![o] = "PENDING_PAYMENT"]
                \/ /\ order[o] \in {"CONFIRMED", "TRANSPORT_ARRANGED", "IN_TRANSIT"}
                   /\ \E s \in Sold : order' = [order EXCEPT ![o] = s]
                \/ receiptAllowed(o) /\ order' = [order EXCEPT ![o] = "COMPLETED"]
    <2>1. receiptAllowed(o) => order[o] \in {"DELIVERED", "DISPUTED"}
      <3>1. order[o] \in OrderStatus \cup {"NONE"}
        BY DEF TypeOK
      <3>2. \A s \in OrderStatus \ {"COMPLETED"} :
               canTransitionOrder(s, "COMPLETED") => s \in {"DELIVERED", "DISPUTED"}
        BY DEF OrderStatus, canTransitionOrder, ORDER_TRANSITIONS
      <3> QED  BY <3>1, <3>2 DEF receiptAllowed
    <2>2. \A q \in Orders : Holding(q)' = Holding(q)
      BY <1>4, <2>1 DEF TypeOK, SoldOK
    <2> QED  BY <1>4, <2>2, StockKept
  <1>5. CASE \/ acceptOfferAndCreateOrder(o) \/ ArrangeTransport(o) \/ Depart(o) \/ Deliver(o)
    BY <1>4, <1>5 DEF acceptOfferAndCreateOrder, ArrangeTransport, Depart, Deliver
  <1>6. CASE ConfirmReceipt(o)
    BY <1>4, <1>6 DEF ConfirmReceipt
  <1>7. CASE \/ \E admin \in BOOLEAN : Pickup(o, admin)
             \/ \E role \in Roles : AskCancel(o, role)
             \/ AskReceipt(o) \/ CancelRefused(o) \/ CancelTransport(o)
    BY <1>4, <1>7 DEF CancelTransport, Pickup, AskCancel, AskReceipt, CancelRefused
  <1> QED  BY <1>1, <1>2, <1>3, <1>5, <1>6, <1>7 DEF OrderStep

\* Every step of the system keeps the goods.
LEMMA StepStock ==
    ASSUME ConstantsAssumption, IsFiniteSet(Orders), TypeOK, TypeOK', RequestsOK, MoneyOK,
           SoldOK, StockNeverLost, [Next]_vars
    PROVE  StockNeverLost'
  <1>1. CASE UNCHANGED <<order, dispute, avail>>
    BY <1>1, StockKept DEF Holding, Standing
  <1>2. ASSUME NEW n \in Notices, SettleConfirm(n) PROVE StockNeverLost'
    <2> DEFINE o == OrderOf[notice[n].pay]
    <2>1. /\ o \in Orders /\ order[o] = "PENDING_PAYMENT" /\ UNCHANGED dispute
          /\ commitListingQuantity(o) /\ order' = [order EXCEPT ![o] = "CONFIRMED"]
      BY <1>2 DEF SettleConfirm, RequestsOK, ConstantsAssumption
    <2>2. dispute[o].prev = "NONE" /\ ~Holding(o)
      BY <2>1 DEF SoldOK, Holding, Standing, Sold
    <2> QED  BY <2>1, <2>2, StockCommitted
  <1>3. CASE /\ \/ \E n \in Notices : SettleStep(n) \/ SettleDies(n)
                \/ \E p \in Payments : PaymentStep(p)
                \/ \E n \in Notices, p \in Payments : Arrives(n, p)
                \/ expireListing \/ UNCHANGED vars
             /\ ~\E n \in Notices : SettleConfirm(n)
    BY <1>1, <1>3
       DEF SettleStep, SettleDies, SettleRead, SettleReadMismatch, SettleMismatch, SettleUnpaid,
       SettleLock, SettleCommit, SettleNoStock, SettleShort, SettleConflict, PaymentStep,
       createPayment, initializeChapa, initializeFails, CheckoutOpens, ProviderDecides,
       processRefund, finalizeRefund, failRefund, retryRefund, releaseDuePayout, markPaidOut,
       Arrives, ChapaNotice, AdminConfirm, GenericNotice, begin, expireListing, vars,
       otherVars, orderVars, stockVars
  <1> QED  BY <1>2, <1>3, OrderStock DEF Next

\* Goods are never lost from a listing, however many orders were placed on
\* it, paid, disputed and cancelled: what is not available is held by an
\* order that still stands (commitListingQuantity, releaseListingQuantity).
THEOREM GoodsNeverLost == ASSUME IsFiniteSet(Orders) PROVE Spec => []StockNeverLost
  <1>1. ConstantsAssumption /\ Init => SoldOK
    BY DEF Init, ConstantsAssumption, SoldOK, SoldOrderHasPayout, Standing, Sold, NoDispute
  <1>2. ASSUME ConstantsAssumption, Init PROVE StockNeverLost
    <2>1. DOMAIN held = Orders /\ \A o \in Orders : held[o] \in Nat
      BY <1>2 DEF held, ConstantsAssumption
    <2>2. SumFunctionOnSet(held, Orders) \in Nat
      BY <2>1, SumNat
    <2> QED  BY <1>2, <2>1, <2>2 DEF StockNeverLost, SumFunction, Init, ConstantsAssumption
  <1>3. TypeOK /\ TypeOK' /\ RequestsOK /\ MoneyOK /\ SoldOK /\ StockNeverLost /\ [Next]_vars
            => StockNeverLost'
    BY ConstantsAssumption, StepStock
  <1> QED  BY <1>1, <1>2, <1>3, ConstantsAssumption, TypeCorrect, MoneyCorrect, StepSold, PTL
              DEF Spec

-----------------------------------------------------------------------------
(* Refunds *)

\* Only a requested refund makes a payment REFUND_PENDING or REFUNDED
\* (requestRefund, retryRefund, finalizeRefund).
LEMMA StepRefunded ==
    ASSUME ConstantsAssumption, TypeOK, RequestsOK, RefundedOK, [Next]_vars
    PROVE  RefundedOK'
  <1> SUFFICES ASSUME "REFUNDED" \notin Generic, NEW p \in Payments,
                      pay'[p] \in {"REFUND_PENDING", "REFUNDED"}
               PROVE  refund'[p] # "NONE"
    BY DEF RefundedOK
  <1>1. CASE UNCHANGED <<pay, refund>>
    BY <1>1 DEF RefundedOK
  <1>2. ASSUME NEW o, unwindMoney(o) PROVE refund'[p] # "NONE"
    BY <1>2 DEF unwindMoney, RefundedOK
  <1>3. ASSUME NEW o \in Orders, OrderStep(o) PROVE refund'[p] # "NONE"
    <2>1. CASE \E role : cancelOrderInTransaction(o, role)
      BY <2>1, <1>2 DEF cancelOrderInTransaction
    <2> QED  BY <2>1, <1>1, <1>3
                DEF OrderStep, acceptOfferAndCreateOrder, ArrangeTransport,
                CancelTransport, Pickup, Depart, Deliver, AskReceipt, ConfirmReceipt, AskCancel, CancelOrder,
                CancelRefused, expireUnpaidOrder, RaiseDispute, ResolveDispute,
                ResolveCancelOrder, moneyVars
  <1>4. ASSUME NEW q \in Payments, PaymentStep(q) PROVE refund'[p] # "NONE"
    <2> USE DEF TypeOK, RefundedOK, otherVars, moneyVars
    <2>1. CASE createPayment(q)
      BY <2>1 DEF createPayment
    <2>2. CASE initializeChapa(q) \/ initializeFails(q)
      BY <2>2 DEF initializeChapa, initializeFails
    <2>3. CASE finalizeRefund(q) \/ failRefund(q) \/ retryRefund(q)
      BY <2>3 DEF finalizeRefund, failRefund, retryRefund
    <2>4. CASE processRefund(q)
      BY <2>4 DEF processRefund
    <2> QED  BY <2>1, <2>2, <2>3, <2>4, <1>1, <1>4 DEF PaymentStep, CheckoutOpens,
                ProviderDecides, releaseDuePayout, markPaidOut
  <1>5. ASSUME NEW n \in Notices, SettleStep(n) \/ SettleDies(n) PROVE refund'[p] # "NONE"
    <2> USE DEF TypeOK, RefundedOK, otherVars, moneyVars
    <2>1. CASE SettleUnpaid(n)
      <3>1. notice[n].rep # "REFUNDED" /\ notice[n].rep # "REFUND_PENDING"
        BY DEF RequestsOK, Reports
      <3> QED  BY <2>1, <3>1 DEF SettleUnpaid
    <2>2. CASE SettleMismatch(n) \/ SettleShort(n)
      BY <2>2 DEF SettleMismatch, SettleShort
    <2>3. CASE SettleCommit(n) \/ SettleConfirm(n)
      BY <2>3 DEF SettleCommit, SettleConfirm
    <2> QED  BY <2>1, <2>2, <2>3, <1>1, <1>5 DEF SettleStep, SettleDies, SettleRead,
                SettleReadMismatch, SettleLock, SettleNoStock, SettleConflict
  <1> QED  BY <1>1, <1>3, <1>4, <1>5 DEF Next, vars, moneyVars, expireListing, Arrives,
              ChapaNotice, AdminConfirm, GenericNotice, begin, otherVars

\* The buyer and the seller are never both paid with the same money, when no
\* generic webhook reports refunds: once a refund was requested, or the
\* payment says so, the payout can no longer reach the seller
\* (cancelPayoutsForOrder, requestRefund, finalizeRefund).
THEOREM NoMoneyTwice == ASSUME "REFUNDED" \notin Generic
                        PROVE  Spec => []NeverPaidTwice
  <1>1. Init => RefundedOK
    BY DEF Init, RefundedOK
  <1>2. MoneyOK /\ RefundedOK => NeverPaidTwice
    BY DEF MoneyOK, CancelledOK, RefundedOK, NeverPaidTwice
  <1> QED  BY <1>1, <1>2, ConstantsAssumption, TypeCorrect, MoneyCorrect, StepRefunded, PTL
              DEF Spec

-----------------------------------------------------------------------------
(* Refinement *)

\* A payment is refunded only from an order whose payouts are cancelled, so
\* its money leaves escrow on the buyer's road or on the seller's, never both.
LEMMA CustodyStep ==
    ASSUME ConstantsAssumption, TypeOK, RequestsOK, MoneyOK, [Next]_vars
    PROVE  [Custody!Next]_custody
  <1> USE DEF custody
  <1>1. CASE UNCHANGED <<refund, payout>>
    BY <1>1
  <1>2. ASSUME NEW o \in Orders, unwindMoney(o), Live(o) PROVE [Custody!Next]_custody
    <2> DEFINE S == {p \in GoodsOf(o) : pay[p] = "PAID"}
    <2>1. \A p \in GoodsOf(o) : refund[p] = "NONE" /\ payout[p] \notin {"RELEASED", "PAID_OUT"}
      BY <1>2
         DEF MoneyOK, CancelledOK, PayoutAfterReceipt, Live, NON_CANCELLABLE_STATUSES,
         GoodsOf
    <2>2. \A p \in S : custody[p] = "ESCROW"
      BY <2>1 DEF custody, GoodsOf
    <2>3. custody' = [p \in Payments |-> IF p \in S THEN "RETURNING" ELSE custody[p]]
      BY <1>2, <2>1 DEF unwindMoney, custody, GoodsOf, CancellablePayouts
    <2>4. S \in SUBSET Payments
      BY DEF GoodsOf
    <2> QED  BY <2>2, <2>3, <2>4 DEF Custody!Next, Custody!Return
  <1>3. ASSUME NEW o \in Orders, OrderStep(o) PROVE [Custody!Next]_custody
    <2>1. CASE \E role : cancelOrderInTransaction(o, role)
      BY <2>1, <1>2 DEF cancelOrderInTransaction
    <2>2. CASE \E seller \in BOOLEAN : RaiseDispute(o, seller)
      <3>1. \A p \in GoodsOf(o) : payout[p] \notin {"RELEASED", "PAID_OUT"}
        BY <2>2, Disputable DEF RaiseDispute, MoneyOK, PayoutAfterReceipt, GoodsOf
      <3>2. custody' = custody
        BY <2>2, <3>1 DEF RaiseDispute, Freezable, GoodsOf
      <3> QED  BY <3>2
    <2>3. CASE \E cancelService \in BOOLEAN : ResolveDispute(o, cancelService)
      <3>1. custody' = custody
        BY <2>3
           DEF ResolveDispute, replayDisputedPaidPayments, resumed, replayed, GoodsOf
      <3> QED  BY <3>1
    <2> QED  BY <2>1, <2>2, <2>3, <1>1, <1>3 DEF OrderStep, acceptOfferAndCreateOrder,
                ArrangeTransport, CancelTransport, Pickup, Depart, Deliver, AskReceipt,
                ConfirmReceipt, AskCancel, CancelOrder, CancelRefused, expireUnpaidOrder, ResolveCancelOrder
  <1>4. ASSUME NEW p \in Payments, PaymentStep(p) PROVE [Custody!Next]_custody
    <2> USE DEF TypeOK
    <2>1. CASE processRefund(p) \/ failRefund(p) \/ retryRefund(p)
      <3>1. custody' = custody
        BY <2>1 DEF processRefund, failRefund, retryRefund
      <3> QED  BY <3>1
    <2>2. CASE finalizeRefund(p)
      <3>1. custody[p] = "RETURNING" /\ custody' = [custody EXCEPT ![p] = "BUYER"]
        BY <2>2 DEF finalizeRefund
      <3> QED  BY <3>1 DEF Custody!Next, Custody!Returned, Custody!Move
    <2>3. CASE releaseDuePayout(p)
      <3>1. refund[p] = "NONE"
        BY <2>3 DEF releaseDuePayout, MoneyOK, CancelledOK
      <3>2. custody[p] = "ESCROW" /\ custody' = [custody EXCEPT ![p] = "SELLER_DUE"]
        BY <2>3, <3>1 DEF releaseDuePayout
      <3> QED  BY <3>2 DEF Custody!Next, Custody!Release, Custody!Move
    <2>4. CASE markPaidOut(p)
      <3>1. refund[p] = "NONE"
        BY <2>4 DEF markPaidOut, MoneyOK, CancelledOK
      <3>2. custody[p] = "SELLER_DUE" /\ custody' = [custody EXCEPT ![p] = "SELLER"]
        BY <2>4, <3>1 DEF markPaidOut
      <3> QED  BY <3>2 DEF Custody!Next, Custody!PayOut, Custody!Move
    <2> QED  BY <2>1, <2>2, <2>3, <2>4, <1>1, <1>4
                DEF PaymentStep, otherVars, createPayment,
                initializeChapa, initializeFails, CheckoutOpens, ProviderDecides
  <1>5. ASSUME NEW n \in Notices, SettleStep(n) \/ SettleDies(n) PROVE [Custody!Next]_custody
    <2>1. CASE SettleConfirm(n)
      <3>1. custody' = custody
        BY <2>1 DEF SettleConfirm, createPayoutHold, TypeOK
      <3> QED  BY <3>1
    <2> QED  BY <2>1, <1>1, <1>5 DEF SettleStep, SettleDies, otherVars, SettleRead,
                SettleReadMismatch, SettleMismatch, SettleUnpaid, SettleLock, SettleCommit,
                SettleNoStock, SettleShort, SettleConflict
  <1> QED  BY <1>1, <1>3, <1>4, <1>5
              DEF Next, vars, expireListing, Arrives, ChapaNotice,
              AdminConfirm, GenericNotice, begin, otherVars

\* Settlements, disputes, cancellations, refunds and payouts together
\* implement the escrow of module Custody.
THEOREM EscrowImplementsCustody == Spec => CustodySpec
  <1>1. Init => Custody!Init
    BY DEF Init, Custody!Init, custody
  <1> QED  BY <1>1, ConstantsAssumption, TypeCorrect, MoneyCorrect, CustodyStep, PTL
              DEF Spec, CustodySpec, Custody!Spec
=============================================================================
