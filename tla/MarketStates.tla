---------------------------- MODULE MarketStates ----------------------------
(***************************************************************************)
(* The two status machines every workflow of the backend goes through:     *)
(* the order lifecycle (services/orderStateMachine.js) and the payment     *)
(* lifecycle (services/paymentStateMachine.js).                            *)
(***************************************************************************)
EXTENDS Naturals

OrderStatus ==
    {"PENDING_PAYMENT", "CONFIRMED", "TRANSPORT_ARRANGED", "IN_TRANSIT",
     "DELIVERED", "COMPLETED", "DISPUTED", "CANCELLED"}

\* The statuses an order may move to from each status.
ORDER_TRANSITIONS ==
    [PENDING_PAYMENT    |-> {"CONFIRMED", "CANCELLED", "DISPUTED"},
     CONFIRMED          |-> {"TRANSPORT_ARRANGED", "CANCELLED", "DISPUTED"},
     TRANSPORT_ARRANGED |-> {"IN_TRANSIT", "DELIVERED", "CANCELLED", "DISPUTED"},
     IN_TRANSIT         |-> {"DELIVERED", "DISPUTED"},
     DELIVERED          |-> {"COMPLETED", "DISPUTED"},
     COMPLETED          |-> {},
     DISPUTED           |-> OrderStatus \ {"DISPUTED"},
     CANCELLED          |-> {}]

canTransitionOrder(from, to) == from = to \/ to \in ORDER_TRANSITIONS[from]

\* Every status that can move into DISPUTED, derived from the table.
DISPUTABLE_STATUSES == {s \in OrderStatus : "DISPUTED" \in ORDER_TRANSITIONS[s]}

PaymentStatus ==
    {"PENDING", "PROCESSING", "PAID", "RECONCILIATION_REQUIRED",
     "REFUND_PENDING", "FAILED", "REFUNDED"}

\* The statuses a payment may move to from each status.
TRANSITIONS ==
    [PENDING                 |-> {"PROCESSING", "FAILED", "RECONCILIATION_REQUIRED"},
     PROCESSING              |-> {"PAID", "FAILED", "RECONCILIATION_REQUIRED"},
     PAID                    |-> {"REFUND_PENDING", "RECONCILIATION_REQUIRED"},
     RECONCILIATION_REQUIRED |-> {"PROCESSING", "PAID", "FAILED"},
     REFUND_PENDING          |-> {"REFUNDED", "PAID", "RECONCILIATION_REQUIRED"},
     FAILED                  |-> {},
     REFUNDED                |-> {}]

canTransition(from, to) == from = to \/ to \in TRANSITIONS[from]
=============================================================================
