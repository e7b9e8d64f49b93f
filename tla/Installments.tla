---------------------------- MODULE Installments ----------------------------
(***************************************************************************)
(* A goods payment above the provider's limit: the parent payment of the   *)
(* full price, never sent to the provider, and one child payment per       *)
(* installment, each with a checkout of its own.  Whoever sees the last    *)
(* child paid settles the parent; cancelling the order refunds each child, *)
(* and the refund of the last one closes the parent.                       *)
(*                                                                         *)
(* Requests (webhooks, page loads, retries) are processes: what they read  *)
(* before their transaction, or before its first lock, may be old when     *)
(* they write.  A refund's completion reads its siblings and commits later.*)
(***************************************************************************)
EXTENDS MarketStates, FiniteSets, Functions

CONSTANTS
    Price,         \* the order's final price, in cents
    Limit,         \* the most the provider takes in one checkout, in cents
    Rows,          \* bound on the child payments ever created
    Requests,      \* requests that may be in flight together
    Confirmable,   \* the payments an admin confirms as paid offline
    MaxDisputes    \* bound on the disputes raised

\* An amount is split, in cents, into the fewest parts within the limit; the
\* first parts carry the spare cents.
countOf(total, max) == (total + max - 1) \div max

splitIntoWithoutCents(total, count) == [i \in 1 .. count |-> total \div count]
splitInto(total, count) ==
    [i \in 1 .. count |->
        (total \div count) + (IF i <= total % count THEN 1 ELSE 0)]

\* installmentCount, fixed when the plan is created.
N == countOf(Price, Limit)

Parent == 0
Children == 1 .. Rows
Payments == 0 .. Rows

ASSUME InstallmentsAssumption ==
    /\ Price \in Nat \ {0}
    /\ Limit \in Nat \ {0}
    /\ Rows \in Nat
    /\ N <= Rows
    /\ Confirmable \subseteq Payments
    /\ MaxDisputes \in Nat

VARIABLES
    order,      \* order.status
    prev,       \* the status an open dispute goes back to
    disputes,   \* disputes raised so far
    inStock,    \* the listing still has the order's goods
    payout,     \* status of the seller's payout
    planning,   \* a request is about to create the children
    pay,        \* payment.status, "NONE" before the row exists
    provider,   \* who settled the parent
    sequence,   \* installmentSequence of a child, 0 for NULL
    amount,     \* what a child asks for, 0 before the row exists
    checkout,   \* what the provider knows of a child
    paidEvents, \* payments with a PAYMENT_STATUS_CHANGED event to PAID
    flagged,    \* payments with a reconciliation issue
    events,     \* provider events whose id does not hold the time
    refund,     \* status of a child's newest refund row
    closing,    \* completion of a child's refund: not running, or what it read
    request     \* requests: point reached, payment, report, provider

orderVars == <<order, prev, disputes, inStock, payout>>
rowVars == <<planning, pay, provider, sequence, amount, checkout, paidEvents, flagged>>
refundVars == <<refund, closing>>
vars == <<orderVars, rowVars, refundVars, events, request>>

Statuses == {"PENDING_PAYMENT", "CONFIRMED", "DISPUTED", "CANCELLED"}
RefundStatus == {"NONE", "REQUESTED", "PROCESSING", "COMPLETED", "FAILED"}
By == {"CHAPA", "admin", "INSTALLMENTS"}
Settling == {"read", "readDisputed"}
Idle == [at |-> "idle", pay |-> Parent, rep |-> "PAID", by |-> "CHAPA"]

TypeOK ==
    /\ order \in Statuses /\ prev \in Statuses \cup {"NONE"}
    /\ disputes \in 0 .. MaxDisputes
    /\ inStock \in BOOLEAN /\ planning \in BOOLEAN
    /\ payout \in {"NONE", "HELD", "ON_HOLD_DISPUTE", "CANCELLED"}
    /\ pay \in [Payments -> PaymentStatus \cup {"NONE"}]
    /\ provider \in By \cup {"NONE"}
    /\ sequence \in [Children -> 0 .. N]
    /\ amount \in [Children -> Nat]
    /\ checkout \in [Children -> {"none", "open", "PAID", "FAILED"}]
    /\ paidEvents \subseteq Payments /\ flagged \subseteq Payments
    /\ events \subseteq Payments \X By
    /\ refund \in [Children -> RefundStatus]
    /\ closing \in [Children -> {"no", "open", "last"}]
    /\ request \in [Requests -> [at : {"idle", "begin", "count", "retry"} \cup Settling,
                                 pay : Payments, rep : {"PAID", "FAILED"}, by : By]]

Init ==
    /\ order = "PENDING_PAYMENT" /\ prev = "NONE" /\ disputes = 0
    /\ inStock = TRUE /\ payout = "NONE" /\ planning = FALSE
    /\ pay = [p \in Payments |-> "NONE"] /\ provider = "NONE"
    /\ sequence = [c \in Children |-> 0]
    /\ amount = [c \in Children |-> 0]
    /\ checkout = [c \in Children |-> "none"]
    /\ paidEvents = {} /\ flagged = {} /\ events = {}
    /\ refund = [c \in Children |-> "NONE"]
    /\ closing = [c \in Children |-> "no"]
    /\ request = [n \in Requests |-> Idle]

-----------------------------------------------------------------------------
(* The plan *)

existing == {c \in Children : pay[c] # "NONE"}
unused == Children \ existing
newRow == CHOOSE d \in unused : TRUE

\* The order's payment is created as a plan.  If its children are still
\* missing, asking again finds the pending parent and creates them.
CreatePlan ==
    /\ order # "DISPUTED"
    /\ pay[Parent] \in {"NONE", "PENDING", "PAID"}
    /\ pay' = IF pay[Parent] = "NONE" THEN [pay EXCEPT ![Parent] = "PENDING"] ELSE pay
    /\ planning' = TRUE
    /\ UNCHANGED <<orderVars, provider, sequence, amount, checkout, paidEvents, flagged,
                   refundVars, events, request>>

ensureInstallmentChildren ==
    /\ planning
    /\ planning' = FALSE
    /\ \/ /\ existing = {}
          /\ pay' = [p \in Payments |-> IF p \in 1 .. N THEN "PENDING" ELSE pay[p]]
          /\ sequence' = [c \in Children |-> IF c <= N THEN c ELSE 0]
          /\ amount' = [c \in Children |->
                IF c <= N THEN splitInto(Price, N)[c] ELSE 0]
       \/ /\ existing # {}
          /\ UNCHANGED <<pay, sequence, amount>>
    /\ UNCHANGED <<orderVars, provider, checkout, paidEvents, flagged,
                   refundVars, events, request>>

\* The checkout of a child; a failed call to the provider leaves no trace.
initializeChapa(c) ==
    /\ pay[c] = "PENDING"
    /\ checkout[c] = "none"
    /\ pay' = [pay EXCEPT ![c] = "PROCESSING"]
    /\ checkout' = [checkout EXCEPT ![c] = "open"]
    /\ UNCHANGED <<orderVars, planning, provider, sequence, amount, paidEvents, flagged,
                   refundVars, events, request>>

ProviderDecides(c, d) ==
    /\ checkout[c] = "open"
    /\ checkout' = [checkout EXCEPT ![c] = d]
    /\ UNCHANGED <<orderVars, planning, pay, provider, sequence, amount, paidEvents, flagged,
                   refundVars, events, request>>

-----------------------------------------------------------------------------
(* Requests *)

start(n, point, p, report, by) ==
    /\ request[n] = Idle
    /\ request' = [request EXCEPT ![n] = [at |-> point, pay |-> p, rep |-> report, by |-> by]]
    /\ UNCHANGED <<orderVars, rowVars, refundVars, events>>

ChapaNotice(n, c) ==
    /\ pay[c] # "PAID"
    /\ checkout[c] \in {"PAID", "FAILED"}
    /\ start(n, "begin", c, checkout[c], "CHAPA")

AdminConfirm(n, p) ==
    /\ p \in Confirmable
    /\ pay[p] = "PENDING"
    /\ p # Parent => checkout[p] = "none"
    /\ start(n, "begin", p, "PAID", "admin")

\* Verification of the parent and the order's payment page look at the plan.
Observe(n) ==
    /\ pay[Parent] # "NONE"
    /\ start(n, "count", Parent, "PAID", "INSTALLMENTS")

\* replaceFailedInstallment: the checks of its transaction ...
AskRetry(n, c) ==
    /\ pay[c] = "FAILED"
    /\ sequence[c] # 0
    /\ pay[Parent] = "PENDING"
    /\ order \notin {"DISPUTED", "CANCELLED"}
    /\ start(n, "retry", c, "FAILED", "CHAPA")

\* The new child takes the sequence of the failed one.
nextSequence(c) == sequence[c] + 1
sameSequence(c) == sequence[c]

at(n, point) == request[n].at = point
moveTo(n, point) == request' = [request EXCEPT ![n].at = point]
leave(n) == request' = [request EXCEPT ![n] = Idle]

\* ... and its writes.  A second retry of the same child violates the unique
\* sequence and is rolled back.  No retry when all Rows are used.
Replace(n) ==
    LET c == request[n].pay IN
    /\ at(n, "retry")
    /\ leave(n)
    /\ \/ /\ sequence[c] # 0
          /\ unused # {}
          /\ sequence' = [sequence EXCEPT ![c] = 0, ![newRow] = sameSequence(c)]
          /\ amount' = [amount EXCEPT ![newRow] = amount[c]]
          /\ pay' = [pay EXCEPT ![newRow] = "PENDING"]
       \/ /\ sequence[c] = 0 \/ unused = {}
          /\ UNCHANGED <<sequence, amount, pay>>
    /\ UNCHANGED <<orderVars, planning, provider, checkout, paidEvents, flagged,
                   refundVars, events>>

-----------------------------------------------------------------------------
(* Finalisation and settlement *)

live == {c \in Children : sequence[c] # 0}

allOfThemPaid == \A c \in live : pay[c] = "PAID"
allPaid == Cardinality(live) = N /\ \A c \in live : pay[c] = "PAID"

planOpenOnceProcessing == pay[Parent] = "PROCESSING"
planOpen == pay[Parent] \notin {"NONE", "PAID", "REFUNDED", "REFUND_PENDING", "FAILED"}

\* finalizeInstallmentPlan: reads the plan, then settles the parent.
finalizeInstallmentPlan(n) ==
    /\ at(n, "count")
    /\ \/ /\ planOpen /\ allPaid
          /\ request' = [request EXCEPT ![n] =
                [at |-> "begin", pay |-> Parent, rep |-> "PAID", by |-> "INSTALLMENTS"]]
       \/ /\ ~(planOpen /\ allPaid)
          /\ leave(n)
    /\ UNCHANGED <<orderVars, rowVars, refundVars, events>>

event(n) == <<request[n].pay, request[n].by>>
Recorded(n) == IF request[n].by = "CHAPA" THEN events ELSE events \cup {event(n)}

\* Another transaction has inserted the same event and not committed yet.
SameEventOpen(n) ==
    /\ request[n].by # "CHAPA"
    /\ \E m \in Requests \ {n} : request[m].at \in Settling /\ event(m) = event(n)

Ignores(s, report) ==
    \/ s = "REFUNDED"
    \/ s = "PAID" /\ report = "FAILED"

\* The unlocked first read of a settlement.
SettleRead(n) ==
    LET p == request[n].pay  report == request[n].rep IN
    /\ at(n, "begin")
    /\ ~SameEventOpen(n)
    /\ \/ /\ event(n) \in events
          /\ leave(n) /\ UNCHANGED events
       \/ /\ event(n) \notin events
          /\ Ignores(pay[p], report)
          /\ leave(n) /\ events' = Recorded(n)
       \/ /\ event(n) \notin events
          /\ ~Ignores(pay[p], report)
          /\ moveTo(n, IF report = "PAID" /\ order = "DISPUTED" THEN "readDisputed" ELSE "read")
          /\ UNCHANGED events
    /\ UNCHANGED <<orderVars, rowVars, refundVars>>

\* The completion of a refund has written the child and not committed.
RowLocked(p) == p # Parent /\ closing[p] # "no"

SettleFailed(n) ==
    LET p == request[n].pay IN
    /\ at(n, "read")
    /\ request[n].rep = "FAILED"
    /\ ~RowLocked(p)
    /\ pay' = [pay EXCEPT ![p] = "FAILED"]
    /\ leave(n)
    /\ UNCHANGED <<orderVars, planning, provider, sequence, amount, checkout, paidEvents, flagged,
                   refundVars, events>>

becomesPaid(n, flag) ==
    LET p == request[n].pay IN
    /\ pay' = [pay EXCEPT ![p] = "PAID"]
    /\ paidEvents' = paidEvents \cup {p}
    /\ flagged' = IF flag THEN flagged \cup {p} ELSE flagged
    /\ events' = Recorded(n)
    /\ UNCHANGED <<planning, sequence, amount, checkout, refundVars>>

\* A child has no effects of its own; the plan is looked at next.
SettleChild(n) ==
    LET p == request[n].pay IN
    /\ request[n].at \in Settling
    /\ p # Parent
    /\ request[n].rep = "PAID"
    /\ ~RowLocked(p)
    /\ becomesPaid(n, at(n, "readDisputed"))
    /\ moveTo(n, "count")
    /\ UNCHANGED <<orderVars, provider>>

\* The order as read again after the parent's row was locked.
awaitsOrCancelled == order \in {"PENDING_PAYMENT", "CANCELLED"}
awaitsPayment == order = "PENDING_PAYMENT"

\* The order was disputed when first read, or is not waiting for payment:
\* the parent is paid without effects, flagged if disputed or cancelled.
SettleParentOnly(n) ==
    /\ request[n].at \in Settling
    /\ request[n].pay = Parent
    /\ at(n, "readDisputed") \/ ~awaitsPayment
    /\ becomesPaid(n, at(n, "readDisputed") \/ order = "CANCELLED")
    /\ provider' = request[n].by
    /\ leave(n)
    /\ UNCHANGED orderVars

\* The parent confirms the order and the seller's payout is held.
SettleParent(n) ==
    /\ at(n, "read")
    /\ request[n].pay = Parent
    /\ awaitsPayment
    /\ inStock
    /\ order' = "CONFIRMED"
    /\ payout' = IF payout = "NONE" THEN "HELD" ELSE payout
    /\ becomesPaid(n, FALSE)
    /\ provider' = request[n].by
    /\ leave(n)
    /\ UNCHANGED <<prev, disputes, inStock>>

\* No stock: an admin's settlement falls back to reconciliation, the plan's
\* own (settlePaymentCore) is rolled back and nothing else.
SettleNoStock(n) ==
    /\ at(n, "read")
    /\ request[n].pay = Parent
    /\ awaitsPayment
    /\ ~inStock
    /\ \/ /\ request[n].by = "admin"
          /\ canTransition(pay[Parent], "RECONCILIATION_REQUIRED")
          /\ pay' = [pay EXCEPT ![Parent] = "RECONCILIATION_REQUIRED"]
          /\ flagged' = flagged \cup {Parent}
       \/ /\ request[n].by # "admin" \/ ~canTransition(pay[Parent], "RECONCILIATION_REQUIRED")
          /\ UNCHANGED <<pay, flagged>>
    /\ leave(n)
    /\ UNCHANGED <<orderVars, planning, provider, sequence, amount, checkout, paidEvents,
                   refundVars, events>>

\* The server dies or the transaction times out.
RequestDies(n) ==
    /\ request[n] # Idle
    /\ leave(n)
    /\ UNCHANGED <<orderVars, rowVars, refundVars, events>>

PlanningDies ==
    /\ planning
    /\ planning' = FALSE
    /\ UNCHANGED <<orderVars, pay, provider, sequence, amount, checkout, paidEvents, flagged,
                   refundVars, events, request>>

-----------------------------------------------------------------------------
(* The order *)

CancellablePayoutsButFrozen == {"HELD"}
CancellablePayouts == {"HELD", "ON_HOLD_DISPUTE"}

\* The cancellation: paid children are refunded one by one, the paid parent
\* waits for them, pending rows are closed.
cancelOrderInTransaction ==
    LET paid == {c \in Children : pay[c] = "PAID"} IN
    /\ order # "CANCELLED"
    /\ order' = "CANCELLED"
    /\ prev' = "NONE"
    /\ payout' = IF payout \in CancellablePayouts THEN "CANCELLED" ELSE payout
    /\ pay' = [p \in Payments |->
                  CASE pay[p] = "PAID" -> "REFUND_PENDING"
                    [] pay[p] = "PENDING" -> "FAILED"
                    [] OTHER -> pay[p]]
    /\ refund' = [c \in Children |-> IF c \in paid THEN "REQUESTED" ELSE refund[c]]
    /\ UNCHANGED <<disputes, inStock, planning, provider, sequence, amount, checkout, paidEvents,
                   flagged, closing, events, request>>

RaiseDispute ==
    /\ disputes < MaxDisputes
    /\ order \in DISPUTABLE_STATUSES
    /\ disputes' = disputes + 1
    /\ prev' = order
    /\ order' = "DISPUTED"
    /\ payout' = IF payout = "HELD" THEN "ON_HOLD_DISPUTE" ELSE payout
    /\ UNCHANGED <<inStock, rowVars, refundVars, events, request>>

\* Dismissed: a parent that was paid meanwhile is replayed.
DismissDispute ==
    /\ order = "DISPUTED"
    /\ prev' = "NONE"
    /\ payout' = IF payout = "ON_HOLD_DISPUTE" \/ (payout = "NONE" /\ pay[Parent] = "PAID")
                 THEN "HELD" ELSE payout
    /\ \/ /\ prev = "PENDING_PAYMENT" /\ pay[Parent] = "PAID"
          /\ inStock
          /\ order' = "CONFIRMED"
       \/ /\ prev # "PENDING_PAYMENT" \/ pay[Parent] # "PAID"
          /\ order' = prev
    /\ UNCHANGED <<disputes, inStock, rowVars, refundVars, events, request>>

\* Another order takes the stock before this one is confirmed.
SellOut ==
    /\ inStock
    /\ order = "PENDING_PAYMENT"
    /\ inStock' = FALSE
    /\ UNCHANGED <<order, prev, disputes, payout, rowVars, refundVars, events, request>>

-----------------------------------------------------------------------------
(* Refunds of children *)

processRefund(c) ==
    /\ refund[c] = "REQUESTED"
    /\ checkout[c] # "none"
    /\ order = "CANCELLED"
    /\ refund' = [refund EXCEPT ![c] = "PROCESSING"]
    /\ UNCHANGED <<orderVars, rowVars, closing, events, request>>

stillHeldForgetsPending(c) == \E d \in Children \ {c} : pay[d] = "PAID"
stillHeld(c) ==
    \E d \in Children \ {c} : pay[d] \in {"PAID", "REFUND_PENDING", "PROCESSING"}

\* finalizeRefund has written the child and reads the plan ...
finalizeRefund(c) ==
    /\ refund[c] = "PROCESSING"
    /\ order = "CANCELLED"
    /\ canTransition(pay[c], "REFUNDED")
    /\ closing[c] = "no"
    /\ closing' = [closing EXCEPT ![c] =
          IF pay[Parent] = "REFUND_PENDING" /\ ~stillHeld(c) THEN "last" ELSE "open"]
    /\ UNCHANGED <<orderVars, rowVars, refund, events, request>>

\* ... and commits, closing the parent if no other child is held
\* (markParentRefundedIfComplete).
finalizeCommits(c) ==
    /\ closing[c] # "no"
    /\ closing' = [closing EXCEPT ![c] = "no"]
    /\ refund' = [refund EXCEPT ![c] = "COMPLETED"]
    /\ pay' = IF closing[c] = "last"
              THEN [pay EXCEPT ![c] = "REFUNDED", ![Parent] = "REFUNDED"]
              ELSE [pay EXCEPT ![c] = "REFUNDED"]
    /\ UNCHANGED <<orderVars, planning, provider, sequence, amount, checkout, paidEvents, flagged,
                   events, request>>

finalizeDies(c) ==
    /\ closing[c] # "no"
    /\ closing' = [closing EXCEPT ![c] = "no"]
    /\ UNCHANGED <<orderVars, rowVars, refund, events, request>>

failRefund(c) ==
    /\ refund[c] \in {"REQUESTED", "PROCESSING"}
    /\ closing[c] = "no"
    /\ refund' = [refund EXCEPT ![c] = "FAILED"]
    /\ pay' = IF pay[c] = "REFUND_PENDING" THEN [pay EXCEPT ![c] = "PAID"] ELSE pay
    /\ UNCHANGED <<orderVars, planning, provider, sequence, amount, checkout, paidEvents, flagged,
                   closing, events, request>>

retryRefund(c) ==
    /\ refund[c] = "FAILED"
    /\ pay[c] \in {"PAID", "REFUND_PENDING"}
    /\ refund' = [refund EXCEPT ![c] = "REQUESTED"]
    /\ pay' = [pay EXCEPT ![c] = "REFUND_PENDING"]
    /\ UNCHANGED <<orderVars, planning, provider, sequence, amount, checkout, paidEvents, flagged,
                   closing, events, request>>

-----------------------------------------------------------------------------
ChildStep(c) ==
    \/ initializeChapa(c)
    \/ \E d \in {"PAID", "FAILED"} : ProviderDecides(c, d)
    \/ processRefund(c)
    \/ finalizeRefund(c)
    \/ finalizeCommits(c)
    \/ finalizeDies(c)
    \/ failRefund(c)
    \/ retryRefund(c)

RequestStep(n) ==
    \/ \E c \in Children : ChapaNotice(n, c)
    \/ \E p \in Payments : AdminConfirm(n, p)
    \/ \E c \in Children : AskRetry(n, c)
    \/ Observe(n)
    \/ Replace(n)
    \/ finalizeInstallmentPlan(n)
    \/ SettleRead(n)
    \/ SettleFailed(n)
    \/ SettleChild(n)
    \/ SettleParentOnly(n)
    \/ SettleParent(n)
    \/ SettleNoStock(n)
    \/ RequestDies(n)

Next ==
    \/ CreatePlan
    \/ ensureInstallmentChildren
    \/ PlanningDies
    \/ \E c \in Children : ChildStep(c)
    \/ \E n \in Requests : RequestStep(n)
    \/ cancelOrderInTransaction
    \/ RaiseDispute
    \/ DismissDispute
    \/ SellOut

Spec == Init /\ [][Next]_vars

\* The buyer's order page asks for the payments again and again, so a
\* finalisation that dies is started again.
PageFairness ==
    \A n \in Requests :
        /\ SF_vars(Observe(n))
        /\ SF_vars(finalizeInstallmentPlan(n))
        /\ SF_vars(SettleRead(n))
        /\ SF_vars(SettleParent(n))
        /\ SF_vars(SettleParentOnly(n))

FairSpec == Spec /\ PageFairness

-----------------------------------------------------------------------------
(* Properties *)

\* The seller's money is held only once the whole price was received: as many
\* children were paid as the plan has installments, or an admin took the
\* price offline, whatever retries, deaths and disputes came in between
\* (finalizeInstallmentPlan, replaceFailedInstallment).
PayoutOnlyForWholePrice ==
    payout # "NONE" =>
        \/ <<Parent, "admin">> \in events
        \/ Cardinality(paidEvents \ {Parent}) >= N

\* The seller's payout and the buyer's refunds never run at the same time: a
\* late finalisation cannot hold a payout for a cancelled order
\* (settlePaymentCore, cancelOrderInTransaction).
NoHoldWhileRefunding ==
    payout \in {"HELD", "ON_HOLD_DISPUTE"} => \A c \in Children : refund[c] = "NONE"

\* A parent that its installments paid is closed as refunded only when every
\* installment the buyer paid has been returned (markParentRefundedIfComplete).
\* It fails once an admin may confirm an installment whose checkout is being
\* opened: that checkout's FAILED report overwrites the confirmation.
RefundedPlanReturnedAll ==
    /\ Confirmable \subseteq {Parent}
    /\ pay[Parent] = "REFUNDED"
    /\ provider = "INSTALLMENTS"
    => \A c \in paidEvents \ {Parent} : refund[c] = "COMPLETED"

\* Each fits into one checkout.
WithinLimit == \A c \in live : amount[c] \in 1 .. Limit

\* The installments the buyer is asked for add up to the price, to the cent,
\* and none is above the provider's limit, also after failed ones were
\* replaced (splitInto, replaceFailedInstallment).
LiveInstallmentsAddUp ==
    live # {} =>
        /\ SumFunctionOnSet(amount, live) = Price
        /\ WithinLimit

\* A plan whose installments are all paid confirms its order, although the
\* server may stop right after the last one, unless the order was cancelled
\* or the stock is gone (finalizeInstallmentPlan, the self-healing page).
PaidPlanSettles ==
    allPaid ~> \/ pay[Parent] \in {"PAID", "REFUND_PENDING", "REFUNDED"}
               \/ order = "CANCELLED"
               \/ ~inStock

-----------------------------------------------------------------------------
(* Refinement: what a plan promises *)

received == paidEvents \ {Parent}
offline == <<Parent, "admin">> \in events
seller ==
    CASE payout \in {"HELD", "ON_HOLD_DISPUTE"} -> "HELD"
      [] payout \in {"NONE", "CANCELLED"} /\ order = "CANCELLED" -> "OVER"
      [] OTHER -> "NONE"
returning == {c \in Children : refund[c] # "NONE"}
returned == {c \in Children : refund[c] = "COMPLETED"}
closed == pay[Parent] = "REFUNDED" /\ provider = "INSTALLMENTS"

whole == {S \in SUBSET Children : Cardinality(S) >= N}

Plan == INSTANCE Plan WITH Whole <- whole

\* Whatever retries, late reports, deaths and disputes come between, the plan
\* holds the seller's part for the whole price only, returns each installment once, after
\* the cancellation, and is closed when all it received is back
\* (settlePaymentCore, cancelOrderInTransaction, markParentRefundedIfComplete).
PlanSpec == Plan!Spec
=============================================================================
