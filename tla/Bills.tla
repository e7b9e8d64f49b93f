-------------------------------- MODULE Bills --------------------------------
(***************************************************************************)
(* Payments that belong to no order: those of a digital product (Digital)  *)
(* and of an advertising campaign (Ads).  Their creation, checkout and     *)
(* settlement by services/paymentService.js are as in Escrow, reduced to   *)
(* the reports of Chapa and an admin's confirmation.  A settlement is a    *)
(* read at the start of its transaction and unconditional writes later.    *)
(***************************************************************************)
EXTENDS Integers, FiniteSets

CONSTANTS
  BillIds,      \* rows of Payment
  BillReports   \* settlement requests that can be at work at one time

VARIABLES
  bill,         \* the payments; an unused id has status "NONE"
  report,       \* where each settlement stands and what it has read
  paidBills     \* history: payments that were settled as PAID

billVars == <<bill, report, paidBills>>

NoBill   == [status |-> "NONE", checkout |-> "none", by |-> "owner"]
NoReport == [at |-> "idle", bill |-> {}, says |-> "PAID", bound |-> FALSE]

Creators == {"owner", "admin"}
Outcomes == {"PAID", "FAILED", "RECONCILIATION_REQUIRED"}

BillsInit ==
  /\ bill = [p \in BillIds |-> NoBill]
  /\ report = [n \in BillReports |-> NoReport]
  /\ paidBills = {}

LiveBills == {p \in BillIds : bill[p].status \in {"PENDING", "PROCESSING", "PAID"}}

\* createPayment.
CreateBill(p, by) ==
  /\ bill[p] = NoBill
  /\ bill' = [bill EXCEPT ![p] = [status |-> "PENDING", checkout |-> "none", by |-> by]]
  /\ UNCHANGED <<report, paidBills>>

\* POST /:id/chapa/initialize: the claim, and a provider that opens a checkout;
\* one that refuses leaves everything as it was.
OpenCheckout(p) ==
  /\ bill[p].status = "PENDING"
  /\ bill' = [bill EXCEPT ![p].status = "PROCESSING", ![p].checkout = "open"]
  /\ UNCHANGED <<report, paidBills>>

\* The payer pays, pays another amount, or gives up, at the provider.
ProviderAnswers(p) ==
  /\ bill[p].checkout = "open"
  /\ \E outcome \in Outcomes : bill' = [bill EXCEPT ![p].checkout = outcome]
  /\ UNCHANGED <<report, paidBills>>

\* What the state guards of settlePaymentCore let pass, given the status read.
Admitted(status, says) ==
  CASE says = "PAID"   -> status # "REFUNDED"
    [] says = "FAILED" -> status \notin {"REFUNDED", "PAID"}
    [] OTHER           -> status \in {"PENDING", "PROCESSING", "PAID", "REFUND_PENDING", says}

\* Chapa's callback, webhook or verify, or PATCH /:id/confirm by an admin, up to
\* the read in the transaction.  bound: does a purchase refer to this payment?
\* A PAID payment is answered by the route; that a settlement read PAID because
\* another was between the route and this read comes to the same as this read
\* before the other's write.
ReadBill(n, p, bound) ==
  /\ report[n] = NoReport
  /\ bill[p].status # "PAID"
  /\ \E says \in Outcomes :
       /\ \/ bill[p].checkout = says
          \/ bill[p].status = "PENDING" /\ bill[p].checkout = "none" /\ says = "PAID"
       /\ Admitted(bill[p].status, says)
       /\ report' = [report EXCEPT
                      ![n] = [at |-> "read", bill |-> {p}, says |-> says, bound |-> bound]]
  /\ UNCHANGED <<bill, paidBills>>

\* The update of the payment, whatever its status is by then.
WriteBill(n, p) ==
  /\ report[n].at = "read" /\ p \in report[n].bill
  /\ bill' = [bill EXCEPT ![p].status = report[n].says]
  /\ paidBills' = IF report[n].says = "PAID" THEN paidBills \cup {p} ELSE paidBills
  /\ report' = [report EXCEPT ![n] = NoReport]

\* A settlement is refused, fails or is rolled back.
SettlementEnds(n) ==
  /\ report[n] # NoReport
  /\ report' = [report EXCEPT ![n] = NoReport]
  /\ UNCHANGED <<bill, paidBills>>

\* finalizeRefund, failRefund.
RefundEnds(p) ==
  /\ bill[p].status = "REFUND_PENDING"
  /\ \E to \in {"REFUNDED", "PAID"} : bill' = [bill EXCEPT ![p].status = to]
  /\ UNCHANGED <<report, paidBills>>

BillSteps ==
  \/ \E p \in BillIds : OpenCheckout(p) \/ ProviderAnswers(p) \/ RefundEnds(p)
  \/ \E n \in BillReports : SettlementEnds(n)

-----------------------------------------------------------------------------

BillStatus ==
  {"NONE", "PENDING", "PROCESSING", "PAID", "FAILED", "RECONCILIATION_REQUIRED",
   "REFUND_PENDING", "REFUNDED"}

\* The payments and the settlements have the values of the schema.
BillsTypeOK ==
  /\ bill \in [BillIds -> [status : BillStatus, checkout : Outcomes \cup {"none", "open"},
                           by : Creators]]
  /\ report \in [BillReports -> [at : {"idle", "read"}, bill : SUBSET BillIds,
                                 says : Outcomes, bound : BOOLEAN]]
  /\ paidBills \subseteq BillIds
=============================================================================
