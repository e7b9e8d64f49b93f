------------------------------- MODULE Digital -------------------------------
(***************************************************************************)
(* The purchase of one digital product by one buyer (routes/digital.js).   *)
(* The row of the purchase is unique and refers to one payment; a purchase *)
(* that has no usable payment is rebound to a new one.  Every tap of the   *)
(* buyer reads, creates a payment, and writes the row, in three steps.     *)
(***************************************************************************)
EXTENDS Bills

CONSTANTS
  ProductBills,  \* the payments of BillIds that can be for the product
  Taps           \* requests of the buyer that can be at work at one time

ASSUME ProductAssumption == ProductBills \subseteq BillIds

VARIABLES
  purchase,     \* the row of DigitalPurchase
  tap           \* where each request stands and what it has read

digitalVars == <<bill, report, paidBills, purchase, tap>>

NoTap == [at |-> "idle", again |-> FALSE, bill |-> {}, paid |-> FALSE]

DigitalInit ==
  /\ BillsInit
  /\ purchase = [status |-> "NONE", payment |-> {}]
  /\ tap = [t \in Taps |-> NoTap]

\* Payments that a retry goes on with.
Resumable == {p \in BillIds : bill[p].status \in {"PENDING", "PAID", "RECONCILIATION_REQUIRED"}}

TapGoes(t, to) == tap' = [tap EXCEPT ![t] = to]

\* POST /:id/purchase up to the first write: an owned product and a purchase
\* whose payment can go on are answered; a payment without a purchase is kept.
ReadPurchase(t) ==
  /\ tap[t] = NoTap
  /\ \/ /\ purchase.status = "PENDING" /\ purchase.payment \cap Resumable = {}
        /\ TapGoes(t, [NoTap EXCEPT !.at = "bill", !.again = TRUE])
     \/ /\ purchase.status = "NONE" /\ Resumable = {}
        /\ TapGoes(t, [NoTap EXCEPT !.at = "bill"])
     \/ /\ purchase.status = "NONE"
        /\ \E p \in Resumable :
             TapGoes(t, [NoTap EXCEPT !.at = "recover", !.bill = {p},
                                      !.paid = (bill[p].status = "PAID")])
  /\ UNCHANGED <<billVars, purchase>>

\* POST /payments for the product, which makes no purchase.
ReadDuplicate(t) ==
  /\ tap[t] = NoTap
  /\ LiveBills = {}
  /\ TapGoes(t, [NoTap EXCEPT !.at = "direct"])
  /\ UNCHANGED <<billVars, purchase>>

BillPurchase(t) ==
  /\ tap[t].at \in {"bill", "direct"}
  /\ \E p \in ProductBills :
       /\ CreateBill(p, "owner")
       /\ TapGoes(t, IF tap[t].at = "direct" THEN NoTap
                     ELSE [tap[t] EXCEPT !.at = "write", !.bill = {p}])
  /\ UNCHANGED purchase

\* The row, once the payment exists: rebound or created; the unique index on
\* (productId, buyerId) turns a second creation into an answer.
WritePurchase(t) ==
  /\ tap[t].at = "write"
  /\ purchase' = IF tap[t].again \/ purchase.status = "NONE"
                 THEN [status |-> "PENDING", payment |-> tap[t].bill] ELSE purchase
  /\ TapGoes(t, NoTap)
  /\ UNCHANGED billVars

RecoverPurchase(t) ==
  /\ tap[t].at = "recover"
  /\ purchase.status = "NONE"
  /\ purchase' = [status |-> IF tap[t].paid THEN "COMPLETED" ELSE "PENDING",
                  payment |-> tap[t].bill]
  /\ TapGoes(t, NoTap)
  /\ UNCHANGED billVars

\* The server stops, or a write is refused.
TapEnds(t) ==
  /\ tap[t] # NoTap
  /\ TapGoes(t, NoTap)
  /\ UNCHANGED <<billVars, purchase>>

ReadProductBill(n) ==
  /\ \E p \in BillIds : ReadBill(n, p, purchase.payment = {p})
  /\ UNCHANGED <<purchase, tap>>

\* A settlement that completes the purchase whatever was reported.
SettleAnyhow(n) ==
  /\ \E p \in BillIds : WriteBill(n, p)
  /\ purchase' = IF report[n].bound THEN [purchase EXCEPT !.status = "COMPLETED"] ELSE purchase
  /\ UNCHANGED tap

\* settlePaymentCore: the purchase that was read with the payment is completed.
SettleProduct(n) ==
  /\ \E p \in BillIds : WriteBill(n, p)
  /\ purchase' = IF report[n].says = "PAID" /\ report[n].bound
                 THEN [purchase EXCEPT !.status = "COMPLETED"] ELSE purchase
  /\ UNCHANGED tap

DigitalNext ==
  \/ \E t \in Taps :
       \/ ReadPurchase(t) \/ ReadDuplicate(t) \/ BillPurchase(t)
       \/ WritePurchase(t) \/ RecoverPurchase(t) \/ TapEnds(t)
  \/ \E n \in BillReports : ReadProductBill(n) \/ SettleProduct(n)
  \/ BillSteps /\ UNCHANGED <<purchase, tap>>

DigitalSpec == DigitalInit /\ [][DigitalNext]_digitalVars

-----------------------------------------------------------------------------

\* The purchase and the requests have the values of the schema.
DigitalTypeOK ==
  /\ BillsTypeOK
  /\ purchase \in [status : {"NONE", "PENDING", "COMPLETED"}, payment : SUBSET BillIds]
  /\ tap \in [Taps -> [at : {"idle", "bill", "direct", "write", "recover"}, again : BOOLEAN,
                       bill : SUBSET BillIds, paid : BOOLEAN]]

\* A product is owned only if a payment for it was settled: "access is granted
\* only after verified payment" (routes/digital.js), however its row was made,
\* recovered or bound to another payment meanwhile.
OwnedWasPaid == purchase.status = "COMPLETED" => paidBills # {}
=============================================================================
