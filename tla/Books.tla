--------------------------------- MODULE Books ---------------------------------
(***************************************************************************)
(* The books that services/paymentService.js keeps of the payments that    *)
(* were settled, and what the reports of routes/admin.js and of            *)
(* routes/payments.js make of them.                                        *)
(*                                                                         *)
(* An entry of the ledger is written in the transaction that settles the   *)
(* payment, once for each payment and kind of entry; the commission is     *)
(* what createPayment computed from the rate of that day.  The payout to   *)
(* the payee is written beside it, or later, when a dispute ends.  What    *)
(* else a settlement does to an order is in Escrow, and to a service in    *)
(* Transport and Inspection.  Amounts are in the smallest unit.            *)
(***************************************************************************)
EXTENDS Bills, Functions

CONSTANTS
  KindsOf,      \* what each payment can be for
  Amounts,      \* amounts of payments
  Rates         \* rates of commission, in percent, that are configured

\* SERVICE is TRANSPORT, of a hired truck, or INSPECTOR.
Kinds == {"MARKETPLACE", "MARKETPLACE_INSTALLMENT", "SERVICE", "DIGITAL", "ADVERTISING"}

ASSUME BooksAssumption ==
  /\ KindsOf \in [BillIds -> SUBSET Kinds]
  /\ Amounts \subseteq Nat \ {0}
  /\ Rates \subseteq 0 .. 100

VARIABLES
  fee,          \* type, amount and commission of each payment, as created
  served,       \* the services that have a provider: their payments
  market,       \* the order: its status, and the one before its dispute
  sawDispute,   \* the settlements that have read the order as DISPUTED
  ledger,       \* the entries of each payment; no entry is 0
  hold          \* the payout of each payment, {} or its amount

EntryTypes == {"EARNING", "PLATFORM_COMMISSION", "PLATFORM_REVENUE"}

feeVars  == <<fee, served, market, sawDispute, ledger, hold>>
bookVars == <<bill, report, paidBills, fee, served, market, sawDispute, ledger, hold>>

NoFee   == [kind |-> "NONE", amount |-> 0, commission |-> 0]
NoEntry == [type \in EntryTypes |-> 0]

BooksInit ==
  /\ BillsInit
  /\ fee = [p \in BillIds |-> NoFee]
  /\ served = {}
  /\ market = [status |-> "PENDING_PAYMENT", before |-> "PENDING_PAYMENT"]
  /\ sawDispute = {}
  /\ ledger = [p \in BillIds |-> NoEntry]
  /\ hold = [p \in BillIds |-> {}]

orderVars == <<served, market>>
entryVars == <<ledger, hold>>

-----------------------------------------------------------------------------
\* Creation.

\* commissionAmount, rounded half up; an installment carries none.
CommissionOf(kind, amount, rate) ==
  IF kind = "MARKETPLACE_INSTALLMENT" THEN 0 ELSE (amount * rate + 50) \div 100

netOf(p) == fee[p].amount - fee[p].commission

\* createPayment, for an order that waits for it or a service that is agreed, with
\* the rate of this day: a deployment may change it.
CreateFee(p) ==
  /\ CreateBill(p, "owner")
  /\ \E kind \in KindsOf[p], amount \in Amounts, rate \in Rates :
       /\ kind \in {"MARKETPLACE", "MARKETPLACE_INSTALLMENT"} => market.status = "PENDING_PAYMENT"
       /\ kind = "SERVICE" => market.status \in {"PENDING_PAYMENT", "CONFIRMED"}
       /\ fee' = [fee EXCEPT ![p] = [kind |-> kind, amount |-> amount,
                                     commission |-> CommissionOf(kind, amount, rate)]]
       /\ served' = IF kind = "SERVICE" THEN served \cup {p} ELSE served
  /\ UNCHANGED <<market, sawDispute, entryVars>>

-----------------------------------------------------------------------------
\* Settlement.

ReadFee(n) ==
  /\ \E p \in BillIds : ReadBill(n, p, p \in served)
  /\ sawDispute' = IF market.status = "DISPUTED" THEN sawDispute \cup {n} ELSE sawDispute
  /\ UNCHANGED <<fee, orderVars, entryVars>>

\* Entries whose earning still contains the commission.
EntriesOfGross(p, provided) ==
  CASE fee[p].kind \in {"MARKETPLACE", "DIGITAL"} \/ (fee[p].kind = "SERVICE" /\ provided) ->
         [NoEntry EXCEPT !.EARNING = fee[p].amount, !.PLATFORM_COMMISSION = fee[p].commission]
    [] fee[p].kind = "ADVERTISING" ->
         [NoEntry EXCEPT !.PLATFORM_REVENUE = fee[p].amount]
    [] OTHER -> NoEntry

\* writeLedger for a payment that became PAID.  A service without a provider is
\* entered nowhere, an installment with its plan.
EntriesFor(p, provided) ==
  CASE fee[p].kind \in {"MARKETPLACE", "DIGITAL"} \/ (fee[p].kind = "SERVICE" /\ provided) ->
         [NoEntry EXCEPT !.EARNING = netOf(p), !.PLATFORM_COMMISSION = fee[p].commission]
    [] fee[p].kind = "ADVERTISING" ->
         [NoEntry EXCEPT !.PLATFORM_REVENUE = fee[p].amount]
    [] OTHER -> NoEntry

\* Entries made without a look for those that exist.
EnteredAgain(old, new) == [type \in EntryTypes |-> old[type] + new[type]]

\* createLedgerEntryOnce, for each entry.
Entered(old, new) == [type \in EntryTypes |-> IF old[type] = 0 THEN new[type] ELSE old[type]]

\* createPayoutHold: one for a payment.
HeldFor(pays) ==
  hold' = [p \in BillIds |-> IF p \in pays /\ hold[p] = {} THEN {netOf(p)} ELSE hold[p]]

\* settlePaymentCore: while the order is read as disputed only the ledger is
\* written; a service that has ended meanwhile rolls the settlement back.
SettleFee(n) ==
  \E p \in report[n].bill :
    LET paid  == report[n].says = "PAID"
        acts  == paid /\ n \notin sawDispute
        goods == acts /\ fee[p].kind = "MARKETPLACE" /\ market.status = "PENDING_PAYMENT"
        work  == acts /\ fee[p].kind = "SERVICE" /\ report[n].bound
    IN  /\ work => p \in served /\ market.status # "CANCELLED"
        /\ WriteBill(n, p)
        /\ sawDispute' = sawDispute \ {n}
        /\ ledger' = IF paid
                     THEN [ledger EXCEPT ![p] = Entered(@, EntriesFor(p, report[n].bound))]
                     ELSE ledger
        /\ HeldFor(IF goods \/ work THEN {p} ELSE {})
        /\ market' = IF goods THEN [market EXCEPT !.status = "CONFIRMED"] ELSE market
        /\ UNCHANGED <<fee, served>>

FeeSettlementEnds(n) ==
  /\ SettlementEnds(n)
  /\ sawDispute' = sawDispute \ {n}
  /\ UNCHANGED <<fee, orderVars, entryVars>>

-----------------------------------------------------------------------------
\* The order.

RaiseDispute ==
  /\ market.status \in {"PENDING_PAYMENT", "CONFIRMED"}
  /\ market' = [status |-> "DISPUTED", before |-> market.status]
  /\ UNCHANGED <<billVars, fee, served, sawDispute, entryVars>>

OfKind(kinds) == {p \in BillIds : fee[p].kind \in kinds}
OfOrder       == OfKind({"MARKETPLACE", "MARKETPLACE_INSTALLMENT", "SERVICE"})
Having(status) == {p \in BillIds : bill[p].status = status}

\* replayDisputedPaidPayment for every PAID payment: goods first confirm the
\* order, if it still waits, and whoever is to be paid gets a payout.
Replayed(providers) ==
  LET goods == Having("PAID") \cap OfKind({"MARKETPLACE"})
  IN  /\ HeldFor(goods \cup (Having("PAID") \cap OfKind({"SERVICE"}) \cap providers))
      /\ market' = [market EXCEPT !.status = IF goods = {} THEN market.before ELSE "CONFIRMED"]

\* A dispute is dismissed, or resolved by cancelling the service it is about,
\* which fails if the fee is PAID; a checkout of it stays open.
Resolve ==
  /\ market.status = "DISPUTED"
  /\ served' \in IF Having("PAID") \cap served = {} THEN {served, {}} ELSE {served}
  /\ Replayed(served')
  /\ UNCHANGED <<billVars, fee, sawDispute, ledger>>

\* cancelOrderInTransaction, from a dispute or not.  Fees of inspections that
\* were reported on are kept; plans that are not paid are closed.
CancelOrder ==
  /\ market.status # "CANCELLED"
  /\ market' = [market EXCEPT !.status = "CANCELLED"]
  /\ \E kept \in SUBSET served, plans \in SUBSET OfKind({"MARKETPLACE"}) :
       bill' = [p \in BillIds |->
                 IF p \in (Having("PAID") \cap OfOrder) \ kept
                 THEN [bill[p] EXCEPT !.status = "REFUND_PENDING"]
                 ELSE IF p \in Having("PENDING") \cap (plans \cup OfKind({"MARKETPLACE_INSTALLMENT"}))
                 THEN [bill[p] EXCEPT !.status = "FAILED"]
                 ELSE bill[p]]
  /\ UNCHANGED <<report, paidBills, fee, served, sawDispute, entryVars>>

\* The cancellation of a campaign.
CancelAd(p) ==
  /\ fee[p].kind = "ADVERTISING"
  /\ \/ bill[p].status = "PAID" /\ bill' = [bill EXCEPT ![p].status = "REFUND_PENDING"]
     \/ bill[p].status = "PENDING" /\ bill' = [bill EXCEPT ![p].status = "FAILED"]
  /\ UNCHANGED <<report, paidBills, fee, orderVars, sawDispute, entryVars>>

\* finalizeRefund, which needs a cancelled order and enters nothing, or
\* failRefund.
EndRefund(p) ==
  /\ RefundEnds(p)
  /\ bill'[p].status = "REFUNDED" /\ p \in OfOrder => market.status = "CANCELLED"
  /\ UNCHANGED <<fee, orderVars, sawDispute, entryVars>>

BooksNext ==
  \/ \E p \in BillIds : CreateFee(p) \/ CancelAd(p) \/ EndRefund(p)
  \/ \E n \in BillReports : ReadFee(n) \/ SettleFee(n) \/ FeeSettlementEnds(n)
  \/ RaiseDispute \/ Resolve \/ CancelOrder
  \/ /\ \E p \in BillIds : OpenCheckout(p) \/ ProviderAnswers(p)
     /\ UNCHANGED <<fee, orderVars, sawDispute, entryVars>>

BooksSpec == BooksInit /\ [][BooksNext]_bookVars

-----------------------------------------------------------------------------
\* The reports: sums over the payments they select.

Total(pays, value) == SumFunction([p \in BillIds |-> IF p \in pays THEN value[p] ELSE 0])

\* GET /commissions/summary, GET /overview, and /payments/overview of the admin,
\* which also adds up the other statuses.
Amount     == [p \in BillIds |-> fee[p].amount]
Commission == [p \in BillIds |-> fee[p].commission]
PaidOf(kind)     == Having("PAID") \cap OfKind({kind})
PaidVolume(kind) == Total(PaidOf(kind), Amount)

\* Also the figures for each kind in /commissions/stats.
ReportedCommission(kind) == Total(PaidOf(kind), Commission)

\* GET /overview, /commissions, /seller-earnings, /transporter-earnings and
\* /orders/:id/financials add up entries, of payments of one kind.
Entries(p) == ledger[p].EARNING + ledger[p].PLATFORM_COMMISSION + ledger[p].PLATFORM_REVENUE
BookedOf(kind, type) == Total(OfKind({kind}), [p \in BillIds |-> ledger[p][type]])
BookedVolume(kind)   == Total(OfKind({kind}), [p \in BillIds |-> Entries(p)])

-----------------------------------------------------------------------------

\* The payments, the entries and the payouts have the values of the schema.
BooksTypeOK ==
  /\ BillsTypeOK
  /\ fee \in [BillIds -> [kind : Kinds \cup {"NONE"}, amount : Nat, commission : Nat]]
  /\ served \subseteq BillIds
  /\ market \in [status : {"PENDING_PAYMENT", "CONFIRMED", "DISPUTED", "CANCELLED"},
                 before : {"PENDING_PAYMENT", "CONFIRMED"}]
  /\ sawDispute \subseteq BillReports
  /\ ledger \in [BillIds -> [EntryTypes -> Nat]]
  /\ hold \in [BillIds -> SUBSET Nat]

\* A payment is entered whole or not at all, always if it was settled and is for
\* goods, a product or a campaign, and who has a payout has earned it, however
\* often it was settled and on whichever side of a dispute its two records were
\* made.
EnteredWhole ==
  \A p \in BillIds :
    /\ Entries(p) \in {0, fee[p].amount}
    /\ p \in paidBills /\ fee[p].kind \in {"MARKETPLACE", "DIGITAL", "ADVERTISING"} =>
         Entries(p) = fee[p].amount
    /\ fee[p].kind = "MARKETPLACE_INSTALLMENT" => Entries(p) = 0
    /\ p \notin paidBills => Entries(p) = 0
    /\ hold[p] \subseteq {ledger[p].EARNING}

\* The sources of the reports agree on a kind as long as all that was settled of
\* it is still PAID and was entered.
SourcesAgree ==
  \A kind \in Kinds \ {"ADVERTISING"} :
    (\A p \in paidBills \cap OfKind({kind}) : bill[p].status = "PAID" /\ Entries(p) # 0) =>
      /\ ReportedCommission(kind) = BookedOf(kind, "PLATFORM_COMMISSION")
      /\ PaidVolume(kind) = BookedVolume(kind)

BooksBalance == EnteredWhole /\ SourcesAgree

Ledger == INSTANCE Ledger WITH
  Payments <- BillIds,
  price    <- Amount,
  entries  <- ledger,
  due      <- hold

\* Every step is one of the abstract books: the entries of a payment are made at
\* one moment and add up to its amount, its payee gets one payout of what they say
\* was earned, then or later, and nothing written is changed, whatever is settled
\* again, disputed, cancelled or refunded (writeLedger, createLedgerEntryOnce,
\* createPayoutHold, replayDisputedPaidPayment).
LedgerSpec == Ledger!Spec
=============================================================================
