# MarketBridge: a verification project

MarketBridge is a marketplace for farm produce and digital goods. A buyer and a
seller agree on an offer; the platform takes the buyer's money through a payment
provider (Chapa), holds it in escrow while goods are transported and inspected,
and pays seller, truck owner and inspector, or refunds the buyer. The program
is an Express server over PostgreSQL (`src/backend`), with a React client
(`src/frontend`) that keeps no state of its own worth modelling.

Every request is a handler that reads rows, checks them, and writes inside an
interactive Prisma transaction under READ COMMITTED. Most handlers read without
locks, some lock a row with `SELECT ... FOR UPDATE`, some write conditionally
(`updateMany` with the expected status in the WHERE) and some unconditionally.
Several server instances may run, each with a maintenance timer. So what can go
wrong is seldom in one handler: it is in two handlers that overlap, in a report
of the provider that arrives twice, late or not at all, and in a transaction
that dies between two others.

## Inventory

| Component | State | Operations | Hard behaviour | What makes it correct |
|---|---|---|---|---|
| Orders (`routes/orderLifecycle.js`, `services/orderStateMachine.js`, `orderCancellationService.js`) | `Order.status`, deadlines, events | place, decide, transport, confirm receipt, cancel, expire | pre-checks outside transactions; maintenance races with users | an order moves only along its table, and money and stock move with it |
| Payments (`services/paymentService.js`, `routes/payments.js`, `config/chapa.js`) | `Payment.status`, obligation link, provider events, reconciliation issues | create, initialise checkout, settle (callback, webhook, verify, admin), expire | unlocked first read, row lock later, rollback and fallback transaction, repeated and reordered reports | money taken is recorded once, and its effects happen once |
| Installments (`services/installmentService.js`) | parent and child payments | split, pay a child, replace a failed child, finalise, refund | parent settled by whoever sees the last child paid | the parent is paid only when the whole price is |
| Refunds (`services/paymentRefundService.js`) | `PaymentRefund.status` | request, submit, verify, finalise, fail, retry | provider call between two transactions | no refund of money that left, every submitted refund ends |
| Payouts (`services/payoutService.js`) | `Payout.status` | hold, freeze, resume, cancel, release, pay | sweep against dispute, cancellation and admin | seller money moves only after receipt and not under a dispute |
| Disputes (`routes/disputes.js`) | `Dispute`, `previousOrderStatus` | raise, resolve three ways | payments that settle while the dispute is open | nothing is lost or paid early because of a dispute |
| Inventory (`services/inventoryService.js`) | `availableQuantity`, `Listing.status` | commit, release | commits and releases of different orders | stock is neither lost nor invented |
| Offers (`routes/offerHandlers/*`, `services/offers/*`, `waitingListService.js`) | `Offer.status`, rounds, waiting list | bid, counter, select, accept, release, reopen | one winner per listing; expiry; promotion | at most one agreed offer and one live order |
| Transport (`routes/transport.js`, `transportQuotes.js`, evidence, coordination) | `TransportJob`, quotes | request, quote, accept, release, confirm loading, move | accepted quote against payment, release and cancellation | one transporter per job, paid before loading |
| Inspection (`routes/inspections.js`, `inspectionQuotes.js`, arrival, lapse, evidence) | `InspectionRequest`, quotes, arrival confirmation | request, quote, accept, check in, report, lapse | deadlines against confirmations | an inspector is paid for a visit that happened |
| Provider standing (`services/providerStandingService.js`, `releaseLimitsService.js`) | `ProviderStanding` | cancellation penalty, suspend, rejoin, appeal, reinstate, sweep | timers settled from rows read outside the transaction | a suspension is served, and an admin's decision stays |
| Request idempotency (`middleware/idempotency.js`) | `IdempotencyRequest` | claim, take over, complete, delete | handler slower than the record's life, crash between effect and record | one request has its effect once |
| Maintenance (`services/maintenanceService.js`) | advisory lock | seventeen jobs per cycle | the lock's transaction times out while jobs run | jobs of two instances do not overlap |
| Messages to users (`notificationService.js`, `smsService.js`, `notices`) | notifications, SMS outbox | queue, send, retry | retry after a crash | a notice is sent |
| Price reviews (`routes/orderPriceReviews.js`) | `PriceReview`, `Order.finalPrice`, `buyerDecision` | propose, counter, accept, reject, cancel | answers and payments that act on a price read earlier | one price is agreed, and it is the one paid |
| Sessions (`services/refreshSessionService.js`, `routes/auth.js`) | `RefreshSession` | log in, rotate, revoke a family or all | several tabs refresh one session | a family of sessions is a chain |
| Digital goods, advertisements (`routes/digital.js`, `routes/ads.js`) | `DigitalPurchase`, `Advertisement`, their payments | buy, retry, settle; pay, review, cancel, publish, expire | retries and reviews that act on payments read earlier | nothing is delivered or shown unpaid |
| Books (ledger and commissions in `paymentService.js`, reports of `admin.js` and `payments.js`) | `PaymentLedgerEntry`, `commissionAmount`, `Payout.amount` | enter a settlement, report totals | entries and payouts are made on two sides of a dispute, the commission at creation | every birr that was settled is entered once, and the reports agree |
| Recovery requests (`orderRecoveryRequests.js`, `adminRecoveryActions.js`) | `AdminRecoveryRequest` and the rows it changes | ask, decide | an admin changes rows other handlers hold copies of | modelled where the row is (Offers, Inspection) |
| Growth, ratings, listings, admin, MFA, search | rows of their own | lists, CRUD with approvals | few | see PROJECT.json |

Messages and calls between components: offers create orders; transport and
inspection unlock the goods payment; settlements call the inventory, the order
table and the payouts in one transaction; disputes freeze and resume payouts and
replay the settlements they held back; cancellation calls inventory, payouts and
refunds in one transaction; the maintenance cycle calls all of them.

## Modules

`MarketStates` holds the two status tables of the program and nothing else.

`Escrow` is the goods side of one listing: orders, transport job, disputes,
cancellation, stock, goods payments, settlements, refunds and payouts. Its
variables are columns (`order.status`, `payment.status`, ...), its actions are
the handlers, and its only processes are the settlements (`notice`), because
`settlePaymentCore` is the transaction in which unlocked reads, a row lock and
a second read matter. A settlement is `begin`, the unlocked read (`SettleRead`),
the UPDATE that takes the row lock and reads the order again (`SettleLock`), and
the commit (`SettleConfirm`, `SettleCommit`, `SettleUnpaid`) or one of the ways
out (`SettleNoStock` and `SettleShort`, `SettleConflict`, `SettleDies`). All other
transactions are one step each; they wait for a locked payment row (`RowLocked`).
`PATCH /:id/cancel` and `confirm-receipt` check before their transaction, so each
is two steps, and everything else may happen between them.

`Custody` is the abstract promise: the money of a payment sits in escrow, then
goes to the seller (due, then paid) or back to the buyer (returning, then
returned), and never turns round. `Escrow!custody` is the refinement mapping.

`Installments` is one payment of an order above the provider's limit: the parent
row, the children, their checkouts, the retry of a failed child, the finalisation
of the plan and, after a cancellation, the children's refunds up to the parent's.
`splitInto` and `countOf` are the arithmetic of `splitAmount`, in cents. Requests
(`request`: webhooks, page loads, an admin, retries) are processes: a
settlement reads the payment (`begin`, `SettleRead`) and commits later
(`SettleChild`, `SettleFailed`, `SettleParent`, `SettleParentOnly`,
`SettleNoStock`); a finalisation counts the children and settles later; a retry
checks the child and writes later. `planning` is the gap between the parent's row
and its children's. The completion of a refund is two steps (`finalizeRefund`,
`finalizeCommits`) because it looks at the other children in its own snapshot.

`Plan` is the abstract promise of a payment in installments: installments are received
one by one, the seller's part is held once, when they make up the whole price or an admin
took it offline, the cancellation ends that for ever and sends received installments back, each
is returned once, and the plan is closed when all it received is back. The end of
`Installments` maps its rows to it (`received`, `offline`, `seller`, `returning`,
`returned`, `closed`); `Plan!TakeOffline` may open a closed plan again, because an
admin's confirmation that comes late overwrites the parent.

`Offers` is the competition for one listing: bids, the selection of one, the
counter chain, the provisional agreement and its release, expiry, promotion of
the next waiting buyer, the order and its end. A row of the offer table is a row
here (`status`, `buyer`, `by`, `parent`); the order made from a row is
`order[row]` because `agreedOfferId` is unique. A request reads (`Ask...`, the leaf
and its status) and writes (`counterOffer`, `moveOfferToProvisional`,
`rejectOrWithdraw`, ...), with or without a condition as the handler does;
`select`, the order's creation and `RELEASE_PROVISIONAL` hold the lock on the
Listing row between the two (`LockedSteps`). REJECTED, WITHDRAWN and EXPIRED are
one status, `ENDED`, since no handler tells them apart. An order's later statuses
are one, `CONFIRMED`, with its later disputes; `DISPUTED` is the dispute of an
unpaid order, which only offers and their recovery treat differently. Stock and
`Listing.status` are left open: where they decide, both outcomes are possible.

`Contract` is the abstract promise of that competition: an offer is in talks, then agreed by both
sides, then the one open order of its listing, then done, and never goes back; and the seller
gives up at most `MaxReleases` agreements. `Offers!deal` is the refinement mapping:
the rounds, the waiting list, expiries and withdrawals are stutters of it.

`Transport` is the transport job of one order: the choice of own truck or hire, bids of
truck owners, counters, acceptance, release, fees, preparation deadline, loading
report, movement and payout, and a job that is cancelled and asked for again. A bid
with its chain of counters is a thread (`status`, `by`, `rounds` of its leaf). Handlers
that hold the lock on the TransportJob row are a request that reads
and later writes, with the lock in between; those that read without a lock are the same
without it. Every fee is bound to the quote it was created for. Admin moves, truck
availability and contacts are left out. `LateSuccess` says whether the provider may report
success for a fee that was recorded FAILED: TRUE is what `paymentService` would accept, and
breaks `HireSpec` and `FeeBindsDriver` (see below), so the run and the theorems about the fee take it as FALSE.

`Hire` is the abstract promise of a transport: a driver is agreed, the fee is asked for
that driver and paid, the driver reports the loading, and only then does the truck move; nobody
else is hired while a fee is alive, and a paid driver is never replaced. `Transport!Hire` maps the
job to it: `driver` is `agreed`, `due` the bid of the one fee that is alive. `Hire!Stop` is
there because a sweep, or a first bid with an old reading, may take the job out of its way.

`Inspection` is the inspection of one order: bids, counters, selection, provisional
agreement, the seller's confirmation, check-in with its confirmation or dispute, the fee
(one share per payer), the visit, the report, its decision, payouts, releases and
the sweeps (expiry, stall, lapse, no-show, confirmation by timeout). Handlers that lock the
Order row and check again are one step; the others are a request in two. `Stale` is the set of
kinds of requests that may be overtaken between the two; one that is not in it
finishes before anything else happens. It makes the difference between what the code
guarantees whatever overlaps and what it guarantees only because an admin's or
the maintenance's request is short.

`Visit` is the abstract promise of an inspection about money: nothing is taken before an inspector
was on site, one who was there reports once every share is taken, what was taken is returned
only while nobody has reported, and after that each share is paid once, to the one who
reported. `Inspection!Visit` maps it: `visited` is `arrivals`, a `share` is a payer's fee.

In `Transport` and `Inspection`, an order is reduced to `OPEN`, `DISPUTED` and `CANCELLED`: `Escrow` models the rest of it.

`Services` puts together eight services that share no variable with the trade, and start apart from each other:

- `Standing`: the standing of one provider. Every call is a read (`StandingRead`) and an
  unconditional write, so several calls use what each read first; `tally` counts
  cancellations and suspensions, `late` marks a cancellation whose event is older than a
  suspension that happened while it was at work.
- `PriceReview`: proposals and counters about an order's price, their answers, the buyer's
  cancellation and the goods payment's amount; the partial unique index of the
  migration is part of `Added`.
- `Idempotency`: requests with one key; a handler that answers with an error is taken
  to have committed nothing, which holds for the handlers behind the middleware that use
  one transaction.
- `Outbox`: maintenance cycles under the advisory lock and the sending of queued SMS, with
  servers that stop (`MaxStops`) and locks that end before the jobs (`MaxOverlaps`).
- `Sessions`: families of refresh sessions, rotation by a conditional claim, revocation.
- `Bills`, used by `Digital` and `Ads`: payments that belong to no order, their checkouts, reports
  and refunds; on top of them a digital purchase with its retries, and a
  campaign with its review, cancellation and sweeps.
- `Books`, on `Bills` too: what a settlement enters in the ledger and pays out for goods, installments,
  services, products and campaigns, with the rate of commission of the day the payment was made, a dispute that
  holds the payout back, its replay, the cancellation, the refunds, and the sums that the reports make. An order is reduced to four
  statuses, and TRANSPORT and INSPECTOR fees are one kind, `SERVICE`. A refund that fails is not retried, the refunds
  of stalled inspections are left out, and so are a generic provider's REFUNDED reports.

Five of them have an abstract promise of their own, and an INSTANCE that maps them to it:

- `SingleEffect`, what a key promises to a client that repeats a request: one repetition at a time
  works, none once an answer is kept, and an effect is kept with its answer or the answer is lost.
  `acted` are the handlers that have committed and stored nothing yet. The promise is `void` once a handler has
  outlived its record.
- `Delivery`, for `Outbox`: a text is tried while it waits, one at a time, a recorded failure counts once, the last of
  the attempts gives the text up, and sent or given up is final. `trying` is the call to the gateway that no cycle has
  marked yet; `unrecorded` counts the deliveries nobody will mark. It is `void` once a lock was lost.
- `Chain`, for sessions: those that follow a login are a chain whose last link alone is good, until it is used
  to forge the next one or the chain is cut. `links` are the rows of a family, `last` the usable ones.
- `Agreement`, for `PriceReview`: one proposal waits at a time, an answer comes from the other party, once and to what
  was written, one price is agreed and it alone is paid. `proposal` is a row without its status, `asked` the
  order's final price.
- `Ledger`, for `Books`: a payment has one price, its entries are made at one moment and add up to it, its payee
  is owed what they say was earned, once, and nothing that was written changes. `due` is the payout.

`part`, chosen at the start, is the service that is at work; the others stay where they began.
A formula about one service is decided by that service alone (`Digital`, `Ads` and `Books` use the same
table of payments, one at a time), and the eight need no product of their state spaces.

`MCEscrow`, `MCInstallments`, `MCOffers`, `MCTransport`, `MCInspection` and `MCServices` give the
instances; `EscrowProofs`, `InstallmentsProofs`, `OffersProofs`, `TransportProofs`,
`InspectionProofs`, `StandingPriceProofs` and `ServicesProofs` the proofs, and `SumTheorems` the lemmas
about sums that the first two need. The systems are not composed in one module:
`Installments` has its own small order and payout, `Offers` ends where `Escrow` begins, with
an order in `PENDING_PAYMENT`, and `Transport` and `Inspection` see of the order only what
their handlers ask of it.

## What is checked

| Run | Question | Instance |
|---|---|---|
| `EscrowRace` | type correctness; no money twice; payouts wait for receipt; disputes freeze | one order, one payment, two settlements in flight, another provider's FAILED reports, two disputes |
| `EscrowRetry` | a sold order has its payout; no money twice; refinement of `Custody` | one order, two attempts, one settlement in flight, two disputes |
| `EscrowStock` | stock is not lost | two orders after each other on a listing of two, one payment, one dispute |
| `EscrowLive` | money the provider took is settled or flagged | one order, one payment, one settlement that may die at any point |
| `EscrowBackwards` | a violation: a late FAILED report takes PAID back, against `paymentStateMachine.js:3` | the smallest instance that shows it |
| `Installments` | types; the parts add up; payouts wait for the whole price; a refunded plan returned everything; refinement of `Plan` | two installments and one replaced, two requests in flight, offline confirmation of the parent |
| `InstallmentsLive` | a paid plan settles, although finalisations die and a dispute comes | two installments, one request, one dispute |
| `Offers` | agreement of both sides; no selection under an order; refinement of `Contract`, with one open order and the cap on releases | two buyers, three offers of which one has a window that ends, two requests, one release |
| `Transport` | one negotiation; a truck that moves is paid for; refinement of `Hire`: an active fee is the agreed driver's, and agreement, fee, report and departure have their order | two owners, two requests in flight, two threads, two fees, a job asked for again |
| `Inspection` | one agreement; work after arrival and payment; fee after arrival; an earned fee is kept; refinement of `Visit`, with the payouts to the reporter | two inspectors, two payers, two requests that overtake each other |
| `InspectionLive` | an agreement ends or becomes work | two inspectors, one payer, one request of any kind that may be overtaken or die |
| `Services` | penalties are earned; texts accounted for and settled; nothing unpaid is delivered; the books balance; refinement of `SingleEffect`, `Delivery`, `Chain`, `Agreement` and `Ledger` | two or three calls of each service, see below |

Bounds of `Escrow`. Two settlements are enough for every race between settlements of one
payment because the row lock lets at most one of them be past `SettleLock`, and
those before it hold only their first read. Two attempts are enough to have a
failed attempt with late reports next to a paid one. Two disputes allow a freeze,
a resume and another freeze. `MaxDisputes` is the only artificial counter.

Bounds of `Installments`. A price of 3 with a limit of 2 gives two installments of
unequal size, the smallest plan with a spare cent and with a last child. `Rows = 3` adds
one replacement; `Requests` of two let the two last children, or a child and a page,
settle together. The safety run has no dispute, `InstallmentsLive` has one.
`Confirmable = {0}`: an admin confirms the parent offline but not a child; see below
for what happens to a child's confirmation.

Bounds of `Offers`. Three rows are a bid and a counter of one buyer next to a bid of
another, or three bids; two requests are a reader and the one that makes its
reading old; one release makes the second release the one over the cap; one row whose
window ends (`DueRows`) is enough, as the rows are otherwise alike.

Bounds of `Transport`. Two owners, two threads and two requests are a driver, his
rival and a handler that overtakes another; one counter and one release make the second of each
the one over its cap; two jobs and two fees are a job, or a fee, replaced by another. The
sum of jobs, fees, requests at work and a cancelled order is at most four (`MCBudget`): two
requests overlap on the first job with one fee, and what comes later is explored with one
request at a time.

Bounds of `Inspection`. Two bids, two payers and two requests in the same sense. `Stale` holds
the requests of users and the settlements. `MCBudget`: two requests overlap before the first
counter, release or dispute; after one of those they come one at a time, interleaved with all
handlers that are one step. The theorems have no such bound. `InspectionLive` has every kind of request in
`Stale`, and one payer because the second only repeats the first one's checkout.

Bounds of `Services`. A suspension takes two strikes and there are three cancellations, one
tier with a timer and one without, two calls on the row; two proposals, two requests
and two prices; three repetitions of one request; one text, two cycles, one stop and one lost lock;
three sessions in two families and two refreshes; two payments of one product with one
settlement and two taps; one payment of a campaign with two calls; two payments in the books, one of any kind next to
one for goods, of an odd amount with a rate that rounds and one of zero, and one settlement. In each, two actors are
enough for one to overtake the other, and a third is there where what the first
two leave behind matters (a record, a session).

Deadlock checking is off everywhere: an order completed and paid out, a plan refunded, a listing
without requests and free rows, an order without inspection or transport left, and services whose
identifiers are used up are states in which the system, or the bounded model of it, really stops.

Fairness. `EscrowLive` assumes strong fairness of the settlement steps and of
the arrival of a Chapa notice: Chapa redelivers its webhook until it is
answered with 200 and the buyer's page keeps polling `verify`; a settlement
that waits for a row lock gets it because the holder's transaction times out. It
assumes nothing of users, admins or the maintenance timer. `InstallmentsLive`
assumes strong fairness of the order page (`GET /payments/order/:orderId` finalises
a plan it finds complete, and the page polls) and of the settlement it starts;
it assumes nothing of webhooks. Strong, because a dispute and other requests
disable these steps now and then.

`InspectionLive` assumes that the maintenance runs again and again and deadlines pass (a read
that finds its deadline over: strong fairness, since other requests disable it now and then), that a
transaction ends or times out, and that a sweep that fails is repeated until it does not; nothing of
bidders, payers, sellers or admins. `Services` assumes weak fairness of the steps of a
maintenance cycle of each server: its timer fires again and again, and calls to the gateway and
the database end.

Every property has a mutant: a change of one definition, of the kind an edit
could introduce, under which the run fails. They are listed in PROJECT.json.

## What is proved

`EscrowProofs` proves, for any number of orders, payments and settlements, any
quantities and any reports of other providers:

- `TypeCorrect`: `TypeOK`, together with `RequestsOK` (a request is in flight only
  for an order that exists).
- `MoneyCorrect`: the inductive invariant `MoneyOK`. Released money alone is not
  inductive: that no step takes the order away under a released payout needs
  `ReceiptOK` (a received order is completed, and completed is final),
  `DisputeOK` (a disputed order has a recorded dispute), and `CancelledOK` (a cancelled
  order has no payout on its way and a refund only exists on a cancelled order).
- `PayoutNeedsReceipt`, `DisputeFreezes`: the two safety properties, from `MoneyOK`.
- `SoldHasPayout`: sold goods always have a payout that can reach the seller; only a cancelled
  order has a cancelled payout, and the order a dispute took away comes back only with its payments replayed (`SoldOK`).
- `NoMoneyTwice`: under the assumption that no other provider reports REFUNDED.
  The assumption is needed: the generic webhook settles such a report without
  cancelling the payout.
- `EscrowImplementsCustody`: initial states map to initial states and each step
  to a step of `Custody` or to a stutter.
- `GoodsNeverLost`, for finitely many orders: what is on offer and what the standing orders hold are together
  never less than the listing's quantity. A step changes one order's term of the sum, and the
  listing gets at least what that order gives, or is full again; a cancellation that gives nothing back is
  one of an order that by `SoldOK` holds nothing.

`SumTheorems` is where sums become provable. The library's induction theorems take an
operator, so they cannot be used; instead a set that has a property for every subset
whose smaller subsets have it contains all subsets, because a counterexample of the least size
would contradict it (`SizeInduction`, from the well-foundedness of `<`). From that, the function by which
`SumFunctionOnSet` is defined exists (`SumDefined`), any element can be taken out of a sum
(`SumRemove`), and a sum changes by what one of its terms changes (`SumChange`).

`InstallmentsProofs`, for every price, limit, number of rows and requests:

- `CountBounds`, `PartsWithinLimit` and `InstallmentsWithinLimit`: the parts of a
  split and the children of a plan fit into one checkout.
- `InstallmentsTyped`: `TypeOK` with `ReturnOK` (a disputed order goes back to a status
  that can be disputed, and a retry in flight is about a child).
- `WholePriceHeld`: a payout needs as many paid children as the plan has, or an
  admin's confirmation of the whole price. The invariant is `MoneyOK`: PAID rows
  are recorded as events, events are never removed, and a settlement of the parent in
  flight was begun for a complete plan (`CompleteIsWhole`) or by an admin.
- `HoldsExcludeRefunds`, from `RefundOK`: refunds exist only for a cancelled order, which is
  final, and which holds nothing: a settlement reads the order again before it holds a payout.
  (`NoHoldWhileRefunding` is no property of the run, which has `PlanSpec` in its place.)
- `InstallmentsAddUp`: the live children add up to the price and each fits into a checkout. The parts of
  a split add up because the first `k` of them have `k` times the quotient and the cents handed out so
  far (`SplitAddsUp`); a replacement has the amount of the child it replaces, so the sum over the live ones stays.
- `RefundsAreComplete`: a plan closed as refunded returned every installment that was received. It
  needs the premise the property names, that admins confirm no child. The invariant says what a child's
  checkout tells about it (`ChildrenOK`), and that a plan once found complete has its installments fixed
  and paid, and a refund whose completion will close it has every other one returned (`PlanOK`).
- `InstallmentsImplementPlan`, under the same premise: initial states map to initial states and each
  step to a step of `Plan` or to a stutter. Besides the invariants above it
  needs `ParentOK`: a plan settles its parent once. At most one settlement that found the plan complete is
  in flight, and none after one has committed, so the seller's part is held once.

`OffersProofs`, for every number of buyers, offers and requests in flight:

- `SingleOrder`, `SelectionExcludesOrder`, `ReleasesCapped` from `LocksOK`: one request
  holds the lock, and what it read when it took it (no active order, a release left) still
  holds when it writes, since only lock holders make orders or count releases.
- `OrdersAreAgreed` from `AgreedOK`: a counter-offer is never a waiting or selected bid,
  its author never changes, and a request that accepts it or confirms it has seen
  the other side's turn or the agreement, neither of which is ever undone.
- `OffersTyped`: `TypeOK`.
- `OffersImplementContract`: each step is one of `Contract` or a stutter. A step that makes an
  order finds none open, because of the lock, and its row agreed, because of `AgreedOK`; an agreement is
  never undone, and an order that ended stays so. `SingleOrder` is still proved by itself.

`TransportProofs`, for every number of owners, threads, fees, jobs and requests in flight:

- `TransportTypedAndLocked`, `TransportTyped`: `TypeOK` with the ownership of the lock.
- `SingleNegotiation`: what a request read under the lock still holds when it writes, so
  nobody else is engaged with the requester.
- `TransportReleasesCapped`: both caps.
- `FeeKeepsDriver`, `DriversArePaid`, `ReportsAreDrivers`, under `~LateSuccess`: a fee that is active
  belongs to the agreed driver, because release and replacement ask for fees under
  the lock that creation takes, and a FAILED fee stays so.
- `TransportImplementsHire`, under `~LateSuccess`: each step is one of `Hire` or a stutter. `HireOK` adds that one
  fee is alive, that the report, also one that a request is about to write, is the agreed driver's,
  and that a truck that moves, or that a request is about to move, has one. (`FeeBindsDriver`, `ReportIsDrivers` and,
  below, `ReporterIsPaid` are proved by themselves; the runs have the refinements in their place.)

`InspectionProofs` has two layers:

- for every `Stale`: `InspectionTyped` and `WorkAfterVisit`; work starts in a handler that locks and checks
  again, and nothing that is overtaken can start it;
- if only users and settlements are overtaken (`Stale \subseteq` those kinds): `AgreementIsOne`, `FeeAfterArrival`,
  `ReportersArePaid`, `EarnedIsKept`, and `InspectionImplementsVisit`, each step being one of `Visit` or a stutter. The inductive invariant is `Main`: `Base` (quotes and
  agreement), `Core` (arrival, fee and payout), `Settles` (what a settlement in flight
  read about the inspector is still so), `Fresh` (what a request in flight read is
  older only in the ways listed) and `Alone` (a request that is not overtaken is alone).
  The assumption is needed: with the maintenance's `"stall"` in `Stale`,
  TLC finds `EarnedFeeKept` violated, see below.

`StandingPriceProofs` and `ServicesProofs` prove every safety property of `Services`, for the
services one by one and (`ServicesTyped`, `ServicesKeepPromises`, `DeliveriesWerePaid`, `ServicesImplement`) for `ServicesSpec`:

- `PenaltiesEarned`, for any number of calls with stale rows, any threshold and tiers: the strikes
  that count are cancellations that no suspension has used up, and every copy of a penalty that a call holds is
  bounded by what the events cost, a bound that only grows (`EarnedInv`).
- `PriceAgreedOnce`, for any number of buyers' and sellers' calls in flight: one proposal waits at a
  time, because of the partial unique index; after an agreement no answer in flight is about a waiting
  proposal; and a payment in the making carries a price that was agreed (`PriceInv`).
- `FamiliesAreChains`, for any number of tabs and rows: a session that is claimed is usable and locked
  by one refresh, so its rotation replaces the only usable one of its family (`ChainInv`).
- `RequestsRunOnce`, for any number of repetitions: as long as no handler has outlived its record, the request at work
  is the only one and works under the record, which is neither over nor completed, so a takeover finds nobody
  at work (`WorkOK`); every effect is stored, about to be stored, or lost (`EffectsOK`).
- `TextsAreCounted`, for any number of cycles, texts, stops and lost locks: attempts, also those in a cycle's
  old copy, never exceed the refusals (`MarksOK`); without overlaps the one cycle at work holds the lock, nobody
  else marks its texts, and a delivery is unmarked, about to be marked, or marked (`ApartOK`).
- `ProductsArePaid` and `CampaignsAreEarned`, for any number of payments and requests: a
  payment is PAID, or being returned, only after a settlement, and a request that goes on with a paid payment
  has seen one (`PaidOK`, `TapsOK`, `AdCallsOK`); nothing unsettles it.
- `BooksBalanced`, and `BooksAreBalanced` for `ServicesSpec`, for any payments, amounts and rates: the ledger of a payment is
  empty or what its settlement enters, whole as soon as it was settled and has somebody to earn it, and a payout is
  the net amount of such a payment (`FeeOK`). A settlement in flight that saw no provider settles a payment
  that has none (`SeenOK`), so what it leaves out is owed to nobody. The two sums of a report then agree
  term by term.

and that five of them implement their abstract specification, each step being one of it or a stutter:

- `IdempotencyIsSingleEffect`: a step after which the promise is void is one of the abstract specification whatever it does, and
  void it stays; before that, `WorkOK` says that whoever works does so under the record, so a handler that
  begins finds nobody at work and no answer. Deleting a record after an error loses no effect.
- `OutboxIsDelivery`: without overlaps the cycle at work is alone, so the call in flight is its call, and the attempts it
  read with its batch are still those of the row (`CopyOK`), so that the row's new value is one more.
- `SessionsAreChains`: a rotation that commits holds the only usable session of its family (`ClaimOK`), so it
  forges the next link; a revocation cuts the families whose usable session it writes.
- `PriceIsAgreement`: a row that was made never changes but for its status (`ProposalsStay`), a claimed row is the one that
  waits (`ClaimedFacts`), and a payment in the making carries the price that is asked. It also needs that whoever
  answers has not made the proposal (`OtherAnswers`), also when the answer was read much earlier.
- `BooksAreLedger`: entries that exist are those of the whole payment and a settlement writes nothing over them
  (`FeeOK`), a payout made later, at the end of a dispute, is what they say; that a payment has an amount from its creation
  on (`PricedOK`) tells an entry from none. `LedgerSpec` is about every step, where `BooksBalance` is about every state.

The runs check the refinements in the place of `OneRunAtATime`, `FamilyIsAChain`, `PriceIsAgreedOnce` and, in `Offers`,
`ReleasesWithinCap`, which follow from them and stay proved by themselves.

Only model-checked: the liveness properties `TakenMoneySettles`, `PaidPlanSettles`,
`AgreementEnds` and `TextsAreSettled`, because liveness under fairness and ENABLED are out of
the proof system's reach. Every other property of the passing runs is stated by a
theorem. No module uses a RECURSIVE operator; what recursion there is sits in the community
modules' sums, see `SumTheorems`.

## Observed and not carried by a run

- Two payouts for one order: a confirmation of a failed attempt that arrives
  during a dispute and a second paid attempt both get a hold when the dispute is
  dismissed.
- The buyer's cancellation checks `PENDING_PAYMENT` before its transaction; a
  settlement that commits in between leaves a paid order cancelled by its buyer.
- A settlement that read `DISPUTED` and commits after the dispute was dismissed is
  not replayed; the order waits for a payment it has.
- Resolving a dispute with CANCEL_SERVICE, and cancelling transport, after the
  service fee was paid calls a function `paymentService` does not export, so it throws.
- A refund in PROCESSING whose payment a late report moved away from REFUND_PENDING stays
  PROCESSING: `paymentRefundService.js:243` requires the payment's status.
- Two buyers can negotiate at once, although `waitingListService.js:8-10` says the list
  is locked while one does: the maintenance, having read an offer as SELECTED, expires it
  after its counter and promotes another buyer, while the counter's child lives on;
  a counter that read its parent before the parent ended creates a live child;
  and a promotion does not look for a negotiation.
- A counter in flight overwrites a PROVISIONAL or ended parent (`counter.js:110`,
  `reCounter.js:99`), although `offerHelpers.js:95-97` says a stale parent can never be
  acted on: an agreement can be lost that way. No order comes of it (`BothAgreed`).
- A promoted bid can become an order without the seller having chosen its
  buyer: the buyer accepts it (ACCEPT_SELECTED) and confirms it; only
  `minAcceptablePrice` protects the seller.
- An order cancelled after its payment or its dispute leaves its offer
  ACCEPTED: the buyer cannot bid on the listing again, and an admin cannot reopen
  the bidding.
- An admin who confirms an installment whose checkout is being opened is overwritten by
  that checkout's FAILED report; `RefundedPlanReturnedAll` names the premise.
- A plan whose parent an admin confirmed offline is not refunded by a
  cancellation: the parent stays REFUND_PENDING.
- `middleware/offers.js` is an older copy of the offer handlers that nothing requires.
- Cancelling an order that was disputed while `PENDING_PAYMENT` gives back stock it never took
  (`orderCancellationService.js:164`, `inventoryService.js:145`).
- Two refunds of one plan that complete together each see the other unfinished and leave the
  parent REFUND_PENDING (`paymentRefundService.js:288`).
- `confirm-receipt` asks about a dispute only before its transaction and a disputed order may
  become COMPLETED, so a payout is released under an open dispute (`orderLifecycle.js:358`,
  against `payoutService.js:36`); that dispute can then not be resolved.
- An installment whose checkout is open when its order is cancelled settles PAID and is not refunded
  (`orderCancellationService.js:273`, against `:255`).
- `markPaidOut` (`payoutService.js:421`) updates a payout it read without a lock.

Transport:

- A fee recorded FAILED and later reported paid, after its driver was replaced, becomes PAID
  (`paymentService.js:1560`), although `P0_TRANSPORT_PAYMENT_QUOTE_BINDING.md:19` says a later quote
  cannot replace the terms of a payment: `LateSuccess = TRUE` shows it.
- The foreign key of a fee to its quote restricts deletion, so a hired job that ever had a fee
  cannot be asked for again.
- The preparation deadline cancels a paid job without a refund; a settlement refused with
  409 leaves money taken and unrecorded.
- A first bid, or a PATCH to QUOTED, from a stale read overwrites ACCEPTED and wedges the job; the
  unconditional write of a withdrawal can turn an accepted quote WITHDRAWN; the status route can
  cancel after pickup from a stale read, against `P1B_TRANSPORT_STATE_MACHINE.md`.
- An own truck's job reaches PICKUP only by an admin. An admin who moves an own-truck job to PICKUP from
  a stale read, and a hire after it, break `DriverPaid`; that is why admin moves are left out.
- Coordination is not closed by a cancellation, the preparation deadline, CANCEL_SERVICE or a new
  request, against `coordinationService.js:16-17`. `expireTransportWorkflows` is dead code.

Inspection:

- The stall sweep (`maintenanceService.js:201`) writes STALLED from a stale read over COMPLETED, and a cancellation of
  the order then refunds a fee that was earned, against `orderCancellationService.js:207`.
- A checkout that was created for one inspector, and asks only for the seller's confirmation when it
  opens, can be paid before the next inspector's visit; it is held for the first and released when
  another inspector reports. This needs a stale creation, which `Stale` of the run leaves out.
- The no-show sweep resets from a stale row, unconditionally (`inspectionArrivalService.js:560`); a second check-in overwrites
  CONFIRMED, and its dispute can end as a no-show of a paid visit.
- A silent release does not look at the status again and can withdraw an accepted quote while the
  request stays ACCEPTED.
- A payment created while the request is cancelled stays payable; its settlement is refused, or recorded without
  payout or refund. Lapses ignore PENDING fees. An abandoned checkout keeps an agreement open
  for ever, which `AgreementEnds` therefore names as an exception.
- A STALLED request keeps its ACCEPTED quote, so reopening the bidding refuses; two inspections can be
  created for one order; `coordinationDueAt` is never set.
- A settlement that read DISPUTED and commits after the dismissal creates no payout; CANCEL_ORDER of a dispute about
  the report leaves the earned payout frozen; cancelling a paid inspection calls the same
  missing function as the service fee's.

Services:

- Standing: a sweep, gate or rejoin with a stale row can end a suspension that is new or without end, against
  `providerStandingService.js:14`; penalty points are lost by absolute writes; an event recorded before a
  concurrent suspension counts for nothing. `releaseLimitsService.js` still says there is no automatic penalty.
- Price reviews: the schema has no `expiresAt`, so a proposal to cancel always fails, and the 24 hours of
  `orderPriceReviews.js:51-53` never run out; a counter accepts that reason, though. The BUY branch of the
  buyer's decision is dead. A stale acceptance can set BUY on a cancelled order, and
  a payment can be created for it.
- Idempotency: a handler slower than ten minutes runs next to the one that took its record over, and may delete that one's record.
- Maintenance: nested transactions are not savepoints, as a comment says, because jobs use the global client;
  the lock is lost after 120 s or when one job throws; two cycles then send a text twice,
  and write SENT and FAILED over each other.
- Digital goods: a retry while the previous payment is PROCESSING rebinds the purchase, and
  the earlier payment then settles PAID and gives nothing (against the comment at `digital.js:315`); a tap
  with a stale read resets COMPLETED to PENDING; a refund never reaches the purchase.
- Books: the refunds the program makes itself enter nothing in the ledger (`finalizeRefund`), although
  `installmentService.js:273-275` says that each refunded child carries a REFUND entry; only a generic provider's report
  of REFUNDED writes one. `/commissions/stats` takes its total from the ledger and its figures for each kind from
  PAID payments, against the comment `admin.js:636-642`; after a refund they differ, which is why
  `SourcesAgree` asks that what was settled is still PAID. The volume of all kinds counts a settled plan and its installments, and a campaign's
  commission is in its payment but not in the ledger; `SourcesAgree` is about one kind, and not campaigns. A
  digital seller gets an earning and no payout; a fee of an order can be refunded only once the order is cancelled.
- Ads: a second or late settlement puts a campaign that was approved, cancelled or rejected back to
  its status after payment (against `payments.js:762`); a cancellation from a stale read may
  mark a PAID payment FAILED.

## Not modelled

- The web client (a third of the code) shows rows and sends requests. What it keeps is on the
  screen, and every request is checked again by the server.
- Lists, dashboards and searches of the admin, listing and user routes change nothing.
- `orderWorkflowService.js` computes stage, timeline and actions of an order from its rows, for display; no handler
  asks it before it writes.
- Growth, ratings, notices, creatives of campaigns and profiles are rows written by one statement.
- The seller's edit of a listing: it writes an absolute `availableQuantity` from an older
  read (`listings.js:1471`), a lost update next to any order; the listing is constant in `Escrow`.
- Passwords, MFA, uploads, and the wire formats of Chapa, SMS and Telegram.
- `middleware/offers.js`, which nothing requires.
- Evidence, contacts, coordination details and delays of transport and inspection: what decides
  about them is in the actions, the rows themselves are not.

So the share of lines that the modules stand for stays near a sixth of all lines: most of the others
render pages, validate input, or select rows for a list.

## Plan

1. Done: `Escrow`, `Custody`, `Installments`, `Offers`, `Transport`, `Inspection` and their proofs;
   the services beside the trade and theirs.
2. In `Escrow`: the seller's edit of the quantity, generic REFUNDED reports beyond the
   assumption of `NoMoneyTwice`.
3. Composition: the goods payment waits for the inspection's report and the transport's choice; in
   `Escrow` and `PriceReview` that is a guard of the payment. A module that has `Inspection` and
   `PriceReview` around one order would show that nothing is paid for at a price agreed
   before the report.
4. Abstract specifications of the rest of `Services`: `Standing`, `Digital` and `Ads` are proved by their
   invariants only. An effect of `SingleEffect` could be the creation of a payment, which would join
   `Idempotency` to `Escrow`.

There is one run for each question; a new question about a service takes the place of a
weaker one of `Services` rather than a run of its own.
