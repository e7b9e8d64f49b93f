------------------------------ MODULE Inspection ------------------------------
(***************************************************************************)
(* The inspection of one order: bids of inspectors, the negotiation, the   *)
(* provisional agreement, the seller's confirmation, the inspector's       *)
(* arrival, the fee and its payout, the visit, the report, and the lapses. *)
(*                                                                         *)
(* A bid with its counters is one thread and stands for its inspector: one *)
(* who bids again is another element of Bids.  Handlers that lock the      *)
(* Order row and check again what they write about are one step.  The      *)
(* others are a request: what they read, and later what they write.        *)
(* Stale is the set of those that can be overtaken in between; the rest    *)
(* finish before anything else happens.  Windows of time may have ended or *)
(* not.  A cancelled request is final: the order's next one is a new row.  *)
(* Coordination details, evidence and an inspector's standing are left out.*)
(***************************************************************************)
EXTENDS Naturals, FiniteSets

CONSTANTS
    Bids,          \* threads of bids
    Payers,        \* who pays a share of the fee: buyer, seller or both
    Requests,      \* requests that may be in flight together
    MaxRounds,     \* MAX_COUNTER_ROUNDS
    MaxReleases,   \* MAX_ACCEPTED_RELEASES_PER_JOB and the overrides
    Stale,         \* the kinds of requests that can be overtaken
    None

Steps == {"select", "withdraw", "release", "decline", "check in", "cancel",
          "reopen", "recover", "pay", "settle", "settle disputed",
          "no show", "ruled", "lapse", "expire", "stall"}

ASSUME InspectionAssumption ==
    /\ MaxRounds \in Nat
    /\ MaxReleases \in Nat
    /\ Stale \subseteq Steps
    /\ None \notin Bids
    /\ None \notin Payers
    /\ Payers # {}

VARIABLES
    order,       \* order.status, as far as handlers of inspections tell it apart
    inspection,  \* inspectionRequest.status
    agreed,      \* inspectorId and fee: the bid they are from
    confirmed,   \* sellerConfirmedAt is set
    onSite,      \* inspectorOnSiteConfirmedAt is set
    arrival,     \* the inspectionArrival row: whose, and its status
    report,      \* the bid whose inspector reported
    accepted,    \* reportAcceptedAt is set
    status,      \* quote.status of the leaf
    by,          \* counteredBy of the leaf
    rounds,      \* counters so far
    released,    \* releases by the requester: of agreements, of silent bidders
    arrivals,    \* the bids for which InspectorReliability counted an arrival
    noShows,     \* and those for which it counted a no-show
    fee,         \* payment.status of a payer's latest attempt
    payout,      \* the payout of that payment, and its payee
    disputed,    \* the kind of the open dispute
    request      \* requests: step, subject, what was read

agreementVars == <<inspection, agreed, confirmed, onSite>>
bidVars == <<status, by, rounds, released>>
visitVars == <<arrival, report, accepted, arrivals, noShows>>
moneyVars == <<fee, payout>>
orderVars == <<order, disputed>>
vars == <<agreementVars, bidVars, visitVars, moneyVars, orderVars, request>>

InspectionStatus == {"REQUESTED", "ACCEPTED", "IN_PROGRESS", "COMPLETED", "STALLED", "CANCELLED"}
Negotiating == {"SELECTED", "COUNTERED"}
Live == {"PENDING", "ACCEPTED"} \cup Negotiating

\* ENDED is REJECTED or EXPIRED.
QuoteStatus == {"NONE", "WITHDRAWN", "ENDED"} \cup Live

\* CONFIRMED is also AUTO_CONFIRMED and RESOLVED_ARRIVED.
ArrivalStatus == {"NONE", "PENDING_SELLER", "DISPUTED", "CONFIRMED", "NO_SHOW"}

\* PENDING before and CHECKOUT after the checkout was opened; NONE also after a
\* failure.
Active == {"PENDING", "CHECKOUT", "PAID"}
PayoutStatus == {"NONE", "HELD", "ON_HOLD_DISPUTE", "RELEASED", "PAID_OUT", "CANCELLED"}
Releases == {"agreement", "silent"}
DisputeKinds == {"inspection", "unclassified", "other"}

Idle == [at |-> "idle", on |-> None, saw |-> None, round |-> 0]

TypeOK ==
    /\ order \in {"OPEN", "DISPUTED", "CANCELLED"}
    /\ inspection \in InspectionStatus
    /\ agreed \in Bids \cup {None}
    /\ confirmed \in BOOLEAN /\ onSite \in BOOLEAN /\ accepted \in BOOLEAN
    /\ arrival \in [of : Bids \cup {None}, st : ArrivalStatus]
    /\ report \in Bids \cup {None}
    /\ status \in [Bids -> QuoteStatus]
    /\ by \in [Bids -> {"REQUESTER", "PROVIDER"}]
    /\ rounds \in [Bids -> 0 .. MaxRounds]
    /\ released \in [Releases -> 0 .. MaxReleases]
    /\ arrivals \subseteq Bids
    /\ noShows \subseteq Bids
    /\ fee \in [Payers -> Active \cup {"NONE", "REFUNDED"}]
    /\ payout \in [Payers -> [st : PayoutStatus, to : Bids \cup {None}]]
    /\ disputed \in DisputeKinds
    /\ request \in [Requests -> [at : Steps \cup {"idle"},
                                 on : Bids \cup Payers \cup {None},
                                 saw : Bids \cup {None},
                                 round : 0 .. MaxRounds]]

Init ==
    /\ order = "OPEN" /\ disputed = "other"
    /\ inspection = "REQUESTED"
    /\ agreed = None
    /\ confirmed = FALSE /\ onSite = FALSE
    /\ arrival = [of |-> None, st |-> "NONE"]
    /\ report = None /\ accepted = FALSE
    /\ arrivals = {} /\ noShows = {}
    /\ status = [b \in Bids |-> "NONE"]
    /\ by = [b \in Bids |-> "PROVIDER"]
    /\ rounds = [b \in Bids |-> 0]
    /\ released = [r \in Releases |-> 0]
    /\ fee = [p \in Payers |-> "NONE"]
    /\ payout = [p \in Payers |-> [st |-> "NONE", to |-> None]]
    /\ request = [n \in Requests |-> Idle]

-----------------------------------------------------------------------------
(* Requests *)

at(n, step) == request[n].at = step
on(n) == request[n].on
saw(n) == request[n].saw
begin(n, step, x) ==
    /\ at(n, "idle")
    /\ request' = [request EXCEPT ![n] = [at |-> step, on |-> x, saw |-> agreed,
                                          round |-> IF x \in Bids THEN rounds[x] ELSE 0]]
    /\ UNCHANGED <<agreementVars, bidVars, visitVars, moneyVars, orderVars>>
leave(n) == request' = [request EXCEPT ![n] = Idle]

\* A request is refused on its second look, or its transaction dies.
RequestEnds(n) ==
    /\ ~at(n, "idle")
    /\ leave(n)
    /\ UNCHANGED <<agreementVars, bidVars, visitVars, moneyVars, orderVars>>

\* lockOrderAndAssertNotClosed.
orderOpen == order = "OPEN"

activeFee == \E p \in Payers : fee[p] \in Active
somePaid == \E p \in Payers : fee[p] = "PAID"
feePaid == \A p \in Payers : fee[p] = "PAID"
competing(b) == \E c \in Bids \ {b} : status[c] \in Negotiating
ended(from) == [b \in Bids |-> IF status[b] \in from THEN "ENDED" ELSE status[b]]

\* The row that was read is still the leaf of its thread.
sameLeaf(n) == rounds[on(n)] = request[n].round
writeLeaf(n, new) ==
    status' = [status EXCEPT ![on(n)] = IF sameLeaf(n) THEN new ELSE @]

\* The agreement is undone and bidding is open again.
reopened ==
    /\ inspection' = "REQUESTED"
    /\ agreed' = None
    /\ confirmed' = FALSE
    /\ onSite' = FALSE

-----------------------------------------------------------------------------
(* Bids and negotiation *)

createQuote(b) ==
    /\ orderOpen
    /\ inspection \notin {"COMPLETED", "CANCELLED"}
    /\ status[b] = "NONE"
    /\ status' = [status EXCEPT ![b] = "PENDING"]
    /\ UNCHANGED <<agreementVars, by, rounds, released, visitVars, moneyVars, orderVars, request>>

\* Selecting and withdrawing a bid read again, but lock nothing.
AskSelect(n, b) ==
    /\ orderOpen
    /\ inspection = "REQUESTED"
    /\ status[b] = "PENDING"
    /\ ~competing(b)
    /\ begin(n, "select", b)

selectQuote(n) ==
    /\ at(n, "select")
    /\ writeLeaf(n, "SELECTED")
    /\ leave(n)
    /\ UNCHANGED <<agreementVars, by, rounds, released, visitVars, moneyVars, orderVars>>

AskWithdrawBid(n, b) ==
    /\ order # "CANCELLED" /\ order # "DISPUTED"
    /\ status[b] = "PENDING"
    /\ begin(n, "withdraw", b)

withdrawBid(n) ==
    /\ at(n, "withdraw")
    /\ writeLeaf(n, "WITHDRAWN")
    /\ leave(n)
    /\ UNCHANGED <<agreementVars, by, rounds, released, visitVars, moneyVars, orderVars>>

\* The agreement is claimed only if there is none: other negotiations go on.
claimableAgain == inspection \in {"REQUESTED", "ACCEPTED"}
claimable == inspection = "REQUESTED" /\ agreed = None

acceptQuote(b) ==
    /\ orderOpen
    /\ status[b] \in Negotiating
    /\ claimable
    /\ status' = [status EXCEPT ![b] = "ACCEPTED"]
    /\ inspection' = "ACCEPTED"
    /\ agreed' = b
    /\ confirmed' = FALSE
    /\ UNCHANGED <<onSite, by, rounds, released, visitVars, moneyVars, orderVars, request>>

counterQuote(b) ==
    /\ orderOpen
    /\ inspection = "REQUESTED"
    /\ status[b] \in Negotiating
    /\ ~competing(b)
    /\ rounds[b] < MaxRounds
    /\ status' = [status EXCEPT ![b] = "COUNTERED"]
    /\ by' = [by EXCEPT ![b] = IF @ = "REQUESTER" THEN "PROVIDER" ELSE "REQUESTER"]
    /\ rounds' = [rounds EXCEPT ![b] = @ + 1]
    /\ UNCHANGED <<agreementVars, released, visitVars, moneyVars, orderVars, request>>

rejectQuote(b) ==
    /\ orderOpen
    /\ status[b] \in Negotiating
    /\ status' = [status EXCEPT ![b] = "ENDED"]
    /\ UNCHANGED <<agreementVars, by, rounds, released, visitVars, moneyVars, orderVars, request>>

-----------------------------------------------------------------------------
(* Release *)

releaseAlways(kind) == TRUE
releaseAllowed(kind) == released[kind] < MaxReleases
counted(kind) == released' = [released EXCEPT ![kind] = @ + 1]

\* The requester, who is counted, or the provider gives up the agreement.
releasable(b) ==
    /\ orderOpen
    /\ ~activeFee
    /\ status[b] = "ACCEPTED"
    /\ inspection = "ACCEPTED" /\ agreed = b

releaseAgreement(b) ==
    /\ releasable(b)
    /\ \/ releaseAllowed("agreement") /\ counted("agreement")
       \/ UNCHANGED released
    /\ status' = [status EXCEPT ![b] = "WITHDRAWN"]
    /\ reopened
    /\ UNCHANGED <<by, rounds, visitVars, moneyVars, orderVars, request>>

\* The release of a bidder who owes the answer does not look at the status of
\* the bid again.
AskReleaseSilent(n, b) ==
    /\ orderOpen
    /\ \/ status[b] = "SELECTED"
       \/ status[b] = "COUNTERED" /\ by[b] = "REQUESTER"
    /\ begin(n, "release", b)

releaseSilent(n) ==
    /\ at(n, "release")
    /\ orderOpen
    /\ ~activeFee
    /\ sameLeaf(n)
    /\ releaseAllowed("silent")
    /\ counted("silent")
    /\ writeLeaf(n, "WITHDRAWN")
    /\ leave(n)
    /\ UNCHANGED <<agreementVars, by, rounds, visitVars, moneyVars, orderVars>>

-----------------------------------------------------------------------------
(* The agreement *)

\* seller-confirm: read before the order is locked, written if still so.
sellerConfirm ==
    /\ orderOpen
    /\ inspection = "ACCEPTED"
    /\ agreed # None
    /\ ~confirmed /\ ~onSite
    /\ confirmed' = TRUE
    /\ UNCHANGED <<inspection, agreed, onSite, bidVars, visitVars, moneyVars, orderVars, request>>

moneyMoved == \E p \in Payers : fee[p] \in {"CHECKOUT", "PAID"}

\* lapseInspectionAgreement.  It also cancels an order nothing was paid for,
\* unless the buyer has decided on it.
lapsed ==
    /\ inspection' = "CANCELLED"
    /\ status' = ended(Live)
    /\ order' \in IF orderOpen THEN {order, "CANCELLED"} ELSE {order}
    /\ UNCHANGED <<agreed, confirmed, onSite, by, rounds, released, visitVars, moneyVars, disputed>>

\* seller-decline: the confirmation is read before the order is locked.
AskDecline(n) ==
    /\ inspection = "ACCEPTED"
    /\ ~confirmed
    /\ begin(n, "decline", None)

sellerDecline(n) ==
    /\ at(n, "decline")
    /\ orderOpen
    /\ inspection = "ACCEPTED"
    /\ ~moneyMoved
    /\ lapsed
    /\ leave(n)

\* A participant cancels; with a paid fee the refund, and so all of it, fails.
AskCancel(n) ==
    /\ inspection \notin {"CANCELLED", "COMPLETED", "IN_PROGRESS"}
    /\ \A p \in Payers : fee[p] \notin {"PENDING", "CHECKOUT"}
    /\ begin(n, "cancel", None)

cancelRequest(n) ==
    /\ at(n, "cancel")
    /\ orderOpen
    /\ inspection \notin {"COMPLETED", "IN_PROGRESS"}
    /\ ~somePaid
    /\ inspection' = "CANCELLED"
    /\ agreed' = None
    /\ status' = ended({"PENDING"} \cup Negotiating)
    /\ leave(n)
    /\ UNCHANGED <<confirmed, onSite, by, rounds, released, visitVars, moneyVars, orderVars>>

\* An admin asks for new bids, when none is alive, or approves a recovery,
\* which ends the bids of the agreed inspector and reads without a lock.
reopenable == inspection \in {"REQUESTED", "ACCEPTED", "STALLED"}

AskReopen(n) == reopenable /\ ~activeFee /\ begin(n, "reopen", None)

reopenBidding(n) ==
    /\ at(n, "reopen")
    /\ orderOpen
    /\ reopenable
    /\ \A b \in Bids : status[b] \notin Live
    /\ reopened
    /\ leave(n)
    /\ UNCHANGED <<bidVars, visitVars, moneyVars, orderVars>>

AskRecover(n) ==
    /\ reopenable
    /\ ~activeFee
    /\ order # "CANCELLED"
    /\ agreed # None
    /\ begin(n, "recover", agreed)

recover(n) ==
    /\ at(n, "recover")
    /\ status' = [status EXCEPT ![on(n)] = IF @ \in Live THEN "ENDED" ELSE @]
    /\ reopened
    /\ leave(n)
    /\ UNCHANGED <<by, rounds, released, visitVars, moneyVars, orderVars>>

-----------------------------------------------------------------------------
(* Arrival *)

awaitingArrival == inspection = "ACCEPTED" /\ agreed # None /\ confirmed /\ ~onSite
currentArrival == arrival.of = agreed /\ agreed # None
arrivalOpen == currentArrival /\ arrival.st \in {"PENDING_SELLER", "DISPUTED"}
applies(b) == awaitingArrival /\ agreed = b

\* applyArrivalConfirmed: nothing happens if the request moved on.
applyArrival(b) ==
    IF applies(b)
    THEN onSite' = TRUE /\ arrivals' = arrivals \cup {b}
    ELSE UNCHANGED <<onSite, arrivals>>

\* The inspector checks in, with the seller's code or without.  The arrival row
\* is written whatever it has become since it was read.
AskCheckIn(n) ==
    /\ awaitingArrival
    /\ currentArrival => arrival.st \notin {"PENDING_SELLER", "DISPUTED", "NO_SHOW"}
    /\ begin(n, "check in", agreed)

checkIn(n) ==
    /\ at(n, "check in")
    /\ orderOpen
    /\ \/ arrival' = [of |-> on(n), st |-> "CONFIRMED"] /\ applyArrival(on(n))
       \/ arrival' = [of |-> on(n), st |-> "PENDING_SELLER"] /\ UNCHANGED <<onSite, arrivals>>
    /\ leave(n)
    /\ UNCHANGED <<inspection, agreed, confirmed, bidVars, report, accepted, noShows,
                   moneyVars, orderVars>>

answerArrival(st) ==
    /\ arrival' = [arrival EXCEPT !.st = st]
    /\ UNCHANGED <<inspection, agreed, confirmed, bidVars, report, accepted, noShows,
                   moneyVars, orderVars, request>>

\* The seller confirms it or disputes it; an admin decides the dispute.
sellerConfirmArrival ==
    /\ orderOpen
    /\ currentArrival /\ arrival.st = "PENDING_SELLER"
    /\ applies(agreed)
    /\ applyArrival(agreed)
    /\ answerArrival("CONFIRMED")

sellerDispute ==
    /\ orderOpen
    /\ currentArrival /\ arrival.st = "PENDING_SELLER"
    /\ answerArrival("DISPUTED")
    /\ UNCHANGED <<onSite, arrivals>>

adminArrived ==
    /\ orderOpen
    /\ currentArrival /\ arrival.st = "DISPUTED"
    /\ applies(agreed)
    /\ applyArrival(agreed)
    /\ answerArrival("CONFIRMED")

\* The maintenance answers for a silent seller, whatever the order's status.
autoConfirmArrival ==
    /\ currentArrival /\ arrival.st = "PENDING_SELLER"
    /\ applyArrival(agreed)
    /\ answerArrival("CONFIRMED")

\* reopenAfterNoShow: unconditional.
noShow(b) ==
    /\ status' = [status EXCEPT ![b] = IF @ \in Live THEN "WITHDRAWN" ELSE @]
    /\ reopened
    /\ noShows' = noShows \cup {b}
    /\ UNCHANGED <<by, rounds, released, report, accepted, arrivals, moneyVars, orderVars>>

AskRuleNoShow(n) ==
    /\ currentArrival /\ arrival.st = "DISPUTED"
    /\ begin(n, "ruled", agreed)

adminNoShow(n) ==
    /\ at(n, "ruled")
    /\ orderOpen
    /\ arrival.st = "DISPUTED"
    /\ arrival' = [arrival EXCEPT !.st = "NO_SHOW"]
    /\ noShow(on(n))
    /\ leave(n)

missed == awaitingArrival /\ ~arrivalOpen

ReadMissedArrival(n) == missed /\ begin(n, "no show", agreed)

lapseMissedArrival(n) ==
    /\ at(n, "no show")
    /\ noShow(on(n))
    /\ leave(n)
    /\ UNCHANGED arrival

-----------------------------------------------------------------------------
(* The fee *)

\* Created for an inspector who is confirmed on site; the row is written later.
payableBeforeVisit == confirmed
payable == confirmed /\ onSite

AskPay(n, p) ==
    /\ orderOpen
    /\ inspection = "ACCEPTED"
    /\ payable
    /\ fee[p] = "NONE"
    /\ begin(n, "pay", p)

createPayment(n) ==
    LET p == on(n) IN
    /\ at(n, "pay")
    /\ fee[p] = "NONE"
    /\ fee' = [fee EXCEPT ![p] = "PENDING"]
    /\ leave(n)
    /\ UNCHANGED <<agreementVars, bidVars, visitVars, payout, orderVars>>

\* The checkout asks for the seller's confirmation only, not for the arrival and
\* not for the order.
initializePayment(p) ==
    /\ fee[p] = "PENDING"
    /\ inspection = "ACCEPTED" /\ confirmed
    /\ fee' = [fee EXCEPT ![p] = "CHECKOUT"]
    /\ UNCHANGED <<agreementVars, bidVars, visitVars, payout, orderVars, request>>

\* The provider answers once.
FeeFails(p) ==
    /\ fee[p] \in {"PENDING", "CHECKOUT"}
    /\ \A n \in Requests : request[n].at \in {"settle", "settle disputed"} => on(n) # p
    /\ fee' = [fee EXCEPT ![p] = "NONE"]
    /\ UNCHANGED <<agreementVars, bidVars, visitVars, payout, orderVars, request>>

AskSettle(n, p) ==
    /\ fee[p] = "CHECKOUT"
    /\ begin(n, IF order = "DISPUTED" THEN "settle disputed" ELSE "settle", p)

\* Taken during a dispute, or when nobody was assigned: only recorded.
settleRecorded(n) ==
    LET p == on(n) IN
    /\ at(n, "settle disputed") \/ (at(n, "settle") /\ saw(n) = None)
    /\ fee[p] = "CHECKOUT"
    /\ fee' = [fee EXCEPT ![p] = "PAID"]
    /\ leave(n)
    /\ UNCHANGED <<agreementVars, bidVars, visitVars, payout, orderVars>>

committable == inspection \in {"REQUESTED", "ACCEPTED"}
payee(n) == saw(n)

\* The payout is held for the inspector of the first read.
settleFee(n) ==
    LET p == on(n) IN
    /\ at(n, "settle") /\ saw(n) # None
    /\ fee[p] = "CHECKOUT"
    /\ committable
    /\ fee' = [fee EXCEPT ![p] = "PAID"]
    /\ payout' = [payout EXCEPT ![p] = [st |-> "HELD", to |-> payee(n)]]
    /\ inspection' = "ACCEPTED"
    /\ leave(n)
    /\ UNCHANGED <<agreed, confirmed, onSite, bidVars, visitVars, orderVars>>

-----------------------------------------------------------------------------
(* The visit *)

startInspection ==
    /\ orderOpen
    /\ inspection = "ACCEPTED" /\ agreed # None
    /\ confirmed /\ onSite
    /\ feePaid
    /\ inspection' = "IN_PROGRESS"
    /\ UNCHANGED <<agreed, confirmed, onSite, bidVars, visitVars, moneyVars, orderVars, request>>

\* The report completes the inspection and releases the waiting bidders, if
\* that does not fail.
submitReport ==
    /\ orderOpen
    /\ inspection = "IN_PROGRESS" /\ agreed # None
    /\ confirmed /\ onSite
    /\ feePaid
    /\ report = None
    /\ report' = agreed
    /\ inspection' = "COMPLETED"
    /\ \/ UNCHANGED status
       \/ status' = [b \in Bids |-> IF status[b] = "PENDING" THEN "WITHDRAWN" ELSE status[b]]
    /\ UNCHANGED <<agreed, confirmed, onSite, by, rounds, released, arrival, accepted,
                   arrivals, noShows, moneyVars, orderVars, request>>

moved(from, to) ==
    payout' = [p \in Payers |-> IF payout[p].st \in from THEN [payout[p] EXCEPT !.st = to]
                                ELSE payout[p]]

\* The buyer accepts the report, and the fee is released; or the window for
\* that ends.
acceptReport ==
    /\ inspection = "COMPLETED" /\ report # None
    /\ ~accepted
    /\ accepted' = TRUE
    /\ moved({"HELD"}, "RELEASED")
    /\ UNCHANGED <<agreementVars, bidVars, arrival, report, arrivals, noShows, fee,
                   orderVars, request>>

dueOnceStarted == inspection \in {"IN_PROGRESS", "COMPLETED"}
due == inspection = "COMPLETED"

releaseDuePayout(p) ==
    /\ payout[p].st = "HELD"
    /\ due
    /\ payout' = [payout EXCEPT ![p].st = "RELEASED"]
    /\ UNCHANGED <<agreementVars, bidVars, visitVars, fee, orderVars, request>>

markPaidOut(p) ==
    /\ payout[p].st = "RELEASED"
    /\ payout' = [payout EXCEPT ![p].st = "PAID_OUT"]
    /\ UNCHANGED <<agreementVars, bidVars, visitVars, fee, orderVars, request>>

-----------------------------------------------------------------------------
(* Deadlines *)

\* An agreement the seller did not confirm, or whose fee was not paid.
confirmedWindow == confirmed
arrivalWindow == confirmed /\ ~onSite

ReadLapse(n) ==
    /\ inspection = "ACCEPTED"
    /\ ~arrivalWindow
    /\ ~moneyMoved
    /\ begin(n, "lapse", None)

expireAgreement(n) ==
    /\ at(n, "lapse")
    /\ lapsed
    /\ leave(n)

\* A part of the fee is paid and none is being paid, or the visit did not start
\* or end in time.
partlyPaid == somePaid /\ \A p \in Payers : fee[p] # "CHECKOUT"

ReadStalled(n) ==
    /\ \/ inspection = "ACCEPTED" /\ (feePaid \/ (partlyPaid /\ ~arrivalWindow))
       \/ inspection = "IN_PROGRESS"
    /\ begin(n, "stall", None)

stall(n) ==
    /\ at(n, "stall")
    /\ inspection' = "STALLED"
    /\ leave(n)
    /\ UNCHANGED <<agreed, confirmed, onSite, bidVars, visitVars, moneyVars, orderVars>>

ReadExpired(n) == inspection = "REQUESTED" /\ begin(n, "expire", None)

expireRequest(n) ==
    /\ at(n, "expire")
    /\ inspection' = "CANCELLED"
    /\ status' = ended({"PENDING"} \cup Negotiating)
    /\ leave(n)
    /\ UNCHANGED <<agreed, confirmed, onSite, by, rounds, released, visitVars, moneyVars,
                   orderVars>>

-----------------------------------------------------------------------------
(* The order *)

earnedOnceAccepted == accepted
earned == inspection = "COMPLETED"

\* A dispute about the inspection freezes the fee, an unclassified one only
\* while it is not earned.
raiseDispute(kind) ==
    /\ orderOpen
    /\ order' = "DISPUTED"
    /\ disputed' = kind
    /\ IF kind = "inspection" \/ (kind = "unclassified" /\ ~earned)
       THEN moved({"HELD", "RELEASED"}, "ON_HOLD_DISPUTE")
       ELSE UNCHANGED payout
    /\ UNCHANGED <<agreementVars, bidVars, visitVars, fee, request>>

\* Paid fees are replayed: those without payout get theirs.
resumed(p) == payout[p].st = "ON_HOLD_DISPUTE" /\ disputed # "other"
replayed(p) == fee[p] = "PAID" /\ agreed # None

dismissDispute ==
    /\ order = "DISPUTED"
    /\ order' = "OPEN"
    /\ inspection' = IF (\E p \in Payers : replayed(p)) /\ committable THEN "ACCEPTED"
                     ELSE inspection
    /\ payout' = [p \in Payers |->
                    CASE resumed(p) -> [payout[p] EXCEPT !.st = "HELD"]
                      [] replayed(p) /\ payout[p].st = "NONE" -> [st |-> "HELD", to |-> agreed]
                      [] OTHER -> payout[p]]
    /\ UNCHANGED <<agreed, confirmed, onSite, bidVars, visitVars, fee, disputed, request>>

\* CANCEL_SERVICE: fails when a fee is paid.
cancelService ==
    /\ order = "DISPUTED"
    /\ agreed # None /\ inspection # "CANCELLED"
    /\ ~somePaid
    /\ order' = "OPEN"
    /\ inspection' = "CANCELLED"
    /\ agreed' = None
    /\ confirmed' = FALSE /\ onSite' = FALSE
    /\ status' = ended(Live)
    /\ UNCHANGED <<by, rounds, released, visitVars, moneyVars, disputed, request>>

\* A reported inspection is finished work: its fee is kept.
cancelOrder ==
    /\ order # "CANCELLED"
    /\ order' = "CANCELLED"
    /\ status' = ended(Live)
    /\ IF earned
       THEN UNCHANGED <<inspection, moneyVars>>
       ELSE /\ inspection' = "CANCELLED"
            /\ fee' = [p \in Payers |-> IF fee[p] = "PAID" THEN "REFUNDED" ELSE fee[p]]
            /\ moved({"HELD", "RELEASED", "ON_HOLD_DISPUTE"}, "CANCELLED")
    /\ UNCHANGED <<agreed, confirmed, onSite, by, rounds, released, visitVars, disputed, request>>

-----------------------------------------------------------------------------
BidStep(b) ==
    \/ createQuote(b)
    \/ acceptQuote(b)
    \/ counterQuote(b)
    \/ rejectQuote(b)
    \/ releaseAgreement(b)

FeeStep(p) ==
    \/ initializePayment(p)
    \/ FeeFails(p)
    \/ releaseDuePayout(p)
    \/ markPaidOut(p)

VisitStep ==
    \/ sellerConfirm
    \/ sellerConfirmArrival
    \/ sellerDispute
    \/ adminArrived
    \/ autoConfirmArrival
    \/ startInspection
    \/ submitReport
    \/ acceptReport

OrderStep ==
    \/ \E kind \in DisputeKinds : raiseDispute(kind)
    \/ dismissDispute
    \/ cancelService
    \/ cancelOrder

AskStep(n) ==
    \/ \E b \in Bids : AskSelect(n, b) \/ AskWithdrawBid(n, b) \/ AskReleaseSilent(n, b)
    \/ \E p \in Payers : AskPay(n, p) \/ AskSettle(n, p)
    \/ AskDecline(n)
    \/ AskCancel(n)
    \/ AskReopen(n)
    \/ AskRecover(n)
    \/ AskCheckIn(n)
    \/ AskRuleNoShow(n)

ReadStep(n) ==
    \/ ReadMissedArrival(n)
    \/ ReadLapse(n)
    \/ ReadStalled(n)
    \/ ReadExpired(n)

WriteStep(n) ==
    \/ selectQuote(n)
    \/ withdrawBid(n)
    \/ releaseSilent(n)
    \/ sellerDecline(n)
    \/ cancelRequest(n)
    \/ reopenBidding(n)
    \/ recover(n)
    \/ checkIn(n)
    \/ adminNoShow(n)
    \/ createPayment(n)
    \/ settleRecorded(n)
    \/ settleFee(n)

SweepStep(n) ==
    \/ lapseMissedArrival(n)
    \/ expireAgreement(n)
    \/ stall(n)
    \/ expireRequest(n)

\* A request that cannot be overtaken is in flight.
Busy == \E n \in Requests : request[n].at \notin Stale \cup {"idle"}
FreeStep ==
    \/ \E b \in Bids : BidStep(b)
    \/ \E p \in Payers : FeeStep(p)
    \/ VisitStep
    \/ OrderStep
    \/ \E n \in Requests : AskStep(n) \/ ReadStep(n)

Next ==
    \/ ~Busy /\ FreeStep
    \/ \E n \in Requests :
        /\ ~Busy \/ request[n].at \notin Stale
        /\ WriteStep(n) \/ SweepStep(n) \/ RequestEnds(n)

Spec == Init /\ [][Next]_vars

\* The maintenance runs and deadlines pass; a transaction ends or times out,
\* and a sweep that fails is repeated until it does not.
Fairness ==
    /\ WF_vars(autoConfirmArrival)
    /\ \A n \in Requests :
        /\ WF_vars(WriteStep(n) \/ SweepStep(n) \/ RequestEnds(n))
        /\ SF_vars(ReadStep(n))
        /\ SF_vars(SweepStep(n))

FairSpec == Spec /\ Fairness

-----------------------------------------------------------------------------
(* Properties *)

\* An accepted quote is the one the request is agreed with, although bids are
\* selected, withdrawn and released from what they were before (accept,
\* select, withdraw-bid, withdraw).
OneAgreement ==
    inspection # "CANCELLED" => \A b \in Bids : status[b] = "ACCEPTED" => agreed = b

\* Work is in progress or reported only by an inspector whose arrival was
\* confirmed and while the whole fee is paid (start, report).
WorkFollowsVisit ==
    inspection \in {"IN_PROGRESS", "COMPLETED"} =>
        agreed \in arrivals /\ \A p \in Payers : fee[p] = "PAID"

\* No fee is being paid, or paid, for an inspector who has not been confirmed
\* on site (createPayment, settlePaymentCore, releases and no-shows).
FeeFollowsVisit ==
    agreed # None /\ inspection # "CANCELLED" /\ activeFee => agreed \in arrivals

\* A released fee goes to the inspector who wrote the report (acceptReport,
\* releaseDuePayouts, settlePaymentCore).
ReporterIsPaid ==
    \A p \in Payers : payout[p].st \in {"RELEASED", "PAID_OUT"} => payout[p].to = report /\ report # None

\* Once the report is there its fee is neither refunded nor is its payout
\* cancelled, whatever happens to the order (cancelOrderInTransaction).
EarnedFeeKept ==
    report # None => \A p \in Payers : fee[p] = "PAID" /\ payout[p].st # "CANCELLED"

\* A provisional agreement does not stay open for ever: it ends, becomes work,
\* or waits for an admin's decision on the arrival or for the provider's answer
\* to a checkout (lapseInspectionAgreement, expireInspectionWorkflows,
\* lapseMissedArrivals, autoConfirmArrivals).
AgreementEnds ==
    (inspection = "ACCEPTED") ~>
        \/ inspection # "ACCEPTED"
        \/ currentArrival /\ arrival.st = "DISPUTED"
        \/ \E p \in Payers : fee[p] = "CHECKOUT"

-----------------------------------------------------------------------------
(* What an inspection promises about money *)

share == [p \in Payers |->
    CASE fee[p] = "PAID" -> "TAKEN"
      [] fee[p] = "REFUNDED" -> "RETURNED"
      [] OTHER -> "OWED"]
paid == [p \in Payers |-> IF payout[p].st = "PAID_OUT" THEN payout[p].to ELSE None]

Visit == INSTANCE Visit WITH Inspectors <- Bids, Nobody <- None, visited <- arrivals

\* Every step is one of the abstract visit, although requests of users and settlements
\* are overtaken: arrival, payment, report and payout follow each other, and what is
\* returned was not earned (createPayment, settlePaymentCore, submitReport,
\* cancelOrderInTransaction, markPaidOut).
VisitSpec == Visit!Spec
=============================================================================
