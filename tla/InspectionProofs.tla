-------------------------- MODULE InspectionProofs --------------------------
(***************************************************************************)
(* What holds of Inspection for every number of inspectors, payers and     *)
(* requests in flight.                                                     *)
(*                                                                         *)
(* The first part assumes nothing of Stale: whatever is overtaken, work is *)
(* done only after the visit and the payment (Base).  The second part      *)
(* assumes that only the requests of users and of the provider are         *)
(* overtaken, and ties the fee, the payout and the report to the           *)
(* inspector who is agreed (Main).  From that, Visit is implemented.       *)
(***************************************************************************)
EXTENDS Inspection, TLAPS

-----------------------------------------------------------------------------
(* Types, and work after the visit *)

Subjects == Bids \cup Payers \cup {None}
Records == [at : Steps \cup {"idle"}, on : Subjects, saw : Bids \cup {None},
            round : 0 .. MaxRounds]
BidSteps == {"select", "withdraw", "release", "check in", "recover", "no show", "ruled"}
FeeSteps == {"pay", "settle", "settle disputed"}

\* What a request at a step is about.
Subject(step, x) ==
    /\ step \in BidSteps => x \in Bids
    /\ step \in FeeSteps => x \in Payers

RequestsOK == \A n \in Requests : Subject(request[n].at, request[n].on)

\* An agreement starts before the visit, and only the inspector's own arrival
\* puts anybody on site.
VisitOK ==
    /\ inspection = "REQUESTED" => agreed = None /\ ~onSite
    /\ onSite /\ agreed # None => agreed \in arrivals
    /\ WorkFollowsVisit

Base == TypeOK /\ RequestsOK /\ VisitOK

LEMMA LeaveRequest ==
    ASSUME TypeOK, NEW n \in Requests, leave(n)
    PROVE  /\ request' \in [Requests -> Records]
           /\ request'[n] = Idle /\ request'[n].at = "idle"
           /\ \A m \in Requests : m # n => request'[m] = request[m]
  BY InspectionAssumption DEF TypeOK, leave, Idle, Records, Subjects

LEMMA LeaveSubjects ==
    ASSUME Base, NEW n \in Requests, leave(n)
    PROVE  RequestsOK'
  <1>1. \A m \in Requests : m # n => Subject(request[m].at, request[m].on)'
    BY LeaveRequest DEF Base, RequestsOK, Subject
  <1>2. Subject(request[n].at, request[n].on)'
    BY LeaveRequest DEF Base, Subject, BidSteps, FeeSteps
  <1> QED  BY <1>1, <1>2 DEF RequestsOK

\* A request that starts.
LEMMA BeginRequest ==
    ASSUME Base, NEW n \in Requests, NEW step \in Steps, NEW x \in Subjects,
           Subject(step, x), begin(n, step, x)
    PROVE  Base'
  <1> DEFINE new == [at |-> step, on |-> x, saw |-> agreed,
                     round |-> IF x \in Bids THEN rounds[x] ELSE 0]
  <1>1. request' = [request EXCEPT ![n] = new]
    BY DEF begin
  <1>2. new \in Records
    BY InspectionAssumption DEF Records, Base, TypeOK
  <1>3. request' \in [Requests -> Records]
    BY <1>1, <1>2 DEF Base, TypeOK, Records, Subjects
  <1>4. TypeOK'
    BY <1>3 DEF begin, Base, TypeOK, agreementVars, bidVars, visitVars, moneyVars, orderVars,
                Records, Subjects
  <1>5. RequestsOK'
    BY <1>1 DEF Base, TypeOK, RequestsOK, Subject
  <1>6. VisitOK'
    BY DEF begin, Base, VisitOK, WorkFollowsVisit, agreementVars, visitVars, moneyVars
  <1> QED  BY <1>4, <1>5, <1>6 DEF Base

LEMMA AskBase ==
    ASSUME Base, NEW n \in Requests, AskStep(n) \/ ReadStep(n)
    PROVE  Base'
  <1> USE DEF Subject, BidSteps, FeeSteps, Subjects, Steps
  <1>a. agreed \in Bids \cup {None}
    BY DEF Base, TypeOK
  <1>1. ASSUME NEW b \in Bids, AskSelect(n, b) \/ AskWithdrawBid(n, b) \/ AskReleaseSilent(n, b)
        PROVE  Base'
    BY <1>1, BeginRequest DEF AskSelect, AskWithdrawBid, AskReleaseSilent
  <1>2. ASSUME NEW p \in Payers, AskPay(n, p)
        PROVE  Base'
    BY <1>2, BeginRequest DEF AskPay
  <1>3. ASSUME NEW p \in Payers, AskSettle(n, p)
        PROVE  Base'
    <2>1. CASE order = "DISPUTED"
      BY <1>3, <2>1, BeginRequest DEF AskSettle
    <2>2. CASE order # "DISPUTED"
      BY <1>3, <2>2, BeginRequest DEF AskSettle
    <2> QED  BY <2>1, <2>2
  <1>4. CASE AskDecline(n) \/ AskCancel(n) \/ AskReopen(n) \/ ReadLapse(n) \/ ReadStalled(n)
             \/ ReadExpired(n)
    BY <1>4, BeginRequest DEF AskDecline, AskCancel, AskReopen, ReadLapse, ReadStalled, ReadExpired
  <1>5. CASE AskRecover(n) \/ AskCheckIn(n) \/ AskRuleNoShow(n) \/ ReadMissedArrival(n)
    <2>1. agreed \in Bids
      BY <1>5, <1>a DEF AskRecover, AskCheckIn, AskRuleNoShow, ReadMissedArrival, missed,
                        awaitingArrival, currentArrival
    <2> QED  BY <1>5, <2>1, BeginRequest
             DEF AskRecover, AskCheckIn, AskRuleNoShow, ReadMissedArrival
  <1> QED  BY <1>1, <1>2, <1>3, <1>4, <1>5 DEF AskStep, ReadStep

\* A payout whose status changes is still a payout.
PayoutType == [st : PayoutStatus, to : Bids \cup {None}]

LEMMA PayoutMoves ==
    ASSUME TypeOK, NEW st \in PayoutStatus
    PROVE  /\ \A p \in Payers : [payout EXCEPT ![p].st = st] \in [Payers -> PayoutType]
           /\ \A from : moved(from, st) => payout' \in [Payers -> PayoutType]
  <1>1. payout \in [Payers -> PayoutType]
    BY DEF TypeOK, PayoutType
  <1>2. \A p \in Payers : [payout[p] EXCEPT !.st = st] \in PayoutType
    BY <1>1 DEF PayoutType
  <1>3. ASSUME NEW p \in Payers
        PROVE  [payout EXCEPT ![p].st = st] \in [Payers -> PayoutType]
    BY <1>1, <1>2
  <1>4. ASSUME NEW from, moved(from, st)
        PROVE  payout' \in [Payers -> PayoutType]
    <2> DEFINE new(p) == IF payout[p].st \in from THEN [payout[p] EXCEPT !.st = st] ELSE payout[p]
    <2>1. payout' = [p \in Payers |-> new(p)]
      BY <1>4 DEF moved
    <2>2. \A p \in Payers : new(p) \in PayoutType
      BY <1>1, <1>2
    <2> HIDE DEF new
    <2> QED  BY <2>1, <2>2
  <1> QED  BY <1>3, <1>4

LEMMA ArrivalMoves ==
    ASSUME TypeOK, NEW st \in ArrivalStatus
    PROVE  [arrival EXCEPT !.st = st] \in [of : Bids \cup {None}, st : ArrivalStatus]
  BY DEF TypeOK

\* Steps that change no request.
LEMMA SameRequests ==
    ASSUME RequestsOK, UNCHANGED request
    PROVE  RequestsOK'
  BY DEF RequestsOK, Subject

LEMMA BidBase ==
    ASSUME Base, NEW b \in Bids, BidStep(b)
    PROVE  Base'
  <1> USE DEF agreementVars, visitVars, moneyVars, orderVars
  <1>1. RequestsOK'
    BY SameRequests DEF Base, BidStep, createQuote, acceptQuote, counterQuote, rejectQuote, releaseAgreement
  <1>2. TypeOK'
    <2> USE DEF Base, TypeOK, QuoteStatus, Live, Negotiating, InspectionStatus
    <2>1. CASE createQuote(b)
      BY <2>1 DEF createQuote
    <2>2. CASE acceptQuote(b)
      BY <2>2 DEF acceptQuote
    <2>3. CASE counterQuote(b)
      <3>1. rounds' \in [Bids -> 0 .. MaxRounds]
        BY <2>3, InspectionAssumption DEF counterQuote
      <3>2. by' \in [Bids -> {"REQUESTER", "PROVIDER"}] /\ status' \in [Bids -> QuoteStatus]
        BY <2>3 DEF counterQuote
      <3> QED  BY <2>3, <3>1, <3>2 DEF counterQuote
    <2>4. CASE rejectQuote(b)
      BY <2>4 DEF rejectQuote
    <2>5. CASE releaseAgreement(b)
      <3>1. released' \in [Releases -> 0 .. MaxReleases]
        BY <2>5, InspectionAssumption DEF releaseAgreement, releaseAllowed, counted, Releases
      <3> QED  BY <2>5, <3>1 DEF releaseAgreement, reopened
    <2> QED  BY <2>1, <2>2, <2>3, <2>4, <2>5 DEF BidStep
  <1>3. VisitOK'
    BY InspectionAssumption
    DEF Base, VisitOK, WorkFollowsVisit, BidStep, createQuote, acceptQuote, claimable, counterQuote,
        rejectQuote, releaseAgreement, reopened
  <1> QED  BY <1>1, <1>2, <1>3 DEF Base

LEMMA FeeBase ==
    ASSUME Base, NEW p \in Payers, FeeStep(p)
    PROVE  Base'
  <1> USE DEF agreementVars, bidVars, visitVars, orderVars, FeeStep, initializePayment, FeeFails,
              releaseDuePayout, markPaidOut
  <1>1. RequestsOK'
    BY SameRequests DEF Base
  <1>2. TypeOK'
    <2>1. fee' \in [Payers -> Active \cup {"NONE", "REFUNDED"}]
      BY DEF Base, TypeOK, Active
    <2>2. payout' \in [Payers -> PayoutType]
      <3>1. "RELEASED" \in PayoutStatus /\ "PAID_OUT" \in PayoutStatus /\ TypeOK
        BY DEF PayoutStatus, Base
      <3>2. payout \in [Payers -> PayoutType]
        BY <3>1 DEF TypeOK, PayoutType
      <3>3. [payout EXCEPT ![p].st = "RELEASED"] \in [Payers -> PayoutType]
        BY <3>1, PayoutMoves
      <3>4. [payout EXCEPT ![p].st = "PAID_OUT"] \in [Payers -> PayoutType]
        BY <3>1, PayoutMoves
      <3> QED  BY <3>2, <3>3, <3>4
    <2> QED  BY <2>1, <2>2 DEF Base, TypeOK, PayoutType
  <1>3. VisitOK'
    <2>1. inspection' = inspection /\ agreed' = agreed /\ onSite' = onSite /\ arrivals' = arrivals
      OBVIOUS
    <2>2. inspection \in {"IN_PROGRESS", "COMPLETED"} => fee' = fee
      BY DEF Base, VisitOK, WorkFollowsVisit
    <2> QED  BY <2>1, <2>2 DEF Base, VisitOK, WorkFollowsVisit
  <1> QED  BY <1>1, <1>2, <1>3 DEF Base

\* The inspector is confirmed on site, or the answer came too late.
LEMMA ArrivalBase ==
    ASSUME Base, NEW st \in {"CONFIRMED", "DISPUTED"}, answerArrival(st), agreed # None,
           applyArrival(agreed) \/ UNCHANGED <<onSite, arrivals>>
    PROVE  Base'
  <1> USE DEF bidVars, moneyVars, orderVars, answerArrival
  <1>1. RequestsOK'
    BY SameRequests DEF Base
  <1>2. /\ arrivals' = arrivals \/ arrivals' = arrivals \cup {agreed}
        /\ onSite' = onSite \/ (onSite' = TRUE /\ inspection = "ACCEPTED" /\ agreed \in arrivals')
    BY DEF applyArrival, applies, awaitingArrival
  <1>3. arrival' \in [of : Bids \cup {None}, st : ArrivalStatus]
    BY ArrivalMoves DEF Base, ArrivalStatus
  <1>4. TypeOK'
    BY <1>2, <1>3 DEF Base, TypeOK
  <1>5. VisitOK'
    BY <1>2 DEF Base, VisitOK, WorkFollowsVisit
  <1> QED  BY <1>1, <1>4, <1>5 DEF Base

LEMMA VisitBase ==
    ASSUME Base, VisitStep
    PROVE  Base'
  <1> USE DEF agreementVars, bidVars, moneyVars, orderVars, visitVars, feePaid
  <1>1. CASE sellerConfirm
    <2>1. RequestsOK' /\ VisitOK'
      BY <1>1, SameRequests DEF Base, VisitOK, WorkFollowsVisit, sellerConfirm
    <2>2. TypeOK'
      BY <1>1 DEF Base, TypeOK, sellerConfirm
    <2> QED  BY <2>1, <2>2 DEF Base
  <1>2. CASE sellerConfirmArrival \/ sellerDispute \/ adminArrived \/ autoConfirmArrival
    BY <1>2, ArrivalBase
    DEF sellerConfirmArrival, sellerDispute, adminArrived, autoConfirmArrival, currentArrival
  <1>3. CASE startInspection
    <2>1. RequestsOK' /\ VisitOK'
      BY <1>3, SameRequests DEF Base, VisitOK, WorkFollowsVisit, startInspection
    <2>2. TypeOK'
      BY <1>3 DEF Base, TypeOK, InspectionStatus, startInspection
    <2> QED  BY <2>1, <2>2 DEF Base
  <1>4. CASE submitReport
    <2>1. RequestsOK' /\ VisitOK'
      BY <1>4, SameRequests DEF Base, VisitOK, WorkFollowsVisit, submitReport
    <2>2. status' \in [Bids -> QuoteStatus]
      BY <1>4 DEF Base, TypeOK, QuoteStatus, submitReport
    <2>3. TypeOK'
      BY <1>4, <2>2 DEF Base, TypeOK, InspectionStatus, submitReport
    <2> QED  BY <2>1, <2>3 DEF Base
  <1>5. CASE acceptReport
    <2>1. RequestsOK' /\ VisitOK'
      BY <1>5, SameRequests DEF Base, VisitOK, WorkFollowsVisit, acceptReport
    <2>2. TypeOK /\ "RELEASED" \in PayoutStatus /\ moved({"HELD"}, "RELEASED")
      BY <1>5 DEF Base, PayoutStatus, acceptReport
    <2>3. payout' \in [Payers -> PayoutType]
      BY <2>2, PayoutMoves
    <2>4. TypeOK'
      BY <1>5, <2>2, <2>3 DEF TypeOK, PayoutType, acceptReport
    <2> QED  BY <2>1, <2>4 DEF Base
  <1> QED  BY <1>1, <1>2, <1>3, <1>4, <1>5 DEF VisitStep

LEMMA OrderBase ==
    ASSUME Base, OrderStep
    PROVE  Base'
  <1> USE DEF agreementVars, bidVars, visitVars, moneyVars, OrderStep, raiseDispute, dismissDispute,
              cancelService, cancelOrder, moved, ended
  <1>1. RequestsOK'
    BY SameRequests DEF Base
  <1>2. TypeOK'
    <2>1. status' \in [Bids -> QuoteStatus]
      BY DEF Base, TypeOK, QuoteStatus
    <2>2. payout' \in [Payers -> [st : PayoutStatus, to : Bids \cup {None}]]
      <3>1. CASE dismissDispute
        BY <3>1 DEF Base, TypeOK, PayoutStatus
      <3>2. CASE ~dismissDispute
        BY <3>2 DEF Base, TypeOK, PayoutStatus
      <3> QED  BY <3>1, <3>2
    <2>3. fee' \in [Payers -> Active \cup {"NONE", "REFUNDED"}]
      BY DEF Base, TypeOK, Active
    <2>4. inspection' \in InspectionStatus /\ order' \in {"OPEN", "DISPUTED", "CANCELLED"}
          /\ disputed' \in DisputeKinds
      BY DEF Base, TypeOK, InspectionStatus
    <2> QED  BY <2>1, <2>2, <2>3, <2>4 DEF Base, TypeOK
  <1>3. VisitOK'
    BY DEF Base, VisitOK, WorkFollowsVisit, earned, replayed, committable
  <1> QED  BY <1>1, <1>2, <1>3 DEF Base

\* A request writes what it decided, or ends without.
LEMMA WriteBase ==
    ASSUME Base, NEW n \in Requests, WriteStep(n) \/ SweepStep(n) \/ RequestEnds(n)
    PROVE  Base'
  <1> USE DEF agreementVars, bidVars, visitVars, moneyVars, orderVars, at, on, saw
  <1> DEFINE Acts == WriteStep(n) \/ SweepStep(n) \/ RequestEnds(n)
  <1>0. leave(n)
    BY DEF WriteStep, SweepStep, RequestEnds, selectQuote, withdrawBid, releaseSilent, sellerDecline,
           cancelRequest, reopenBidding, recover, checkIn, adminNoShow, createPayment,
           settleRecorded, settleFee, lapseMissedArrival, expireAgreement, stall, expireRequest
  <1>1. RequestsOK'
    BY <1>0, LeaveSubjects
  <1>r. request' \in [Requests -> [at : Steps \cup {"idle"}, on : Bids \cup Payers \cup {None},
                                  saw : Bids \cup {None}, round : 0 .. MaxRounds]]
    BY <1>0, LeaveRequest DEF Base, Records, Subjects
  <1>b. request[n].at \in BidSteps => request[n].on \in Bids
    BY DEF Base, RequestsOK, Subject
  <1>p. request[n].at \in FeeSteps => request[n].on \in Payers
    BY DEF Base, RequestsOK, Subject
  <1>s. request[n].saw \in Bids \cup {None}
    BY DEF Base, TypeOK
  <1>2. TypeOK'
    <2> USE <1>r, <1>b, <1>p, <1>s DEF BidSteps, FeeSteps
    <2>1. CASE selectQuote(n) \/ withdrawBid(n) \/ RequestEnds(n)
      <3>1. status' \in [Bids -> QuoteStatus]
        <4>1. status \in [Bids -> QuoteStatus] /\ {"SELECTED", "WITHDRAWN"} \subseteq QuoteStatus
          BY DEF Base, TypeOK, QuoteStatus, Live, Negotiating
        <4> QED  BY <2>1, <4>1 DEF selectQuote, withdrawBid, writeLeaf, RequestEnds
      <3> QED  BY <2>1, <3>1 DEF Base, TypeOK, selectQuote, withdrawBid, RequestEnds
    <2>2. CASE releaseSilent(n)
      <3>1. released' \in [Releases -> 0 .. MaxReleases]
        BY <2>2, InspectionAssumption DEF Base, TypeOK, releaseSilent, releaseAllowed, counted, Releases
      <3>2. status' \in [Bids -> QuoteStatus]
        BY <2>2 DEF Base, TypeOK, QuoteStatus, releaseSilent, writeLeaf
      <3> QED  BY <2>2, <3>1, <3>2 DEF Base, TypeOK, releaseSilent
    <2>3. CASE sellerDecline(n) \/ expireAgreement(n)
      <3>1. status' \in [Bids -> QuoteStatus]
        BY <2>3 DEF Base, TypeOK, QuoteStatus, sellerDecline, expireAgreement, lapsed, ended
      <3>2. order' \in {"OPEN", "DISPUTED", "CANCELLED"}
        BY <2>3 DEF Base, TypeOK, sellerDecline, expireAgreement, lapsed
      <3> QED  BY <2>3, <3>1, <3>2 DEF Base, TypeOK, InspectionStatus, sellerDecline, expireAgreement, lapsed
    <2>4. CASE cancelRequest(n) \/ reopenBidding(n) \/ stall(n) \/ expireRequest(n)
      <3>1. status' \in [Bids -> QuoteStatus]
        BY <2>4 DEF Base, TypeOK, QuoteStatus, cancelRequest, reopenBidding, stall, expireRequest, ended
      <3> QED  BY <2>4, <3>1 DEF Base, TypeOK, InspectionStatus, cancelRequest, reopenBidding, stall,
                                 expireRequest, reopened
    <2>5. CASE recover(n)
      BY <2>5 DEF Base, TypeOK, QuoteStatus, InspectionStatus, recover, reopened
    <2>6. CASE checkIn(n)
      <3>1. arrival' \in [of : Bids \cup {None}, st : ArrivalStatus]
        <4>1. request[n].on \in Bids
          BY <2>6 DEF checkIn
        <4>2. PICK st \in ArrivalStatus : arrival' = [of |-> request[n].on, st |-> st]
          BY <2>6 DEF checkIn, ArrivalStatus
        <4>3. [of |-> request[n].on, st |-> st] \in [of : Bids \cup {None}, st : ArrivalStatus]
          BY <4>1
        <4> QED  BY <4>2, <4>3
      <3>2. onSite' \in BOOLEAN /\ arrivals' \subseteq Bids
        BY <2>6 DEF Base, TypeOK, checkIn, applyArrival
      <3> QED  BY <2>6, <3>1, <3>2 DEF Base, TypeOK, checkIn
    <2>7. CASE adminNoShow(n) \/ lapseMissedArrival(n)
      <3>1. arrival' \in [of : Bids \cup {None}, st : ArrivalStatus]
        BY <2>7 DEF Base, TypeOK, adminNoShow, lapseMissedArrival, ArrivalStatus
      <3>2. status' \in [Bids -> QuoteStatus] /\ noShows' \subseteq Bids
        BY <2>7 DEF Base, TypeOK, QuoteStatus, adminNoShow, lapseMissedArrival, noShow
      <3> QED  BY <2>7, <3>1, <3>2 DEF Base, TypeOK, InspectionStatus, adminNoShow,
                                       lapseMissedArrival, noShow, reopened
    <2>8. CASE createPayment(n) \/ settleRecorded(n)
      <3>1. fee' \in [Payers -> Active \cup {"NONE", "REFUNDED"}]
        BY <2>8 DEF Base, TypeOK, Active, createPayment, settleRecorded
      <3> QED  BY <2>8, <3>1 DEF Base, TypeOK, createPayment, settleRecorded
    <2>9. CASE settleFee(n)
      <3>1. fee' \in [Payers -> Active \cup {"NONE", "REFUNDED"}]
        BY <2>9 DEF Base, TypeOK, Active, settleFee
      <3>2. payout' \in [Payers -> [st : PayoutStatus, to : Bids \cup {None}]]
        BY <2>9 DEF Base, TypeOK, PayoutStatus, settleFee, payee
      <3> QED  BY <2>9, <3>1, <3>2 DEF Base, TypeOK, InspectionStatus, settleFee
    <2> QED  BY <2>1, <2>2, <2>3, <2>4, <2>5, <2>6, <2>7, <2>8, <2>9 DEF WriteStep, SweepStep
  <1>3. VisitOK'
    <2> USE DEF Base, VisitOK, WorkFollowsVisit
    <2>1. CASE selectQuote(n) \/ withdrawBid(n) \/ RequestEnds(n) \/ releaseSilent(n)
               \/ sellerDecline(n) \/ expireAgreement(n) \/ cancelRequest(n) \/ stall(n)
               \/ expireRequest(n)
      BY <2>1 DEF selectQuote, withdrawBid, RequestEnds, releaseSilent, sellerDecline,
                  expireAgreement, lapsed, cancelRequest, stall, expireRequest
    <2>2. CASE reopenBidding(n) \/ recover(n) \/ adminNoShow(n) \/ lapseMissedArrival(n)
      BY <2>2 DEF reopenBidding, recover, adminNoShow, lapseMissedArrival, noShow, reopened
    <2>3. CASE checkIn(n)
      <3>1. /\ arrivals' = arrivals \/ arrivals' = arrivals \cup {agreed}
            /\ onSite' = onSite \/ (onSite' = TRUE /\ inspection = "ACCEPTED" /\ agreed \in arrivals')
        BY <2>3 DEF checkIn, applyArrival, applies, awaitingArrival
      <3>2. UNCHANGED <<inspection, agreed, fee>>
        BY <2>3 DEF checkIn
      <3> QED  BY <3>1, <3>2
    <2>4. CASE createPayment(n) \/ settleRecorded(n)
      <3>1. inspection \notin {"IN_PROGRESS", "COMPLETED"}
        BY <2>4, <1>p DEF createPayment, settleRecorded, FeeSteps
      <3>2. UNCHANGED <<inspection, agreed, onSite, arrivals>>
        BY <2>4 DEF createPayment, settleRecorded
      <3> QED  BY <3>1, <3>2
    <2>5. CASE settleFee(n)
      BY <2>5 DEF settleFee
    <2> QED  BY <2>1, <2>2, <2>3, <2>4, <2>5 DEF WriteStep, SweepStep
  <1> QED  BY <1>1, <1>2, <1>3 DEF Base

LEMMA BaseInductive ==
    ASSUME Base, [Next]_vars
    PROVE  Base'
  <1>1. CASE UNCHANGED vars
    BY <1>1 DEF Base, TypeOK, RequestsOK, Subject, VisitOK, WorkFollowsVisit, vars, agreementVars,
                bidVars, visitVars, moneyVars, orderVars
  <1>2. CASE Next
    BY <1>2, BidBase, FeeBase, VisitBase, OrderBase, AskBase, WriteBase DEF Next, FreeStep
  <1> QED  BY <1>1, <1>2

LEMMA BaseInit ==
    ASSUME Init
    PROVE  Base
  <1>1. TypeOK
    <2>1. rounds \in [Bids -> 0 .. MaxRounds] /\ released \in [Releases -> 0 .. MaxReleases]
      BY InspectionAssumption DEF Init
    <2>2. request \in [Requests -> Records]
      BY InspectionAssumption DEF Init, Idle, Records, Subjects
    <2>3. payout \in [Payers -> PayoutType] /\ fee \in [Payers -> Active \cup {"NONE", "REFUNDED"}]
      BY DEF Init, PayoutType, PayoutStatus
    <2>4. status \in [Bids -> QuoteStatus] /\ by \in [Bids -> {"REQUESTER", "PROVIDER"}]
      BY DEF Init, QuoteStatus
    <2>5. arrival \in [of : Bids \cup {None}, st : ArrivalStatus]
      BY DEF Init, ArrivalStatus
    <2> QED  BY <2>1, <2>2, <2>3, <2>4, <2>5
             DEF Init, TypeOK, InspectionStatus, DisputeKinds, Records, Subjects, PayoutType
  <1>2. RequestsOK /\ VisitOK
    BY DEF Init, RequestsOK, Subject, VisitOK, WorkFollowsVisit, Idle, BidSteps, FeeSteps
  <1> QED  BY <1>1, <1>2 DEF Base

\* Every variable keeps its type, whatever is overtaken.
THEOREM InspectionTyped == Spec => []TypeOK
  <1>1. Init => Base
    BY BaseInit
  <1>2. Base /\ [Next]_vars => Base'
    BY BaseInductive
  <1>3. Base => TypeOK
    BY DEF Base
  <1> QED  BY <1>1, <1>2, <1>3, PTL DEF Spec

\* Whatever is overtaken, a visit is in progress or reported only for an
\* inspector whose arrival was confirmed, and while the whole fee is paid.
THEOREM WorkAfterVisit == Spec => []WorkFollowsVisit
  <1>1. Init => Base
    BY BaseInit
  <1>2. Base /\ [Next]_vars => Base'
    BY BaseInductive
  <1>3. Base => WorkFollowsVisit
    BY DEF Base, VisitOK
  <1> QED  BY <1>1, <1>2, <1>3, PTL DEF Spec

-----------------------------------------------------------------------------
(* The invariant when only users and the provider are overtaken *)

Users == {"select", "withdraw", "release", "decline", "cancel", "settle", "settle disputed"}

\* An accepted quote is the agreed one, and outside of REQUESTED and CANCELLED
\* there is an agreement.
AgreementOK ==
    /\ \A b \in Bids : status[b] = "ACCEPTED" =>
          agreed = b \/ (inspection = "CANCELLED" /\ agreed = None)
    /\ inspection \notin {"REQUESTED", "CANCELLED"} => agreed # None

FeesOK == activeFee => inspection # "REQUESTED" /\ (agreed # None => onSite)

ArrivalsOK == currentArrival /\ arrival.st \in {"PENDING_SELLER", "DISPUTED"} => ~onSite

Open == {"HELD", "ON_HOLD_DISPUTE", "RELEASED", "PAID_OUT"}

PayoutsOK ==
    \A p \in Payers :
        /\ payout[p].st \in Open => fee[p] = "PAID" /\ agreed # None /\ payout[p].to = agreed
        /\ payout[p].st \in {"RELEASED", "PAID_OUT"} => inspection = "COMPLETED"
        /\ payout[p].st = "CANCELLED" => order = "CANCELLED" /\ inspection = "CANCELLED"

ReportOK ==
    /\ report # None <=> inspection = "COMPLETED"
    /\ report # None => report = agreed

Core == AgreementOK /\ FeesOK /\ ArrivalsOK /\ PayoutsOK /\ ReportOK

\* A settlement still knows the agreed inspector.
Settling == {"settle", "settle disputed"}
SettleAt(n) ==
    request[n].at \in Settling =>
        /\ fee[request[n].on] \in {"CHECKOUT", "PAID", "REFUNDED"}
        /\ request[n].at = "settle" /\ fee[request[n].on] = "CHECKOUT" /\ agreed # None =>
                request[n].saw = agreed
Settles == \A n \in Requests : SettleAt(n)

\* What the reader of a step that is not overtaken still may rely on.
FreshAt(step, x) ==
    /\ step = "no show" => missed /\ x = agreed
    /\ step = "ruled" => currentArrival /\ arrival.st = "DISPUTED" /\ x = agreed
    /\ step = "recover" => reopenable /\ ~activeFee /\ x = agreed /\ agreed # None
    /\ step = "reopen" => reopenable /\ ~activeFee
    /\ step = "pay" => inspection = "ACCEPTED" /\ payable
    /\ step = "check in" => awaitingArrival /\ x = agreed
    /\ step = "stall" => inspection \in {"ACCEPTED", "IN_PROGRESS"}
    /\ step = "lapse" => inspection = "ACCEPTED"
    /\ step = "expire" => inspection = "REQUESTED"
Fresh == \A n \in Requests : FreshAt(request[n].at, request[n].on)

prompt(n) == request[n].at \notin Stale \cup {"idle"}
Alone == \A m, n \in Requests : prompt(m) /\ prompt(n) => m = n

Main == Base /\ Core /\ Settles /\ Fresh /\ Alone

LEMMA IdleFresh ==
    ASSUME NEW step, NEW x, step \in Users \cup {"idle"}
    PROVE  FreshAt(step, x)
  BY DEF FreshAt, Users

\* Without a prompt request there is nothing to be fresh.
LEMMA QuietFresh ==
    ASSUME Stale \subseteq Users, ~Busy, UNCHANGED request
    PROVE  Fresh' /\ Alone'
  <1>1. \A n \in Requests : request'[n].at \in Users \cup {"idle"} /\ ~prompt(n)'
    BY DEF Busy, prompt
  <1>2. \A n \in Requests : FreshAt(request[n].at, request[n].on)'
    BY <1>1, IdleFresh DEF FreshAt, Users
  <1> QED  BY <1>1, <1>2 DEF Fresh, Alone

\* A request that begins has just read.
LEMMA BeginFresh ==
    ASSUME Stale \subseteq Users, ~Busy, TypeOK, NEW n \in Requests, NEW step, NEW x,
           begin(n, step, x), FreshAt(step, x)
    PROVE  Fresh' /\ Alone'
  <1>1. \A m \in Requests : m # n => request'[m] = request[m]
    BY DEF begin, TypeOK
  <1>2. request'[n].at = step /\ request'[n].on = x
    BY DEF begin, TypeOK
  <1>3. \A m \in Requests : m # n => request'[m].at \in Users \cup {"idle"} /\ ~prompt(m)'
    BY <1>1 DEF Busy, prompt
  <1>4. \A m \in Requests : m # n => FreshAt(request[m].at, request[m].on)'
    BY <1>3 DEF FreshAt, Users
  <1>5. FreshAt(request[n].at, request[n].on)'
    BY <1>2 DEF begin, FreshAt, missed, awaitingArrival, arrivalOpen, currentArrival, reopenable,
                activeFee, payable, agreementVars, visitVars, moneyVars
  <1> QED  BY <1>3, <1>4, <1>5 DEF Fresh, Alone

\* A request that ends was the only prompt one, or there was none.
LEMMA LeaveFresh ==
    ASSUME Stale \subseteq Users, TypeOK, Alone, NEW n \in Requests, ~at(n, "idle"), leave(n),
           ~Busy \/ request[n].at \notin Stale
    PROVE  Fresh' /\ Alone'
  <1>1. /\ request'[n].at = "idle"
        /\ \A m \in Requests : m # n => request'[m] = request[m]
    BY LeaveRequest
  <1>2. \A m \in Requests : m # n => ~prompt(m)
    BY DEF Busy, prompt, Alone, at
  <1>3. \A m \in Requests : request'[m].at \in Users \cup {"idle"} /\ ~prompt(m)'
    BY <1>1, <1>2 DEF prompt
  <1>4. \A m \in Requests : FreshAt(request[m].at, request[m].on)'
    BY <1>3 DEF FreshAt, Users
  <1> QED  BY <1>3, <1>4 DEF Fresh, Alone

LEMMA FreshKept ==
    ASSUME Stale \subseteq Users, Main, [Next]_vars
    PROVE  Fresh' /\ Alone'
  <1> USE DEF Main, Base
  <1>1. CASE UNCHANGED vars
    BY <1>1 DEF vars, agreementVars, bidVars, visitVars, moneyVars, orderVars, Fresh, FreshAt, Alone,
                prompt, missed, awaitingArrival, arrivalOpen, currentArrival, reopenable, activeFee, payable
  <1>2. ASSUME ~Busy, NEW n \in Requests, AskStep(n) \/ ReadStep(n)
        PROVE  Fresh' /\ Alone'
    <2>1. CASE \E b \in Bids : AskSelect(n, b) \/ AskWithdrawBid(n, b) \/ AskReleaseSilent(n, b)
      BY <1>2, <2>1, BeginFresh, IdleFresh DEF AskSelect, AskWithdrawBid, AskReleaseSilent, Users
    <2>2. CASE \E p \in Payers : AskSettle(n, p)
      <3>1. PICK p \in Payers, step \in {"settle", "settle disputed"} : begin(n, step, p)
        BY <2>2 DEF AskSettle
      <3> QED  BY <1>2, <3>1, BeginFresh, IdleFresh DEF Users
    <2>3. CASE \E p \in Payers : AskPay(n, p)
      <3>1. PICK p \in Payers : AskPay(n, p)
        BY <2>3
      <3>2. FreshAt("pay", p) /\ begin(n, "pay", p)
        BY <3>1 DEF AskPay, FreshAt
      <3> QED  BY <1>2, <3>2, BeginFresh
    <2>4. CASE AskDecline(n) \/ AskCancel(n)
      BY <1>2, <2>4, BeginFresh, IdleFresh DEF AskDecline, AskCancel, Users
    <2>5. CASE AskReopen(n)
      BY <1>2, <2>5, BeginFresh DEF AskReopen, FreshAt
    <2>6. CASE AskRecover(n)
      BY <1>2, <2>6, BeginFresh DEF AskRecover, FreshAt
    <2>7. CASE AskCheckIn(n)
      BY <1>2, <2>7, BeginFresh DEF AskCheckIn, FreshAt
    <2>8. CASE AskRuleNoShow(n)
      BY <1>2, <2>8, BeginFresh DEF AskRuleNoShow, FreshAt
    <2>9. CASE ReadStep(n)
      <3>1. CASE ReadMissedArrival(n)
        BY <1>2, <3>1, BeginFresh DEF ReadMissedArrival, FreshAt
      <3>2. CASE ReadLapse(n)
        BY <1>2, <3>2, BeginFresh DEF ReadLapse, FreshAt
      <3>3. CASE ReadStalled(n)
        BY <1>2, <3>3, BeginFresh DEF ReadStalled, FreshAt
      <3>4. CASE ReadExpired(n)
        BY <1>2, <3>4, BeginFresh DEF ReadExpired, FreshAt
      <3> QED  BY <2>9, <3>1, <3>2, <3>3, <3>4 DEF ReadStep
    <2> QED  BY <1>2, <2>1, <2>2, <2>3, <2>4, <2>5, <2>6, <2>7, <2>8, <2>9 DEF AskStep
  <1>3. ASSUME ~Busy, UNCHANGED request
        PROVE  Fresh' /\ Alone'
    BY <1>3, QuietFresh
  <1>4. ASSUME NEW n \in Requests, ~Busy \/ request[n].at \notin Stale,
               WriteStep(n) \/ SweepStep(n) \/ RequestEnds(n)
        PROVE  Fresh' /\ Alone'
    <2>1. ~at(n, "idle") /\ leave(n)
      BY <1>4 DEF WriteStep, SweepStep, RequestEnds, selectQuote, withdrawBid, releaseSilent,
                  sellerDecline, cancelRequest, reopenBidding, recover, checkIn, adminNoShow,
                  createPayment, settleRecorded, settleFee, lapseMissedArrival, expireAgreement,
                  stall, expireRequest, at
    <2> QED  BY <1>4, <2>1, LeaveFresh
  <1>5. ASSUME ~Busy, (\E b \in Bids : BidStep(b)) \/ (\E p \in Payers : FeeStep(p))
        PROVE  UNCHANGED request
    BY <1>5 DEF BidStep, createQuote, acceptQuote, counterQuote, rejectQuote, releaseAgreement,
                FeeStep, initializePayment, FeeFails, releaseDuePayout, markPaidOut
  <1>6. ASSUME ~Busy, VisitStep \/ OrderStep
        PROVE  UNCHANGED request
    BY <1>6 DEF VisitStep, sellerConfirm, sellerConfirmArrival, sellerDispute, adminArrived,
                autoConfirmArrival, answerArrival, startInspection, submitReport, acceptReport,
                OrderStep, raiseDispute, dismissDispute, cancelService, cancelOrder
  <1> QED  BY <1>1, <1>2, <1>3, <1>4, <1>5, <1>6 DEF Next, FreeStep

-----------------------------------------------------------------------------
(* The agreement, the fee, the payout and the report *)

\* Steps that change bids, but accept none.
LEMMA QuietCore ==
    ASSUME Core,
           UNCHANGED <<order, inspection, agreed, onSite, arrival, report, fee, payout>>,
           \A b \in Bids : status'[b] = "ACCEPTED" => status[b] = "ACCEPTED"
    PROVE  Core'
  BY DEF Core, AgreementOK, FeesOK, ArrivalsOK, PayoutsOK, ReportOK, activeFee, currentArrival

\* Money only when there is an agreement, and then the visit has begun.
LEMMA NoMoney ==
    ASSUME Main, ~activeFee
    PROVE  /\ \A p \in Payers : payout[p].st \notin Open
           /\ inspection \notin {"IN_PROGRESS", "COMPLETED"} /\ report = None
  <1>1. \A p \in Payers : payout[p].st \notin Open
    BY DEF Main, Core, PayoutsOK, activeFee, Active
  <1>2. inspection \notin {"IN_PROGRESS", "COMPLETED"}
    BY InspectionAssumption DEF Main, Base, VisitOK, WorkFollowsVisit, activeFee, Active
  <1> QED  BY <1>1, <1>2 DEF Main, Core, ReportOK

\* An agreement without active fee is undone: bidding is open again.
LEMMA ReopenedCore ==
    ASSUME Main, ~activeFee, reopened, UNCHANGED <<order, report, fee, payout>>,
           \A b \in Bids : status'[b] # "ACCEPTED",
           \A p \in Payers : payout[p].st # "CANCELLED"
    PROVE  Core'
  <1>1. report = None /\ \A p \in Payers : payout[p].st \notin Open
    BY NoMoney
  <1> QED  BY <1>1 DEF Core, AgreementOK, FeesOK, ArrivalsOK, PayoutsOK, ReportOK, activeFee,
              currentArrival, reopened, Open

LEMMA BidCore ==
    ASSUME Main, NEW b \in Bids, BidStep(b)
    PROVE  Core'
  <1> USE DEF agreementVars, visitVars, moneyVars, orderVars, Main, Base
  <1>t. status \in [Bids -> QuoteStatus]
    BY DEF TypeOK
  <1>1. CASE createQuote(b) \/ counterQuote(b) \/ rejectQuote(b)
    BY <1>1, <1>t, QuietCore DEF createQuote, counterQuote, rejectQuote
  <1>2. CASE acceptQuote(b)
    <2>1. inspection = "REQUESTED" /\ agreed = None /\ inspection' = "ACCEPTED" /\ agreed' = b
      BY <1>2 DEF acceptQuote, claimable
    <2>2. ~activeFee /\ ~onSite
      BY <2>1 DEF Core, FeesOK, VisitOK
    <2>3. report = None /\ \A p \in Payers : payout[p].st \notin Open
      BY <2>2, NoMoney
    <2>4. UNCHANGED <<order, onSite, arrival, report, fee, payout>>
      BY <1>2 DEF acceptQuote
    <2>5. \A c \in Bids : status'[c] = "ACCEPTED" => c = b
      BY <1>2, <1>t, <2>1, InspectionAssumption DEF acceptQuote, Core, AgreementOK
    <2>6. AgreementOK'
      BY <2>1, <2>5, InspectionAssumption DEF AgreementOK
    <2>7. FeesOK' /\ ArrivalsOK' /\ ReportOK'
      BY <2>1, <2>2, <2>3, <2>4 DEF FeesOK, ArrivalsOK, ReportOK, activeFee
    <2>8. PayoutsOK'
      BY <2>1, <2>3, <2>4 DEF Core, PayoutsOK, Open
    <2> QED  BY <2>6, <2>7, <2>8 DEF Core
  <1>3. CASE releaseAgreement(b)
    <2>1. /\ ~activeFee /\ agreed = b /\ inspection = "ACCEPTED" /\ reopened
          /\ status' = [status EXCEPT ![b] = "WITHDRAWN"]
          /\ UNCHANGED <<order, report, fee, payout>>
      BY <1>3 DEF releaseAgreement, releasable, visitVars
    <2>2. \A c \in Bids : status'[c] # "ACCEPTED"
      BY <2>1, <1>t DEF Core, AgreementOK
    <2>3. \A p \in Payers : payout[p].st # "CANCELLED"
      BY <2>1 DEF Core, PayoutsOK
    <2> QED  BY <2>1, <2>2, <2>3, ReopenedCore
  <1> QED  BY <1>1, <1>2, <1>3 DEF BidStep

LEMMA FeeCore ==
    ASSUME Main, NEW p \in Payers, FeeStep(p)
    PROVE  Core'
  <1> USE DEF agreementVars, bidVars, visitVars, orderVars, Main, Base
  <1>t. /\ fee \in [Payers -> Active \cup {"NONE", "REFUNDED"}]
        /\ payout \in [Payers -> PayoutType]
    BY DEF TypeOK, PayoutType
  <1>1. CASE initializePayment(p) \/ FeeFails(p)
    <2>1. /\ fee[p] \in {"PENDING", "CHECKOUT"} /\ \E f : fee' = [fee EXCEPT ![p] = f]
          /\ UNCHANGED <<order, status, inspection, agreed, onSite, arrival, report, payout>>
      BY <1>1 DEF initializePayment, FeeFails
    <2>2. activeFee
      BY <2>1 DEF activeFee, Active
    <2>3. AgreementOK' /\ ArrivalsOK' /\ ReportOK'
      BY <2>1 DEF Core, AgreementOK, ArrivalsOK, ReportOK, currentArrival
    <2>4. FeesOK'
      BY <2>1, <2>2 DEF Core, FeesOK
    <2>5. payout[p].st \notin Open
      BY <2>1 DEF Core, PayoutsOK
    <2>6. \A q \in Payers : q # p => fee'[q] = fee[q]
      BY <2>1, <1>t
    <2>7. PayoutsOK'
      BY <2>1, <2>5, <2>6 DEF Core, PayoutsOK
    <2> QED  BY <2>3, <2>4, <2>7 DEF Core
  <1>2. CASE releaseDuePayout(p) \/ markPaidOut(p)
    <2>1. /\ payout[p].st \in {"HELD", "RELEASED"}
          /\ payout[p].st = "RELEASED" \/ inspection = "COMPLETED"
          /\ \E s \in {"RELEASED", "PAID_OUT"} : payout' = [payout EXCEPT ![p].st = s]
          /\ UNCHANGED <<order, status, inspection, agreed, onSite, arrival, report, fee>>
      BY <1>2 DEF releaseDuePayout, markPaidOut, due
    <2>2. AgreementOK' /\ ArrivalsOK' /\ ReportOK' /\ FeesOK'
      BY <2>1 DEF Core, AgreementOK, ArrivalsOK, ReportOK, currentArrival, FeesOK, activeFee
    <2>3. /\ payout'[p].st \in {"RELEASED", "PAID_OUT"} /\ payout'[p].to = payout[p].to
          /\ \A q \in Payers : q # p => payout'[q] = payout[q]
      BY <2>1, <1>t DEF PayoutType
    <2>4. fee[p] = "PAID" /\ agreed # None /\ payout[p].to = agreed /\ inspection = "COMPLETED"
      BY <2>1 DEF Core, PayoutsOK, Open
    <2>5. PayoutsOK'
      BY <2>1, <2>3, <2>4 DEF Core, PayoutsOK
    <2> QED  BY <2>2, <2>5 DEF Core
  <1> QED  BY <1>1, <1>2 DEF FeeStep

LEMMA VisitCore ==
    ASSUME Main, VisitStep
    PROVE  Core'
  <1> USE DEF agreementVars, bidVars, visitVars, moneyVars, orderVars, Main, Base
  <1>t. payout \in [Payers -> PayoutType] /\ status \in [Bids -> QuoteStatus]
    BY DEF TypeOK, PayoutType
  <1>1. CASE sellerConfirm
    BY <1>1, QuietCore DEF sellerConfirm
  <1>2. CASE sellerConfirmArrival \/ sellerDispute \/ adminArrived \/ autoConfirmArrival
    <2>1. /\ currentArrival /\ arrival.st \in {"PENDING_SELLER", "DISPUTED"}
          /\ \/ arrival' = [arrival EXCEPT !.st = "CONFIRMED"] /\ (onSite => onSite')
             \/ arrival' = [arrival EXCEPT !.st = "DISPUTED"] /\ onSite' = onSite
          /\ UNCHANGED <<order, inspection, agreed, report, fee, payout, status>>
      BY <1>2 DEF sellerConfirmArrival, sellerDispute, adminArrived, autoConfirmArrival,
                  answerArrival, applyArrival
    <2>2. AgreementOK' /\ PayoutsOK' /\ ReportOK'
      BY <2>1 DEF Core, AgreementOK, PayoutsOK, ReportOK
    <2>3. FeesOK'
      <3>1. onSite => onSite'
        BY <2>1
      <3> QED  BY <2>1, <3>1 DEF Core, FeesOK, activeFee
    <2>4. arrival'.st = "CONFIRMED" \/ (arrival'.st = "DISPUTED" /\ onSite' = onSite)
      BY <2>1 DEF TypeOK
    <2>5. ArrivalsOK'
      BY <2>1, <2>4 DEF Core, ArrivalsOK
    <2> QED  BY <2>2, <2>3, <2>5 DEF Core
  <1>3. CASE startInspection
    <2>1. inspection = "ACCEPTED" /\ inspection' = "IN_PROGRESS"
          /\ UNCHANGED <<order, status, agreed, onSite, arrival, report, fee, payout>>
      BY <1>3 DEF startInspection
    <2> QED  BY <2>1 DEF Core, AgreementOK, FeesOK, ArrivalsOK, PayoutsOK, ReportOK, activeFee, currentArrival
  <1>4. CASE submitReport
    <2>1. /\ inspection = "IN_PROGRESS" /\ inspection' = "COMPLETED" /\ report' = agreed
          /\ agreed # None
          /\ UNCHANGED <<order, agreed, onSite, arrival, fee, payout>>
      BY <1>4 DEF submitReport
    <2>2. \A b \in Bids : status'[b] = "ACCEPTED" => status[b] = "ACCEPTED"
      BY <1>4, <1>t DEF submitReport
    <2> QED  BY <2>1, <2>2
             DEF Core, AgreementOK, FeesOK, ArrivalsOK, PayoutsOK, ReportOK, activeFee, currentArrival
  <1>5. CASE acceptReport
    <2>1. /\ inspection = "COMPLETED" /\ moved({"HELD"}, "RELEASED")
          /\ UNCHANGED <<order, status, inspection, agreed, onSite, arrival, report, fee>>
      BY <1>5 DEF acceptReport
    <2>2. AgreementOK' /\ ArrivalsOK' /\ ReportOK' /\ FeesOK'
      BY <2>1 DEF Core, AgreementOK, ArrivalsOK, ReportOK, currentArrival, FeesOK, activeFee
    <2>3. \A p \in Payers : payout'[p].to = payout[p].to /\
             (payout'[p].st = payout[p].st \/ (payout[p].st = "HELD" /\ payout'[p].st = "RELEASED"))
      BY <2>1, <1>t DEF moved, PayoutType
    <2>4. PayoutsOK'
      BY <2>1, <2>3 DEF Core, PayoutsOK, Open
    <2> QED  BY <2>2, <2>4 DEF Core
  <1> QED  BY <1>1, <1>2, <1>3, <1>4, <1>5 DEF VisitStep

LEMMA OrderCore ==
    ASSUME Main, OrderStep
    PROVE  Core'
  <1> USE DEF agreementVars, bidVars, visitVars, moneyVars, orderVars, Main, Base
  <1>t. /\ payout \in [Payers -> PayoutType] /\ status \in [Bids -> QuoteStatus]
        /\ fee \in [Payers -> Active \cup {"NONE", "REFUNDED"}]
    BY DEF TypeOK, PayoutType
  <1>1. ASSUME NEW kind \in DisputeKinds, raiseDispute(kind)
        PROVE  Core'
    <2>1. /\ order = "OPEN" /\ UNCHANGED <<status, inspection, agreed, onSite, arrival, report, fee>>
      BY <1>1 DEF raiseDispute, orderOpen
    <2>2. \A p \in Payers : payout'[p].to = payout[p].to /\
             (payout'[p].st = payout[p].st \/
                (payout[p].st \in {"HELD", "RELEASED"} /\ payout'[p].st = "ON_HOLD_DISPUTE"))
      BY <1>1, <1>t DEF raiseDispute, moved, PayoutType
    <2>3. AgreementOK' /\ ArrivalsOK' /\ ReportOK' /\ FeesOK'
      BY <2>1 DEF Core, AgreementOK, ArrivalsOK, ReportOK, currentArrival, FeesOK, activeFee
    <2>4. PayoutsOK'
      BY <2>1, <2>2 DEF Core, PayoutsOK, Open
    <2> QED  BY <2>3, <2>4 DEF Core
  <1>2. CASE dismissDispute
    <2>1. /\ order = "DISPUTED" /\ UNCHANGED <<status, agreed, onSite, arrival, report, fee>>
          /\ \/ inspection' = inspection
             \/ /\ inspection' = "ACCEPTED" /\ inspection \in {"REQUESTED", "ACCEPTED"}
                /\ agreed # None
      BY <1>2 DEF dismissDispute, replayed, committable
    <2>2. inspection' = inspection
      BY <2>1 DEF VisitOK
    <2>3. \A p \in Payers :
             \/ payout'[p] = payout[p]
             \/ /\ payout[p].st = "ON_HOLD_DISPUTE" /\ payout'[p].st = "HELD"
                /\ payout'[p].to = payout[p].to
             \/ payout'[p] = [st |-> "HELD", to |-> agreed] /\ fee[p] = "PAID" /\ agreed # None
      <3> DEFINE new(p) == CASE resumed(p) -> [payout[p] EXCEPT !.st = "HELD"]
                             [] replayed(p) /\ payout[p].st = "NONE" -> [st |-> "HELD", to |-> agreed]
                             [] OTHER -> payout[p]
      <3>1. payout' = [p \in Payers |-> new(p)]
        BY <1>2 DEF dismissDispute
      <3>2. ASSUME NEW p \in Payers
            PROVE  \/ new(p) = payout[p]
                   \/ /\ payout[p].st = "ON_HOLD_DISPUTE" /\ new(p).st = "HELD"
                      /\ new(p).to = payout[p].to
                   \/ new(p) = [st |-> "HELD", to |-> agreed] /\ fee[p] = "PAID" /\ agreed # None
        <4>1. payout[p] \in PayoutType
          BY <1>t
        <4> QED  BY <4>1 DEF resumed, replayed, PayoutType
      <3> HIDE DEF new
      <3> QED  BY <3>1, <3>2
    <2>4. AgreementOK' /\ ArrivalsOK' /\ ReportOK' /\ FeesOK'
      BY <2>1, <2>2 DEF Core, AgreementOK, ArrivalsOK, ReportOK, currentArrival, FeesOK, activeFee
    <2>5. \A p \in Payers : payout'[p].st = "CANCELLED" => payout[p].st = "CANCELLED"
      BY <2>3
    <2>6. PayoutsOK'
      BY <2>1, <2>2, <2>3, <2>5 DEF Core, PayoutsOK, Open
    <2> QED  BY <2>4, <2>6 DEF Core
  <1>3. CASE cancelService
    <2>1. /\ order = "DISPUTED" /\ ~somePaid /\ agreed # None
          /\ inspection' = "CANCELLED" /\ agreed' = None /\ onSite' = FALSE
          /\ UNCHANGED <<arrival, report, fee, payout>>
      BY <1>3 DEF cancelService
    <2>2. \A b \in Bids : status'[b] # "ACCEPTED"
      BY <1>3, <1>t DEF cancelService, ended, Live, Negotiating
    <2>3. \A p \in Payers : payout[p].st \notin Open /\ payout[p].st # "CANCELLED"
      BY <2>1 DEF Core, PayoutsOK, somePaid
    <2>4. inspection # "COMPLETED" /\ report = None
      BY <2>1, InspectionAssumption DEF VisitOK, WorkFollowsVisit, somePaid, Core, ReportOK
    <2> QED  BY <2>1, <2>2, <2>3, <2>4
             DEF Core, AgreementOK, FeesOK, ArrivalsOK, PayoutsOK, ReportOK, activeFee, currentArrival, Open
  <1>4. CASE cancelOrder
    <2>1. order' = "CANCELLED" /\ UNCHANGED <<agreed, onSite, arrival, report>>
      BY <1>4 DEF cancelOrder
    <2>2. \A b \in Bids : status'[b] # "ACCEPTED"
      BY <1>4, <1>t DEF cancelOrder, ended, Live, Negotiating
    <2>3. CASE earned
      <3>1. UNCHANGED <<inspection, fee, payout>> /\ inspection = "COMPLETED"
        BY <1>4, <2>3 DEF cancelOrder, earned
      <3> QED  BY <2>1, <2>2, <3>1
               DEF Core, AgreementOK, FeesOK, ArrivalsOK, PayoutsOK, ReportOK, activeFee, currentArrival, Open
    <2>4. CASE ~earned
      <3>1. /\ inspection' = "CANCELLED" /\ inspection # "COMPLETED"
            /\ fee' = [p \in Payers |-> IF fee[p] = "PAID" THEN "REFUNDED" ELSE fee[p]]
            /\ moved({"HELD", "RELEASED", "ON_HOLD_DISPUTE"}, "CANCELLED")
        BY <1>4, <2>4 DEF cancelOrder, earned
      <3>2. activeFee' => activeFee
        BY <3>1, <1>t DEF activeFee, Active
      <3>3. \A p \in Payers : payout[p].st \notin {"RELEASED", "PAID_OUT"}
        BY <3>1 DEF Core, PayoutsOK
      <3>4. \A p \in Payers : payout'[p].st \notin Open
        BY <3>1, <3>3, <1>t DEF moved, PayoutType, Open
      <3>5. report = None
        BY <3>1 DEF Core, ReportOK
      <3> QED  BY <2>1, <2>2, <3>1, <3>2, <3>4, <3>5
               DEF Core, AgreementOK, FeesOK, ArrivalsOK, PayoutsOK, ReportOK, currentArrival, Open
    <2> QED  BY <2>3, <2>4
  <1> QED  BY <1>1, <1>2, <1>3, <1>4 DEF OrderStep

LEMMA WriteCore ==
    ASSUME Main, NEW n \in Requests, WriteStep(n) \/ SweepStep(n) \/ RequestEnds(n)
    PROVE  Core'
  <1> USE DEF agreementVars, bidVars, visitVars, moneyVars, orderVars, Main, Base, at, on, saw
  <1>t. /\ payout \in [Payers -> PayoutType] /\ status \in [Bids -> QuoteStatus]
        /\ fee \in [Payers -> Active \cup {"NONE", "REFUNDED"}]
    BY DEF TypeOK, PayoutType
  <1>f. FreshAt(request[n].at, request[n].on) /\ SettleAt(n)
    BY DEF Fresh, Settles
  <1>s. Subject(request[n].at, request[n].on)
    BY DEF RequestsOK
  <1>1. CASE selectQuote(n) \/ withdrawBid(n) \/ releaseSilent(n) \/ RequestEnds(n)
    BY <1>1, <1>t, QuietCore DEF selectQuote, withdrawBid, releaseSilent, RequestEnds, writeLeaf
  <1>2. CASE sellerDecline(n) \/ expireAgreement(n)
    <2>1. /\ inspection = "ACCEPTED" /\ inspection' = "CANCELLED"
          /\ order' = order \/ (order = "OPEN" /\ order' = "CANCELLED")
          /\ status' = ended(Live)
          /\ UNCHANGED <<agreed, onSite, arrival, report, fee, payout>>
      BY <1>2, <1>f DEF sellerDecline, expireAgreement, lapsed, FreshAt, orderOpen
    <2>2. \A b \in Bids : status'[b] # "ACCEPTED"
      BY <2>1, <1>t DEF ended, Live, Negotiating
    <2> QED  BY <2>1, <2>2
             DEF Core, AgreementOK, FeesOK, ArrivalsOK, PayoutsOK, ReportOK, activeFee, currentArrival
  <1>3. CASE cancelRequest(n)
    <2>1. /\ inspection # "COMPLETED" /\ ~somePaid
          /\ inspection' = "CANCELLED" /\ agreed' = None
          /\ UNCHANGED <<order, onSite, arrival, report, fee, payout>>
      BY <1>3 DEF cancelRequest
    <2>2. \A p \in Payers : payout[p].st \notin Open
      BY <2>1 DEF Core, PayoutsOK, somePaid
    <2>3. report = None
      BY <2>1 DEF Core, ReportOK
    <2> QED  BY <2>1, <2>2, <2>3
             DEF Core, AgreementOK, FeesOK, ArrivalsOK, PayoutsOK, ReportOK, activeFee, currentArrival, Open
  <1>4. CASE reopenBidding(n)
    <2>1. /\ ~activeFee /\ reopenable /\ reopened /\ UNCHANGED <<order, report, fee, payout, status>>
          /\ \A b \in Bids : status[b] \notin Live
      BY <1>4, <1>f DEF reopenBidding, FreshAt
    <2>2. \A p \in Payers : payout[p].st # "CANCELLED"
      BY <2>1 DEF Core, PayoutsOK, reopenable
    <2> QED  BY <2>1, <2>2, ReopenedCore DEF Live
  <1>5. CASE recover(n)
    <2>1. /\ ~activeFee /\ reopenable /\ reopened /\ UNCHANGED <<order, report, fee, payout>>
          /\ request[n].on = agreed /\ agreed # None
          /\ status' = [status EXCEPT ![request[n].on] = IF @ \in Live THEN "ENDED" ELSE @]
      BY <1>5, <1>f DEF recover, FreshAt
    <2>2. \A b \in Bids : status'[b] # "ACCEPTED"
      BY <2>1, <1>t DEF Core, AgreementOK, Live
    <2>3. \A p \in Payers : payout[p].st # "CANCELLED"
      BY <2>1 DEF Core, PayoutsOK, reopenable
    <2> QED  BY <2>1, <2>2, <2>3, ReopenedCore
  <1>6. CASE checkIn(n)
    <2>1. /\ awaitingArrival /\ request[n].on = agreed
          /\ arrival'.st = "CONFIRMED" \/ (arrival'.st = "PENDING_SELLER" /\ onSite' = onSite)
          /\ onSite => onSite'
          /\ UNCHANGED <<order, inspection, agreed, report, fee, payout, status>>
      <3>1. awaitingArrival /\ request[n].on = agreed
        BY <1>6, <1>f DEF checkIn, FreshAt
      <3>2. \/ arrival'.st = "CONFIRMED" /\ applyArrival(request[n].on)
            \/ arrival'.st = "PENDING_SELLER" /\ onSite' = onSite
        <4>1. \/ arrival' = [of |-> request[n].on, st |-> "CONFIRMED"] /\ applyArrival(request[n].on)
              \/ arrival' = [of |-> request[n].on, st |-> "PENDING_SELLER"] /\ UNCHANGED <<onSite, arrivals>>
          BY <1>6 DEF checkIn
        <4> HIDE DEF at, on, saw, Main, Base
        <4> QED  BY <4>1
      <3>3. onSite => onSite'
        BY <3>2 DEF applyArrival
      <3>4. UNCHANGED <<order, inspection, agreed, report, fee, payout, status>>
        BY <1>6 DEF checkIn
      <3> QED  BY <3>1, <3>2, <3>3, <3>4
    <2>2. AgreementOK' /\ PayoutsOK' /\ ReportOK'
      BY <2>1 DEF Core, AgreementOK, PayoutsOK, ReportOK
    <2>3. FeesOK'
      BY <2>1 DEF Core, FeesOK, activeFee
    <2>4. ArrivalsOK'
      BY <2>1 DEF ArrivalsOK, awaitingArrival
    <2> QED  BY <2>2, <2>3, <2>4 DEF Core
  <1>7. CASE adminNoShow(n) \/ lapseMissedArrival(n)
    <2>1. /\ reopened /\ UNCHANGED <<order, report, fee, payout>>
          /\ request[n].on = agreed /\ agreed # None
          /\ ~onSite /\ (order = "OPEN" \/ inspection = "ACCEPTED")
          /\ status' = [status EXCEPT ![request[n].on] = IF @ \in Live THEN "WITHDRAWN" ELSE @]
      BY <1>7, <1>f DEF adminNoShow, lapseMissedArrival, FreshAt, noShow, missed, awaitingArrival,
                        currentArrival, Core, ArrivalsOK, orderOpen
    <2>2. ~activeFee
      BY <2>1 DEF Core, FeesOK
    <2>3. \A b \in Bids : status'[b] # "ACCEPTED"
      BY <2>1, <1>t DEF Core, AgreementOK, Live
    <2>4. \A p \in Payers : payout[p].st # "CANCELLED"
      BY <2>1 DEF Core, PayoutsOK
    <2> QED  BY <2>1, <2>2, <2>3, <2>4, ReopenedCore
  <1>8. CASE createPayment(n)
    <2>1. /\ inspection = "ACCEPTED" /\ onSite /\ request[n].on \in Payers
          /\ fee[request[n].on] = "NONE" /\ fee' = [fee EXCEPT ![request[n].on] = "PENDING"]
          /\ UNCHANGED <<order, status, inspection, agreed, onSite, arrival, report, payout>>
      BY <1>8, <1>f, <1>s DEF createPayment, FreshAt, payable, Subject, FeeSteps
    <2>2. AgreementOK' /\ ArrivalsOK' /\ ReportOK' /\ FeesOK'
      BY <2>1 DEF Core, AgreementOK, ArrivalsOK, ReportOK, currentArrival, FeesOK
    <2>3. payout[request[n].on].st \notin Open
      BY <2>1 DEF Core, PayoutsOK
    <2>4. \A q \in Payers : q # request[n].on => fee'[q] = fee[q]
      BY <2>1, <1>t
    <2>5. PayoutsOK'
      BY <2>1, <2>3, <2>4 DEF Core, PayoutsOK
    <2> QED  BY <2>2, <2>5 DEF Core
  <1>9. CASE settleRecorded(n) \/ settleFee(n)
    <2> DEFINE p == request[n].on
    <2>1. p \in Payers /\ fee[p] = "CHECKOUT" /\ fee' = [fee EXCEPT ![p] = "PAID"] /\ activeFee
      BY <1>9, <1>s DEF settleRecorded, settleFee, Subject, FeeSteps, activeFee, Active
    <2>2. inspection # "REQUESTED" /\ (agreed # None => onSite)
      BY <2>1 DEF Core, FeesOK
    <2>3. UNCHANGED <<order, status, inspection, agreed, onSite, arrival, report>>
      BY <1>9, <2>2 DEF settleRecorded, settleFee, committable
    <2>4. AgreementOK' /\ ArrivalsOK' /\ ReportOK'
      BY <2>3 DEF Core, AgreementOK, ArrivalsOK, ReportOK, currentArrival
    <2>5. FeesOK'
      BY <2>2, <2>3 DEF FeesOK
    <2>6. payout[p].st \notin Open /\ \A q \in Payers : q # p => fee'[q] = fee[q]
      BY <2>1, <1>t DEF Core, PayoutsOK
    <2>7. fee'[p] = "PAID"
      BY <2>1, <1>t
    <2>8. CASE settleRecorded(n)
      <3>1. payout' = payout
        BY <2>8 DEF settleRecorded
      <3>2. PayoutsOK'
        BY <2>3, <2>6, <3>1 DEF Core, PayoutsOK
      <3> QED  BY <2>4, <2>5, <3>2 DEF Core
    <2>9. CASE settleFee(n)
      <3>1. agreed # None
        BY <2>2, <2>9 DEF settleFee, committable, Core, AgreementOK
      <3>2. request[n].saw = agreed
        BY <2>1, <2>9, <3>1, <1>f DEF settleFee, SettleAt, Settling
      <3>3. payout' = [payout EXCEPT ![p] = [st |-> "HELD", to |-> agreed]]
        BY <2>9, <3>2 DEF settleFee, payee
      <3>4. /\ payout'[p].st = "HELD" /\ payout'[p].to = agreed
            /\ \A q \in Payers : q # p => payout'[q] = payout[q]
        BY <2>1, <3>3, <1>t
      <3>5. PayoutsOK'
        BY <2>3, <2>6, <2>7, <3>1, <3>4 DEF Core, PayoutsOK
      <3> QED  BY <2>4, <2>5, <3>5 DEF Core
    <2> QED  BY <1>9, <2>8, <2>9
  <1>10. CASE stall(n)
    <2>1. /\ inspection \in {"ACCEPTED", "IN_PROGRESS"} /\ inspection' = "STALLED"
          /\ UNCHANGED <<order, status, agreed, onSite, arrival, report, fee, payout>>
      BY <1>10, <1>f DEF stall, FreshAt
    <2> QED  BY <2>1
             DEF Core, AgreementOK, FeesOK, ArrivalsOK, PayoutsOK, ReportOK, activeFee, currentArrival
  <1>11. CASE expireRequest(n)
    <2>1. /\ inspection = "REQUESTED" /\ inspection' = "CANCELLED"
          /\ \A b \in Bids : status'[b] = "ACCEPTED" => status[b] = "ACCEPTED"
          /\ UNCHANGED <<order, agreed, onSite, arrival, report, fee, payout>>
      BY <1>11, <1>f, <1>t DEF expireRequest, FreshAt, ended
    <2> QED  BY <2>1
             DEF Core, AgreementOK, FeesOK, ArrivalsOK, PayoutsOK, ReportOK, activeFee, currentArrival
  <1> QED  BY <1>1, <1>2, <1>3, <1>4, <1>5, <1>6, <1>7, <1>8, <1>9, <1>10, <1>11
           DEF WriteStep, SweepStep

-----------------------------------------------------------------------------
(* Settlements, and the theorems *)

\* A settlement in flight stays right if its payment is not failed or opened
\* again, and nobody else is agreed while a fee is active.
LEMMA SettlesKept ==
    ASSUME Settles, RequestsOK,
           \A n \in Requests : request'[n] = request[n] \/ request'[n].at = "idle",
           \A n \in Requests : request[n].at \in Settling =>
               \/ fee'[request[n].on] = fee[request[n].on]
               \/ fee'[request[n].on] \in {"PAID", "REFUNDED"},
           agreed' \in {agreed, None} \/ ~activeFee
    PROVE  Settles'
  <1> SUFFICES ASSUME NEW n \in Requests, request'[n].at \in Settling
               PROVE  SettleAt(n)'
    BY DEF Settles, SettleAt, Settling
  <1>1. request'[n] = request[n] /\ request[n].at \in Settling /\ SettleAt(n)
    BY DEF Settles, Settling
  <1>2. fee'[request[n].on] \in {"CHECKOUT", "PAID", "REFUNDED"}
    BY <1>1 DEF SettleAt
  <1>3. ASSUME request[n].at = "settle", fee'[request[n].on] = "CHECKOUT", agreed' # None
        PROVE  request[n].saw = agreed'
    <2>1. fee[request[n].on] = "CHECKOUT"
      BY <1>1, <1>3
    <2>2. CASE agreed' = agreed
      BY <1>1, <1>3, <2>1, <2>2 DEF SettleAt
    <2>3. CASE agreed' # agreed
      <3>1. ~activeFee
        BY <1>3, <2>3
      <3>2. request[n].on \in Payers
        BY <1>3 DEF RequestsOK, Subject, FeeSteps
      <3> QED  BY <2>1, <3>1, <3>2 DEF activeFee, Active
    <2> QED  BY <2>2, <2>3
  <1> QED  BY <1>1, <1>2, <1>3 DEF SettleAt

LEMMA SettlesInductive ==
    ASSUME Main, Next
    PROVE  Settles'
  <1> USE DEF Main, Base
  <1>t. /\ fee \in [Payers -> Active \cup {"NONE", "REFUNDED"}]
        /\ request \in [Requests -> Records]
    BY DEF TypeOK, Records, Subjects
  <1>s. \A n \in Requests : SettleAt(n) /\ Subject(request[n].at, request[n].on)
    BY DEF Settles, RequestsOK
  <1>1. ASSUME NEW b \in Bids, BidStep(b)
        PROVE  Settles'
    <2>1. UNCHANGED <<request, fee>>
      BY <1>1 DEF BidStep, createQuote, acceptQuote, counterQuote, rejectQuote, releaseAgreement, moneyVars
    <2>2. agreed' \in {agreed, None} \/ ~activeFee
      BY <1>1 DEF BidStep, createQuote, acceptQuote, claimable, counterQuote, rejectQuote,
                  releaseAgreement, reopened, agreementVars, Core, FeesOK
    <2> QED  BY <2>1, <2>2, SettlesKept
  <1>2. ASSUME NEW p \in Payers, FeeStep(p)
        PROVE  Settles'
    <2>1. UNCHANGED <<request, agreed>>
      BY <1>2 DEF FeeStep, initializePayment, FeeFails, releaseDuePayout, markPaidOut, agreementVars
    <2>2. CASE initializePayment(p)
      <3>1. fee[p] = "PENDING" /\ fee' = [fee EXCEPT ![p] = "CHECKOUT"]
        BY <2>2 DEF initializePayment
      <3>2. \A n \in Requests : request[n].at \in Settling => request[n].on # p
        BY <1>s, <3>1 DEF SettleAt
      <3> QED  BY <1>t, <2>1, <3>1, <3>2, SettlesKept
    <2>3. CASE FeeFails(p)
      <3>1. fee' = [fee EXCEPT ![p] = "NONE"]
        BY <2>3 DEF FeeFails
      <3>2. \A n \in Requests : request[n].at \in Settling => request[n].on # p
        BY <2>3 DEF FeeFails, Settling, on
      <3> QED  BY <1>t, <2>1, <3>1, <3>2, SettlesKept
    <2>4. CASE releaseDuePayout(p) \/ markPaidOut(p)
      <3>1. UNCHANGED fee
        BY <2>4 DEF releaseDuePayout, markPaidOut
      <3> QED  BY <2>1, <3>1, SettlesKept
    <2> QED  BY <1>2, <2>2, <2>3, <2>4 DEF FeeStep
  <1>3. CASE VisitStep
    <2>1. UNCHANGED <<request, agreed, fee>>
      BY <1>3 DEF VisitStep, sellerConfirm, sellerConfirmArrival, sellerDispute, adminArrived,
                  autoConfirmArrival, answerArrival, startInspection, submitReport, acceptReport,
                  agreementVars, moneyVars
    <2> QED  BY <2>1, SettlesKept
  <1>4. CASE OrderStep
    <2>1. request' = request /\ agreed' \in {agreed, None}
      BY <1>4 DEF OrderStep, raiseDispute, dismissDispute, cancelService, cancelOrder, agreementVars
    <2>2. fee' = fee \/ fee' = [p \in Payers |-> IF fee[p] = "PAID" THEN "REFUNDED" ELSE fee[p]]
      BY <1>4 DEF OrderStep, raiseDispute, dismissDispute, cancelService, cancelOrder, moneyVars
    <2>3. \A p \in Payers : fee'[p] = fee[p] \/ fee'[p] = "REFUNDED"
      BY <2>2
    <2>4. \A n \in Requests : request[n].at \in Settling => request[n].on \in Payers
      BY <1>s DEF Subject, FeeSteps, Settling
    <2> QED  BY <2>1, <2>3, <2>4, SettlesKept
  <1>5. ASSUME NEW n \in Requests, AskStep(n) \/ ReadStep(n)
        PROVE  Settles'
    <2>1. PICK step \in Steps, x \in Subjects :
             begin(n, step, x) /\ (step \in Settling => fee[x] = "CHECKOUT")
      <3> USE DEF Settling, Steps, Subjects
      <3>1. CASE AskStep(n)
        BY <1>5, <3>1 DEF AskStep, AskSelect, AskWithdrawBid, AskReleaseSilent, AskPay, AskSettle,
                    AskDecline, AskCancel, AskReopen, AskRecover, AskCheckIn, AskRuleNoShow, TypeOK
      <3>2. CASE ReadStep(n)
        BY <1>5, <3>2 DEF ReadStep, ReadMissedArrival, ReadLapse, ReadStalled, ReadExpired, TypeOK
      <3> QED  BY <1>5, <3>1, <3>2
    <2>2. /\ UNCHANGED <<fee, agreed>>
          /\ \A m \in Requests : m # n => request'[m] = request[m]
          /\ request'[n].at = step /\ request'[n].on = x /\ request'[n].saw = agreed
      BY <2>1, <1>t DEF begin, agreementVars, moneyVars, Records
    <2>3. \A m \in Requests : m # n => SettleAt(m)'
      BY <1>s, <2>2 DEF SettleAt
    <2>4. SettleAt(n)'
      BY <2>1, <2>2 DEF SettleAt
    <2> QED  BY <2>3, <2>4 DEF Settles
  <1>6. ASSUME NEW n \in Requests, WriteStep(n) \/ SweepStep(n) \/ RequestEnds(n)
        PROVE  Settles'
    <2>1. leave(n)
      BY <1>6 DEF WriteStep, SweepStep, RequestEnds, selectQuote, withdrawBid, releaseSilent,
                  sellerDecline, cancelRequest, reopenBidding, recover, checkIn, adminNoShow,
                  createPayment, settleRecorded, settleFee, lapseMissedArrival, expireAgreement,
                  stall, expireRequest
    <2>2. \A m \in Requests : request'[m] = request[m] \/ request'[m].at = "idle"
      BY <2>1, LeaveRequest
    <2>3. agreed' \in {agreed, None}
      BY <1>6 DEF WriteStep, SweepStep, RequestEnds, selectQuote, withdrawBid, releaseSilent,
                  sellerDecline, cancelRequest, reopenBidding, recover, checkIn, adminNoShow, noShow,
                  createPayment, settleRecorded, settleFee, lapseMissedArrival, expireAgreement,
                  stall, expireRequest, lapsed, reopened, agreementVars
    <2>4. \/ fee' = fee
          \/ fee[on(n)] = "NONE" /\ fee' = [fee EXCEPT ![on(n)] = "PENDING"]
          \/ fee' = [fee EXCEPT ![on(n)] = "PAID"]
      BY <1>6 DEF WriteStep, SweepStep, RequestEnds, selectQuote, withdrawBid, releaseSilent,
                  sellerDecline, cancelRequest, reopenBidding, recover, checkIn, adminNoShow, noShow,
                  createPayment, settleRecorded, settleFee, lapseMissedArrival, expireAgreement,
                  stall, expireRequest, lapsed, moneyVars
    <2>5. \A m \in Requests : request[m].at \in Settling =>
             /\ request[m].on \in Payers
             /\ fee[request[m].on] # "NONE"
      BY <1>s DEF Subject, FeeSteps, Settling, SettleAt
    <2>6. \A m \in Requests : request[m].at \in Settling =>
             fee'[request[m].on] = fee[request[m].on] \/ fee'[request[m].on] \in {"PAID", "REFUNDED"}
      BY <1>t, <2>4, <2>5
    <2> QED  BY <2>2, <2>3, <2>6, SettlesKept
  <1> QED  BY <1>1, <1>2, <1>3, <1>4, <1>5, <1>6 DEF Next, FreeStep

LEMMA MainInductive ==
    ASSUME Stale \subseteq Users, Main, [Next]_vars
    PROVE  Main'
  <1>1. Base' /\ Fresh' /\ Alone'
    BY BaseInductive, FreshKept DEF Main
  <1>2. CASE UNCHANGED vars
    <2> USE <1>2 DEF vars, agreementVars, bidVars, visitVars, moneyVars, orderVars
    <2>1. Core'
      BY QuietCore DEF Main
    <2>2. Settles'
      BY DEF Main, Settles, SettleAt
    <2> QED  BY <1>1, <2>1, <2>2 DEF Main
  <1>3. CASE Next
    <2>1. Core'
      <3>1. ASSUME NEW n \in Requests, AskStep(n) \/ ReadStep(n)
            PROVE  Core'
        <4>1. PICK step, x : begin(n, step, x)
          BY <3>1 DEF AskStep, AskSelect, AskWithdrawBid, AskReleaseSilent, AskPay, AskSettle,
                      AskDecline, AskCancel, AskReopen, AskRecover, AskCheckIn, AskRuleNoShow,
                      ReadStep, ReadMissedArrival, ReadLapse, ReadStalled, ReadExpired
        <4> QED  BY <4>1, QuietCore
                 DEF Main, begin, agreementVars, bidVars, visitVars, moneyVars, orderVars
      <3> QED  BY <1>3, <3>1, BidCore, FeeCore, VisitCore, OrderCore, WriteCore DEF Next, FreeStep
    <2>2. Settles'
      BY <1>3, SettlesInductive
    <2> QED  BY <1>1, <2>1, <2>2 DEF Main
  <1> QED  BY <1>2, <1>3

LEMMA MainInit ==
    ASSUME Init
    PROVE  Main
  <1>1. Core
    BY DEF Init, Core, AgreementOK, FeesOK, ArrivalsOK, PayoutsOK, ReportOK, activeFee, Active,
           currentArrival, Open
  <1>2. Settles /\ Fresh /\ Alone
    BY DEF Init, Idle, Settles, SettleAt, Settling, Fresh, FreshAt, Alone, prompt
  <1> QED  BY <1>1, <1>2, BaseInit DEF Main

LEMMA MainImplies ==
    ASSUME Main
    PROVE  OneAgreement /\ FeeFollowsVisit /\ ReporterIsPaid /\ EarnedFeeKept
  <1> USE DEF Main, Core
  <1>1. OneAgreement
    BY DEF AgreementOK, OneAgreement
  <1>2. FeeFollowsVisit
    BY DEF FeesOK, Base, VisitOK, FeeFollowsVisit
  <1>3. ReporterIsPaid
    BY DEF PayoutsOK, ReportOK, ReporterIsPaid, Open
  <1>4. EarnedFeeKept
    BY DEF PayoutsOK, ReportOK, EarnedFeeKept, Base, VisitOK, WorkFollowsVisit
  <1> QED  BY <1>1, <1>2, <1>3, <1>4

\* When only users and the provider are overtaken, an accepted quote is the
\* one the request is agreed with, the fee follows the visit, the reporter is
\* paid, and what is earned is kept.
LEMMA AgreementAndFee ==
    ASSUME Stale \subseteq Users
    PROVE  Spec => [](OneAgreement /\ FeeFollowsVisit /\ ReporterIsPaid /\ EarnedFeeKept)
  <1>1. Init => Main
    BY MainInit
  <1>2. Main /\ [Next]_vars => Main'
    BY MainInductive
  <1>3. Main => OneAgreement /\ FeeFollowsVisit /\ ReporterIsPaid /\ EarnedFeeKept
    BY MainImplies
  <1> QED  BY <1>1, <1>2, <1>3, PTL DEF Spec

\* No quote is left ACCEPTED for anybody but the agreed inspector, although
\* bids are selected, withdrawn and released from what they were before.
THEOREM AgreementIsOne ==
    ASSUME Stale \subseteq Users
    PROVE  Spec => []OneAgreement
  BY AgreementAndFee, PTL

\* A fee is active only for an inspector whose arrival was confirmed.
THEOREM FeeAfterArrival ==
    ASSUME Stale \subseteq Users
    PROVE  Spec => []FeeFollowsVisit
  BY AgreementAndFee, PTL

\* A released fee goes to the inspector who wrote the report.
THEOREM ReportersArePaid ==
    ASSUME Stale \subseteq Users
    PROVE  Spec => []ReporterIsPaid
  BY AgreementAndFee, PTL

\* After the report the fee is neither refunded nor clawed back.
THEOREM EarnedIsKept ==
    ASSUME Stale \subseteq Users
    PROVE  Spec => []EarnedFeeKept
  BY AgreementAndFee, PTL

-----------------------------------------------------------------------------
(* The visit, when only users and the provider are overtaken *)

\* No fee is alive before somebody was on site.
ArrivedOK == activeFee => arrivals # {}

\* Steps that move no money and write no report: somebody may arrive.
LEMMA NobodyPays ==
    ASSUME UNCHANGED <<fee, payout, report>>,
           \E b \in Bids : arrivals' \in {arrivals, arrivals \cup {b}},
           ArrivedOK
    PROVE  ArrivedOK' /\ [Visit!Next]_Visit!visit
  <1>1. ArrivedOK'
    BY DEF ArrivedOK, activeFee
  <1>2. share' = share /\ paid' = paid
    BY DEF share, paid
  <1>3. CASE arrivals' = arrivals
    BY <1>1, <1>2, <1>3 DEF Visit!visit
  <1>4. ASSUME NEW b \in Bids, arrivals' = arrivals \cup {b}
        PROVE  ArrivedOK' /\ [Visit!Next]_Visit!visit
    BY <1>1, <1>2, <1>4 DEF Visit!Next, Visit!Arrive
  <1> QED  BY <1>3, <1>4

\* Payouts that move without being paid out.
LEMMA NobodyIsPaid ==
    ASSUME UNCHANGED <<fee, report, arrivals>>, ArrivedOK,
           \A p \in Payers : payout'[p] = payout[p] \/ {payout[p].st, payout'[p].st} \cap {"PAID_OUT"} = {}
    PROVE  ArrivedOK' /\ [Visit!Next]_Visit!visit
  <1>1. ArrivedOK'
    BY DEF ArrivedOK, activeFee
  <1>2. share' = share /\ paid' = paid
    BY DEF share, paid
  <1> QED  BY <1>1, <1>2 DEF Visit!visit

LEMMA ArrivalStepVisit ==
    ASSUME Main, ArrivedOK,
           VisitStep \/ \E n \in Requests : checkIn(n)
    PROVE  ArrivedOK' /\ [Visit!Next]_Visit!visit
  <1> USE DEF moneyVars, visitVars
  <1>1. ASSUME NEW n \in Requests, checkIn(n)
        PROVE  ArrivedOK' /\ [Visit!Next]_Visit!visit
    <2>1. on(n) \in Bids
      BY <1>1 DEF checkIn, Main, Base, RequestsOK, Subject, BidSteps, at, on
    <2> QED  BY <1>1, <2>1, NobodyPays DEF checkIn, applyArrival
  <1>2. CASE sellerConfirmArrival \/ sellerDispute \/ adminArrived \/ autoConfirmArrival
    <2>1. agreed \in Bids
      BY <1>2 DEF sellerConfirmArrival, sellerDispute, adminArrived, autoConfirmArrival,
                  currentArrival, Main, Base, TypeOK
    <2> QED  BY <1>2, <2>1, NobodyPays
             DEF sellerConfirmArrival, sellerDispute, adminArrived, autoConfirmArrival,
                 answerArrival, applyArrival
  <1>3. CASE (sellerConfirm \/ startInspection)
    <2>1. UNCHANGED <<fee, payout, report, arrivals>>
      BY <1>3 DEF sellerConfirm, startInspection
    <2> QED  BY <2>1, NobodyIsPaid
  <1>4. CASE acceptReport
    BY <1>4, NobodyIsPaid DEF acceptReport, moved, Main, Base, TypeOK
  <1>5. CASE submitReport
    <2>1. /\ report = None /\ report' = agreed /\ agreed \in arrivals /\ agreed \in Bids
          /\ feePaid /\ UNCHANGED <<fee, payout, arrivals>>
      BY <1>5 DEF submitReport, Main, Base, TypeOK, VisitOK, WorkFollowsVisit
    <2>2. share' = share /\ paid' = paid /\ \A p \in Payers : share[p] = "TAKEN"
      BY <2>1 DEF share, paid, feePaid
    <2>3. Visit!Report(agreed)
      BY <2>1, <2>2 DEF Visit!Report
    <2> QED  BY <2>1, <2>3 DEF ArrivedOK, activeFee, Visit!Next
  <1> QED  BY <1>1, <1>2, <1>3, <1>4, <1>5 DEF VisitStep

\* A share that is taken.
LEMMA ShareTaken ==
    ASSUME Main, ArrivedOK, NEW p \in Payers, fee[p] = "CHECKOUT",
           fee' = [fee EXCEPT ![p] = "PAID"],
           payout' = payout \/ \E x : payout' = [payout EXCEPT ![p] = [st |-> "HELD", to |-> x]],
           UNCHANGED <<report, arrivals>>
    PROVE  ArrivedOK' /\ [Visit!Next]_Visit!visit
  <1>1. arrivals # {}
    BY DEF ArrivedOK, activeFee, Active
  <1>2. share[p] = "OWED" /\ share' = [share EXCEPT ![p] = "TAKEN"]
    BY DEF share, Main, Base, TypeOK
  <1>3. payout[p].st # "PAID_OUT"
    BY DEF Main, Core, PayoutsOK, Open
  <1>4. \A q \in Payers : IF payout'[q].st = "PAID_OUT" THEN payout'[q] = payout[q]
                                                        ELSE payout[q].st # "PAID_OUT"
    BY <1>3 DEF Main, Base, TypeOK
  <1>5. paid' = paid
    BY <1>4 DEF paid
  <1>6. Visit!Take(p)
    BY <1>1, <1>2, <1>5 DEF Visit!Take
  <1> QED  BY <1>1, <1>6 DEF ArrivedOK, Visit!Next

\* A payment that is begun, opened or given up takes nothing.
LEMMA FeeStepVisit ==
    ASSUME Main, ArrivedOK, NEW p \in Payers, FeeStep(p)
    PROVE  ArrivedOK' /\ [Visit!Next]_Visit!visit
  <1> USE DEF visitVars
  <1>1. CASE initializePayment(p) \/ FeeFails(p)
    <2>1. /\ fee[p] \in {"PENDING", "CHECKOUT"}
          /\ fee' \in {[fee EXCEPT ![p] = "CHECKOUT"], [fee EXCEPT ![p] = "NONE"]}
          /\ UNCHANGED <<payout, report, arrivals>>
      BY <1>1 DEF initializePayment, FeeFails
    <2>2. share' = share /\ paid' = paid
      BY <2>1 DEF share, paid, Main, Base, TypeOK
    <2>3. ArrivedOK'
      BY <2>1 DEF ArrivedOK, activeFee, Active, Main, Base, TypeOK
    <2> QED  BY <2>1, <2>2, <2>3 DEF Visit!visit
  <1>2. CASE releaseDuePayout(p)
    <2>1. \A q \in Payers : payout'[q] = payout[q] \/ {payout[q].st, payout'[q].st} \cap {"PAID_OUT"} = {}
      BY <1>2 DEF releaseDuePayout, Main, Base, TypeOK
    <2> QED  BY <1>2, <2>1, NobodyIsPaid DEF releaseDuePayout
  <1>3. CASE markPaidOut(p)
    <2>1. /\ payout[p].st = "RELEASED"
          /\ payout' = [payout EXCEPT ![p].st = "PAID_OUT"]
          /\ UNCHANGED <<fee, report, arrivals>>
      BY <1>3 DEF markPaidOut
    <2>2. fee[p] = "PAID" /\ payout[p].to = report /\ report # None
      BY <2>1 DEF Main, Core, PayoutsOK, ReportOK, Open
    <2>3. /\ payout'[p].st = "PAID_OUT" /\ payout'[p].to = report
          /\ \A q \in Payers \ {p} : payout'[q] = payout[q]
      BY <2>1, <2>2 DEF Main, Base, TypeOK
    <2>4. paid[p] = None /\ paid' = [paid EXCEPT ![p] = report]
      <3>1. paid[p] = None
        BY <2>1 DEF paid
      <3>2. paid' = [q \in Payers |-> paid'[q]] /\ DOMAIN paid = Payers
        BY DEF paid
      <3>3. paid'[p] = report /\ \A q \in Payers \ {p} : paid'[q] = paid[q]
        BY <2>3 DEF paid
      <3> QED  BY <3>1, <3>2, <3>3
    <2>5. share[p] = "TAKEN" /\ share' = share
      BY <2>1, <2>2 DEF share
    <2>6. Visit!Pay(p)
      BY <2>1, <2>2, <2>4, <2>5 DEF Visit!Pay
    <2> QED  BY <2>1, <2>6 DEF Visit!Next, ArrivedOK, activeFee
  <1> QED  BY <1>1, <1>2, <1>3 DEF FeeStep

\* Disputes freeze and resume, and only what nobody earned is returned.
LEMMA OrderStepVisit ==
    ASSUME Main, ArrivedOK, OrderStep
    PROVE  ArrivedOK' /\ [Visit!Next]_Visit!visit
  <1> USE DEF visitVars, moneyVars
  <1>1. ASSUME NEW kind \in DisputeKinds, raiseDispute(kind)
        PROVE  ArrivedOK' /\ [Visit!Next]_Visit!visit
    <2>1. \A p \in Payers : payout'[p] = payout[p] \/ {payout[p].st, payout'[p].st} \cap {"PAID_OUT"} = {}
      BY <1>1 DEF raiseDispute, moved, Main, Base, TypeOK
    <2> QED  BY <1>1, <2>1, NobodyIsPaid DEF raiseDispute
  <1>2. CASE dismissDispute
    <2>1. ASSUME NEW p \in Payers
          PROVE  payout'[p] = payout[p] \/ {payout[p].st, payout'[p].st} \cap {"PAID_OUT"} = {}
      <3>1. payout'[p] = CASE resumed(p) -> [payout[p] EXCEPT !.st = "HELD"]
                           [] replayed(p) /\ payout[p].st = "NONE" -> [st |-> "HELD", to |-> agreed]
                           [] OTHER -> payout[p]
        BY <1>2 DEF dismissDispute
      <3>2. CASE resumed(p)
        BY <3>1, <3>2 DEF resumed, Main, Base, TypeOK
      <3>3. CASE ~resumed(p) /\ replayed(p) /\ payout[p].st = "NONE"
        BY <3>1, <3>3
      <3>4. CASE ~resumed(p) /\ ~(replayed(p) /\ payout[p].st = "NONE")
        BY <3>1, <3>4
      <3> QED  BY <3>2, <3>3, <3>4
    <2> QED  BY <1>2, <2>1, NobodyIsPaid DEF dismissDispute
  <1>3. CASE cancelService
    BY <1>3, NobodyIsPaid DEF cancelService
  <1>4. CASE cancelOrder /\ earned
    BY <1>4, NobodyIsPaid DEF cancelOrder
  <1>5. CASE cancelOrder /\ ~earned
    <2>1. /\ report = None
          /\ fee' = [p \in Payers |-> IF fee[p] = "PAID" THEN "REFUNDED" ELSE fee[p]]
          /\ UNCHANGED <<report, arrivals>>
      BY <1>5 DEF cancelOrder, earned, Main, Core, ReportOK
    <2>2. share' = [p \in Payers |-> IF share[p] = "TAKEN" THEN "RETURNED" ELSE share[p]]
      BY <2>1 DEF share
    <2>3. \A p \in Payers : payout[p].st # "PAID_OUT" /\ payout'[p].st # "PAID_OUT"
      BY <1>5 DEF cancelOrder, earned, moved, Main, Base, TypeOK, Core, PayoutsOK
    <2>4. paid' = paid
      BY <2>3 DEF paid
    <2>5. Visit!Return
      BY <2>1, <2>2, <2>4 DEF Visit!Return
    <2>6. ArrivedOK'
      BY <2>1 DEF ArrivedOK, activeFee, Active
    <2> QED  BY <2>5, <2>6 DEF Visit!Next
  <1> QED  BY <1>1, <1>2, <1>3, <1>4, <1>5 DEF OrderStep

LEMMA WriteStepVisit ==
    ASSUME Main, ArrivedOK, NEW n \in Requests, WriteStep(n) \/ SweepStep(n) \/ RequestEnds(n)
    PROVE  ArrivedOK' /\ [Visit!Next]_Visit!visit
  <1> USE DEF visitVars, moneyVars
  <1>1. CASE checkIn(n)
    BY <1>1, ArrivalStepVisit
  <1>2. CASE createPayment(n)
    <2>1. /\ on(n) \in Payers /\ fee[on(n)] = "NONE" /\ fee' = [fee EXCEPT ![on(n)] = "PENDING"]
          /\ UNCHANGED <<payout, report, arrivals>>
      BY <1>2 DEF createPayment, Main, Base, RequestsOK, Subject, FeeSteps, at, on
    <2>2. arrivals # {}
      BY <1>2 DEF createPayment, at, Main, Fresh, FreshAt, payable, Base, VisitOK, Core, AgreementOK
    <2>3. share' = share /\ paid' = paid
      BY <2>1 DEF share, paid, Main, Base, TypeOK
    <2> QED  BY <2>1, <2>2, <2>3 DEF ArrivedOK, Visit!visit
  <1>3. CASE settleRecorded(n) \/ settleFee(n)
    <2>1. on(n) \in Payers
      BY <1>3 DEF settleRecorded, settleFee, Main, Base, RequestsOK, Subject, FeeSteps, at, on
    <2> QED  BY <1>3, <2>1, ShareTaken DEF settleRecorded, settleFee
  <1>4. CASE UNCHANGED <<fee, payout, report, arrivals>>
    BY <1>4, NobodyIsPaid
  <1>5. \/ checkIn(n) \/ createPayment(n) \/ settleRecorded(n) \/ settleFee(n)
        \/ UNCHANGED <<fee, payout, report, arrivals>>
    BY DEF WriteStep, SweepStep, RequestEnds, selectQuote, withdrawBid, releaseSilent,
           sellerDecline, cancelRequest, reopenBidding, recover, adminNoShow, lapsed, noShow,
           lapseMissedArrival, expireAgreement, stall, expireRequest
  <1> QED  BY <1>1, <1>2, <1>3, <1>4, <1>5

\* When only users and the provider are overtaken, for any number of inspectors, payers and
\* requests: nothing is taken before an arrival, who was there reports when all is
\* taken, each share is paid once, to the reporter, and nothing that was earned is returned.
THEOREM InspectionImplementsVisit ==
    ASSUME Stale \subseteq Users
    PROVE  Spec => VisitSpec
  <1>1. Init => Main /\ ArrivedOK /\ Visit!Init
    <2> SUFFICES ASSUME Init PROVE ArrivedOK /\ Visit!Init
      BY MainInit
    <2>1. ArrivedOK
      BY DEF Init, ArrivedOK, activeFee, Active
    <2>2. share = [p \in Payers |-> "OWED"] /\ paid = [p \in Payers |-> None]
      BY DEF Init, share, paid
    <2> QED  BY <2>1, <2>2 DEF Init, Visit!Init
  <1>2. Main /\ ArrivedOK /\ [Next]_vars => Main' /\ ArrivedOK' /\ [Visit!Next]_Visit!visit
    <2> SUFFICES ASSUME Main, ArrivedOK, [Next]_vars
                 PROVE  ArrivedOK' /\ [Visit!Next]_Visit!visit
      BY MainInductive
    <2>1. CASE UNCHANGED <<fee, payout, report, arrivals>>
      BY <2>1, NobodyIsPaid
    <2>2. \/ UNCHANGED <<fee, payout, report, arrivals>>
          \/ VisitStep \/ OrderStep \/ \E p \in Payers : FeeStep(p)
          \/ \E n \in Requests : WriteStep(n) \/ SweepStep(n) \/ RequestEnds(n)
      <3>1. ASSUME NEW n \in Requests, AskStep(n) \/ ReadStep(n)
            PROVE  UNCHANGED <<fee, payout, report, arrivals>>
        <4>1. PICK step, x : begin(n, step, x)
          BY <3>1 DEF AskStep, AskSelect, AskWithdrawBid, AskReleaseSilent, AskPay, AskSettle,
                      AskDecline, AskCancel, AskReopen, AskRecover, AskCheckIn, AskRuleNoShow,
                      ReadStep, ReadMissedArrival, ReadLapse, ReadStalled, ReadExpired
        <4> QED  BY <4>1 DEF begin, moneyVars, visitVars
      <3>2. ASSUME NEW b \in Bids, BidStep(b)
            PROVE  UNCHANGED <<fee, payout, report, arrivals>>
        BY <3>2 DEF BidStep, createQuote, acceptQuote, counterQuote, rejectQuote, releaseAgreement,
                    moneyVars, visitVars
      <3>3. UNCHANGED vars => UNCHANGED <<fee, payout, report, arrivals>>
        BY DEF vars, moneyVars, visitVars
      <3> QED  BY <3>1, <3>2, <3>3 DEF Next, FreeStep
    <2> QED  BY <2>1, <2>2, ArrivalStepVisit, OrderStepVisit, FeeStepVisit, WriteStepVisit
  <1> QED  BY <1>1, <1>2, PTL DEF Spec, VisitSpec, Visit!Spec
=============================================================================
