------------------------------ MODULE Transport ------------------------------
(***************************************************************************)
(* The transport job of one order: bids of truck owners, the negotiation   *)
(* with one of them, the agreement, the fee that is bound to it, the       *)
(* confirmations up to loading, the movement, and all the ways back.       *)
(*                                                                         *)
(* A bid with its chain of counters is one thread; its state is that of    *)
(* the leaf.  Amount and truck belong to the thread, so that the checks    *)
(* which compare them compare threads.  Selecting, accepting, rejecting,   *)
(* countering and releasing lock the TransportJob row between what they    *)
(* read and what they write; the other requests and the maintenance read   *)
(* first and write later, most of them without condition.  Windows of time *)
(* may have ended or not.  A truck's availability is left out: where it    *)
(* decides, the request fails.  The contacts the parties exchange are left  *)
(* out: no other step reads them.  So is the admin, who may set the status  *)
(* of a job or report its loading without the confirmations.                *)
(***************************************************************************)
EXTENDS Naturals, FiniteSets

CONSTANTS
    Owners,        \* truck owners
    Requests,      \* requests that may be in flight together
    MaxThreads,    \* bound on the bids ever made
    MaxFees,       \* bound on the payments ever created
    MaxRounds,     \* MAX_COUNTER_ROUNDS
    MaxReleases,   \* MAX_ACCEPTED_RELEASES_PER_JOB and the overrides
    MaxJobs,       \* bound on the requests for transport
    LateSuccess    \* the provider may report success after a failure

Threads == 1 .. MaxThreads
Fees == 1 .. MaxFees
None == 0
OwnTruck == MaxThreads + 1

ASSUME TransportAssumption ==
    /\ MaxThreads \in Nat
    /\ MaxFees \in Nat
    /\ MaxRounds \in Nat
    /\ MaxReleases \in Nat
    /\ MaxJobs \in Nat
    /\ LateSuccess \in BOOLEAN
    /\ Owners \cap (0 .. MaxThreads + 1) = {}

VARIABLES
    order,       \* order.status, as far as handlers of transport tell it apart
    job,         \* transportJob.status
    agreed,      \* truckOwnerId, truckId, agreedAmount: the thread they are from
    done,        \* the confirmations of the seller, of arrival and of loading
    report,      \* the thread whose driver made the loading report
    jobs,        \* requests for transport so far
    status,      \* quote.status of the leaf, "NONE" before and after the thread
    owner,       \* quote.truckOwnerId
    by,          \* counteredBy of the leaf
    rounds,      \* counters so far
    released,    \* releases by the requester: of agreements, of silent bidders
    fee,         \* payment.status of the transport payments
    bound,       \* payment.transportQuoteId
    withheld,    \* fees taken during a dispute, replayed when it is dismissed
    held,        \* the payee of a fee's payout
    request      \* requests: step, subject, what was read

jobVars == <<job, agreed, done, report, jobs>>
bidVars == <<status, owner, by, rounds, released>>
feeVars == <<fee, bound, withheld, held>>
vars == <<order, jobVars, bidVars, feeVars, request>>

Bidding == {"REQUESTED", "QUOTED"}
Moving == {"PICKUP", "IN_TRANSIT", "DELIVERED"}
JobStatus == {"NONE", "ACCEPTED", "CANCELLED"} \cup Bidding \cup Moving
Negotiating == {"SELECTED", "COUNTERED"}

\* ENDED is REJECTED or EXPIRED; a withdrawn bid bars its owner.
QuoteStatus == {"PENDING", "ACCEPTED", "WITHDRAWN", "ENDED"} \cup Negotiating
Live == {"PENDING", "ACCEPTED"} \cup Negotiating
Confirmations == {"prepared", "arrived", "approved"}
Releases == {"agreement", "silent"}
Active == {"PENDING", "PAID"}
OrderStatus == {"OPEN", "DISPUTED", "CANCELLED"}

LockedSteps == {"select", "accept", "reject", "counter",
                "release agreement", "release silent", "provider releases"}
MoveSteps == {"QUOTED", "ACCEPTED", "PICKUP", "IN_TRANSIT", "DELIVERED", "CANCELLED"}
OpenSteps == {"idle", "bid", "withdraw", "hire", "own", "report",
              "settle", "preparation overdue"} \cup Confirmations \cup MoveSteps

Idle == [at |-> "idle", on |-> None, saw |-> "NONE"]

TypeOK ==
    /\ order \in OrderStatus
    /\ job \in JobStatus
    /\ agreed \in Threads \cup {None, OwnTruck}
    /\ done \subseteq Confirmations
    /\ report \in Threads \cup {None, OwnTruck}
    /\ jobs \in 0 .. MaxJobs
    /\ status \in [Threads -> QuoteStatus \cup {"NONE"}]
    /\ owner \in [Threads -> Owners \cup {None}]
    /\ by \in [Threads -> {"REQUESTER", "PROVIDER"}]
    /\ rounds \in [Threads -> 0 .. MaxRounds]
    /\ released \in [Releases -> Nat]
    /\ fee \in [Fees -> Active \cup {"NONE", "FAILED"}]
    /\ bound \in [Fees -> Threads \cup {None}]
    /\ withheld \subseteq Fees
    /\ held \in [Fees -> Threads \cup {None, OwnTruck}]
    /\ request \in [Requests -> [at : LockedSteps \cup OpenSteps,
                                 on : Owners \cup Threads \cup Fees \cup {None, OwnTruck},
                                 saw : JobStatus \cup QuoteStatus \cup OrderStatus]]
    /\ job = "NONE" => agreed = None

Init ==
    /\ order = "OPEN"
    /\ job = "NONE"
    /\ agreed = None
    /\ done = {}
    /\ report = None
    /\ jobs = 0
    /\ status = [t \in Threads |-> "NONE"]
    /\ owner = [t \in Threads |-> None]
    /\ by = [t \in Threads |-> "PROVIDER"]
    /\ rounds = [t \in Threads |-> 0]
    /\ released = [r \in Releases |-> 0]
    /\ fee = [f \in Fees |-> "NONE"]
    /\ bound = [f \in Fees |-> None]
    /\ withheld = {}
    /\ held = [f \in Fees |-> None]
    /\ request = [n \in Requests |-> Idle]

-----------------------------------------------------------------------------
(* Reading *)

Locked == \E n \in Requests : request[n].at \in LockedSteps
jobFree == ~Locked

at(n, step) == request[n].at = step
on(n) == request[n].on
saw(n) == request[n].saw
goto(n, step, x, seen) ==
    /\ at(n, "idle")
    /\ request' = [request EXCEPT ![n] = [at |-> step, on |-> x, saw |-> seen]]
leave(n) == request' = [request EXCEPT ![n] = Idle]
reading == UNCHANGED <<order, jobVars, bidVars, feeVars>>

\* The method of the job; OWN_TRUCK keeps the name of its own truck.
hired == agreed # OwnTruck
activePayment == \E f \in Fees : fee[f] \in Active
transportPaid == \E f \in Fees : fee[f] = "PAID"

\* findCompetingLiveQuote, and the agreement with another bidder.
competingSelection(t) == \E u \in Threads \ {t} : status[u] = "SELECTED"
competingThread(t) == \E u \in Threads \ {t} : status[u] \in Negotiating
acceptedElsewhere(t) == \E u \in Threads \ {t} : status[u] = "ACCEPTED"

\* A new bid; none is begun or written when all are used.
threadFree == \E t \in Threads : owner[t] = None
newThread == CHOOSE t \in Threads : owner[t] = None
ended(from) == [t \in Threads |-> IF status[t] \in from THEN "ENDED" ELSE status[t]]

-----------------------------------------------------------------------------
(* Bids *)

\* All is checked before the transaction: who withdrew once is barred.
AskQuote(n, o) ==
    /\ order = "OPEN"
    /\ hired
    /\ job \in Bidding \cup {"ACCEPTED", "PICKUP", "IN_TRANSIT"}
    /\ threadFree
    /\ \A t \in Threads : owner[t] = o => status[t] \notin Live \cup {"WITHDRAWN"}
    /\ goto(n, "bid", o, job)
    /\ reading

\* The first bid moves the job, if it was REQUESTED when it was read.
createQuote(n) ==
    /\ at(n, "bid")
    /\ order = "OPEN"
    /\ jobFree
    /\ threadFree
    /\ status' = [status EXCEPT ![newThread] = "PENDING"]
    /\ owner' = [owner EXCEPT ![newThread] = on(n)]
    /\ job' = IF saw(n) = "REQUESTED" THEN "QUOTED" ELSE job
    /\ leave(n)
    /\ UNCHANGED <<order, agreed, done, report, jobs, by, rounds, released, feeVars>>

\* The owner withdraws a waiting bid.  The write has no condition and no lock;
\* on a bid that was countered meanwhile it is of no effect.
AskWithdrawBid(n, t) ==
    /\ order = "OPEN"
    /\ status[t] = "PENDING"
    /\ goto(n, "withdraw", t, "PENDING")
    /\ reading

withdrawBid(n) ==
    /\ at(n, "withdraw")
    /\ status[on(n)] # "NONE"
    /\ status' = [status EXCEPT ![on(n)] = IF rounds[on(n)] = 0 THEN "WITHDRAWN" ELSE @]
    /\ leave(n)
    /\ UNCHANGED <<order, jobVars, owner, by, rounds, released, feeVars>>

-----------------------------------------------------------------------------
(* Negotiation, under the lock of the job *)

lock(n, step, t) ==
    /\ order = "OPEN"
    /\ jobFree
    /\ ~activePayment
    /\ goto(n, step, t, status[t])
    /\ reading

selectable(t) ==
    /\ job \in Bidding
    /\ status[t] = "PENDING"
    /\ ~competingThread(t)
    /\ ~acceptedElsewhere(t)

SelectLock(n, t) == selectable(t) /\ lock(n, "select", t)

selectQuote(n) ==
    /\ at(n, "select")
    /\ status' = [status EXCEPT ![on(n)] = "SELECTED"]
    /\ leave(n)
    /\ UNCHANGED <<order, jobVars, owner, by, rounds, released, feeVars>>

AcceptLock(n, t) ==
    /\ status[t] \in Negotiating
    /\ ~competingThread(t)
    /\ job \in Bidding
    /\ lock(n, "accept", t)

\* The order is locked and read before the agreement is written.
acceptQuote(n) ==
    LET t == on(n) IN
    /\ at(n, "accept")
    /\ order = "OPEN"
    /\ status' = [ended(Negotiating) EXCEPT ![t] = "ACCEPTED"]
    /\ job' = "ACCEPTED"
    /\ agreed' = t
    /\ leave(n)
    /\ UNCHANGED <<order, done, report, jobs, owner, by, rounds, released, feeVars>>

RejectLock(n, t) ==
    /\ status[t] \in Negotiating
    /\ ~competingThread(t)
    /\ lock(n, "reject", t)

rejectQuote(n) ==
    /\ at(n, "reject")
    /\ status' = [status EXCEPT ![on(n)] = "ENDED"]
    /\ leave(n)
    /\ UNCHANGED <<order, jobVars, owner, by, rounds, released, feeVars>>

\* The requester answers a selected bid; after that the sides alternate, up to
\* the cap.
alwaysCounterable(t) == TRUE
counterable(t) == rounds[t] < MaxRounds

CounterLock(n, t) ==
    /\ status[t] \in Negotiating
    /\ ~competingThread(t)
    /\ counterable(t)
    /\ lock(n, "counter", t)

counterQuote(n) ==
    LET t == on(n) IN
    /\ at(n, "counter")
    /\ status' = [status EXCEPT ![t] = "COUNTERED"]
    /\ by' = [by EXCEPT ![t] = IF by[t] = "REQUESTER" THEN "PROVIDER" ELSE "REQUESTER"]
    /\ rounds' = [rounds EXCEPT ![t] = @ + 1]
    /\ leave(n)
    /\ UNCHANGED <<order, jobVars, owner, released, feeVars>>

-----------------------------------------------------------------------------
(* Release *)

releaseAllowed(kind) == released[kind] < MaxReleases

\* The requester gives up an agreement, or a bidder who owes the answer; the
\* provider gives up the agreement and is not counted here.
ReleaseLock(n, t) ==
    \/ /\ status[t] = "ACCEPTED" /\ job = "ACCEPTED" /\ agreed = t
       /\ \/ releaseAllowed("agreement") /\ lock(n, "release agreement", t)
          \/ lock(n, "provider releases", t)
    \/ /\ status[t] = "SELECTED" \/ (status[t] = "COUNTERED" /\ by[t] = "REQUESTER")
       /\ job = "QUOTED"
       /\ releaseAllowed("silent")
       /\ lock(n, "release silent", t)

counted(kind) == released' = [released EXCEPT ![kind] = @ + 1]

\* The agreement is undone with its confirmations.
releaseAgreement(n) ==
    /\ \/ at(n, "release agreement") /\ counted("agreement")
       \/ at(n, "provider releases") /\ UNCHANGED released
    /\ status' = [status EXCEPT ![on(n)] = "WITHDRAWN"]
    /\ job' = "QUOTED"
    /\ agreed' = None
    /\ done' = {}
    /\ leave(n)
    /\ UNCHANGED <<order, report, jobs, owner, by, rounds, feeVars>>

releaseSilent(n) ==
    /\ at(n, "release silent")
    /\ counted("silent")
    /\ status' = [status EXCEPT ![on(n)] = "WITHDRAWN"]
    /\ leave(n)
    /\ UNCHANGED <<order, jobVars, owner, by, rounds, feeVars>>

-----------------------------------------------------------------------------
(* The job *)

\* A job is created, or a cancelled one used again.
AskJob(n) ==
    /\ order = "OPEN"
    /\ job \in {"NONE", "CANCELLED"}
    /\ jobs < MaxJobs
    /\ \/ goto(n, "hire", None, job)
       \/ goto(n, "own", OwnTruck, job)
    /\ reading

\* Using it again deletes the bids, which fails if a fee is bound to one, and
\* resets all but the loading report.  The order has one job.
createJob(n) ==
    /\ request[n].at \in {"hire", "own"}
    /\ order = "OPEN"
    /\ jobFree
    /\ saw(n) = "NONE" => job = "NONE"
    /\ \A f \in Fees : fee[f] = "NONE"
    /\ jobs < MaxJobs
    /\ jobs' = jobs + 1
    /\ job' = IF at(n, "own") THEN "ACCEPTED" ELSE "REQUESTED"
    /\ agreed' = on(n)
    /\ done' = {}
    /\ status' = [t \in Threads |-> "NONE"]
    /\ leave(n)
    /\ UNCHANGED <<order, report, owner, by, rounds, released, feeVars>>

\* An admin asks for new bids when none is alive.
reopenBidding ==
    /\ order = "OPEN"
    /\ jobFree
    /\ job \in Bidding
    /\ ~activePayment
    /\ \A t \in Threads : status[t] \notin Live
    /\ job' = "REQUESTED"
    /\ agreed' = IF hired THEN None ELSE OwnTruck
    /\ done' = {}
    /\ UNCHANGED <<order, report, jobs, bidVars, feeVars, request>>

\* seller-confirm-pickup, truck-arrived, confirm-loading: checked, then written
\* if the job is still ACCEPTED and the confirmation still missing.
AskConfirm(n, c) ==
    /\ job = "ACCEPTED"
    /\ c \notin done
    /\ c # "prepared" => "prepared" \in done
    /\ c = "arrived" => hired
    /\ c = "approved" => "arrived" \in done /\ report # None /\ transportPaid
    /\ goto(n, c, None, job)
    /\ reading

confirm(n) ==
    /\ request[n].at \in Confirmations
    /\ jobFree
    /\ job = "ACCEPTED"
    /\ request[n].at \notin done
    /\ done' = done \cup {request[n].at}
    /\ leave(n)
    /\ UNCHANGED <<order, job, agreed, report, jobs, bidVars, feeVars>>

\* The driver reports the loading; the fee must be paid.
feePaid == transportPaid

AskReport(n) ==
    /\ job = "ACCEPTED"
    /\ agreed # None
    /\ {"prepared", "arrived"} \subseteq done
    /\ feePaid
    /\ goto(n, "report", agreed, job)
    /\ reading

submitReport(n) ==
    /\ at(n, "report")
    /\ order = "OPEN"
    /\ jobFree
    /\ job = "ACCEPTED"
    /\ report = None
    /\ report' = on(n)
    /\ leave(n)
    /\ UNCHANGED <<order, job, agreed, done, jobs, bidVars, feeVars>>

validTransitions(from) ==
    CASE from = "REQUESTED" -> {"QUOTED", "ACCEPTED", "CANCELLED"}
      [] from = "QUOTED" -> {"ACCEPTED", "CANCELLED"}
      [] from = "ACCEPTED" -> {"PICKUP", "CANCELLED"}
      [] from = "PICKUP" -> {"IN_TRANSIT"}
      [] from \in {"IN_TRANSIT", "DELIVERED"} -> {"DELIVERED"}
      [] OTHER -> {}

paymentGate == hired => transportPaid

\* PATCH /status: every check is made on the job as it was read.  Evidence and
\* the goods payment are taken as given.
AskMove(n, next) ==
    /\ order # "DISPUTED"
    /\ next \in validTransitions(job)
    /\ next = "ACCEPTED" => ~hired
    /\ next = "PICKUP" => done = Confirmations /\ report # None
    /\ next = "CANCELLED" /\ hired => \A f \in Fees : fee[f] # "PENDING"
    /\ next = "IN_TRANSIT" => paymentGate
    /\ goto(n, next, None, job)
    /\ reading

\* Only the order is read again.  A paid fee makes the cancellation fail.  The
\* end of the job releases the waiting bidders, if that does not fail.
move(n) ==
    LET next == request[n].at IN
    /\ next \in MoveSteps
    /\ order = "OPEN"
    /\ jobFree
    /\ next = "CANCELLED" => ~transportPaid
    /\ job' = next
    /\ \/ UNCHANGED status
       \/ /\ next \in {"DELIVERED", "CANCELLED"}
          /\ status' = [t \in Threads |-> IF status[t] = "PENDING" THEN "WITHDRAWN" ELSE status[t]]
    /\ leave(n)
    /\ UNCHANGED <<order, agreed, done, report, jobs, owner, by, rounds, released, feeVars>>

\* The maintenance cancels a job the seller did not prepare in time.  Its other
\* deadline, for the approval of loading, needs a report without a paid fee,
\* and no job is ever given a workflowDueAt.
ReadUnprepared(n) ==
    /\ job = "ACCEPTED"
    /\ "prepared" \notin done
    /\ goto(n, "preparation overdue", None, job)
    /\ reading

expirePreparation(n) ==
    /\ at(n, "preparation overdue")
    /\ jobFree
    /\ job' = "CANCELLED"
    /\ status' = ended(Live)
    /\ leave(n)
    /\ UNCHANGED <<order, agreed, done, report, jobs, owner, by, rounds, released, feeVars>>

-----------------------------------------------------------------------------
(* The fee *)

\* Bound to the accepted quote, under the lock of the job.  One payment of a
\* job is active at most.
createFee(f) ==
    /\ order = "OPEN"
    /\ jobFree
    /\ fee[f] = "NONE"
    /\ \A g \in 1 .. (f - 1) : fee[g] # "NONE"
    /\ ~activePayment
    /\ job = "ACCEPTED"
    /\ agreed \in Threads
    /\ status[agreed] = "ACCEPTED"
    /\ fee' = [fee EXCEPT ![f] = "PENDING"]
    /\ bound' = [bound EXCEPT ![f] = agreed]
    /\ UNCHANGED <<order, jobVars, bidVars, withheld, held, request>>

\* The provider answers with one of the two, if LateSuccess does not hold.
FeeFails(f) ==
    /\ fee[f] = "PENDING"
    /\ LateSuccess \/ \A n \in Requests : ~(at(n, "settle") /\ on(n) = f)
    /\ fee' = [fee EXCEPT ![f] = "FAILED"]
    /\ UNCHANGED <<order, jobVars, bidVars, bound, withheld, held, request>>

\* A settlement reads the payment with its job, its quote and its order.
AskSettle(n, f) ==
    /\ fee[f] = "PENDING" \/ (LateSuccess /\ fee[f] = "FAILED")
    /\ goto(n, "settle", f, IF order = "DISPUTED" THEN "DISPUTED"
                            ELSE IF agreed = None THEN "NONE" ELSE status[bound[f]])
    /\ reading

oneActive(f) == \A g \in Fees \ {f} : fee[g] \notin Active

\* Taken during a dispute the fee is only recorded; if the job had nobody when
\* it was read, nothing is checked.
settleRecorded(n) ==
    LET f == on(n) IN
    /\ at(n, "settle")
    /\ saw(n) \in {"DISPUTED", "NONE"}
    /\ fee[f] # "NONE" /\ oneActive(f)
    /\ fee' = [fee EXCEPT ![f] = "PAID"]
    /\ withheld' = IF saw(n) = "DISPUTED" THEN withheld \cup {f} ELSE withheld
    /\ leave(n)
    /\ UNCHANGED <<order, jobVars, bidVars, bound, held>>

committable(f) == job \in Bidding \cup {"ACCEPTED"} /\ agreed = bound[f]

\* Otherwise the job must still be the one of the quote, else nothing is kept.
settleFee(n) ==
    LET f == on(n) IN
    /\ at(n, "settle")
    /\ saw(n) = "ACCEPTED"
    /\ jobFree
    /\ fee[f] # "NONE" /\ oneActive(f)
    /\ committable(f)
    /\ fee' = [fee EXCEPT ![f] = "PAID"]
    /\ job' = "ACCEPTED"
    /\ held' = [held EXCEPT ![f] = bound[f]]
    /\ leave(n)
    /\ UNCHANGED <<order, agreed, done, report, jobs, bidVars, bound, withheld>>

\* A request is refused on its second look, loses its claim, or dies.
RequestEnds(n) ==
    /\ ~at(n, "idle")
    /\ leave(n)
    /\ reading

-----------------------------------------------------------------------------
(* The order *)

raiseDispute ==
    /\ order = "OPEN"
    /\ order' = "DISPUTED"
    /\ UNCHANGED <<jobVars, bidVars, feeVars, request>>

\* The fees taken meanwhile are replayed.
replayed == {f \in withheld : fee[f] = "PAID" /\ agreed # None}

dismissDispute ==
    /\ order = "DISPUTED"
    /\ jobFree
    /\ order' = "OPEN"
    /\ job' = IF \E f \in replayed : committable(f) /\ status[bound[f]] = "ACCEPTED"
              THEN "ACCEPTED" ELSE job
    /\ held' = [f \in Fees |-> IF f \in replayed THEN bound[f] ELSE held[f]]
    /\ withheld' = {}
    /\ UNCHANGED <<agreed, done, report, jobs, bidVars, fee, bound, request>>

\* CANCEL_SERVICE: fails when the fee is paid.
cancelService ==
    /\ order = "DISPUTED"
    /\ jobFree
    /\ job \notin {"NONE", "CANCELLED"}
    /\ ~transportPaid
    /\ order' = "OPEN"
    /\ job' = "CANCELLED"
    /\ agreed' = None
    /\ done' = {}
    /\ status' = ended(Live)
    /\ UNCHANGED <<report, jobs, owner, by, rounds, released, feeVars, request>>

\* Its money is returned by Escrow's cancellation.
cancelOrder ==
    /\ order # "CANCELLED"
    /\ jobFree
    /\ order' = "CANCELLED"
    /\ IF job \in {"NONE", "DELIVERED", "CANCELLED"}
       THEN UNCHANGED <<job, status>>
       ELSE job' = "CANCELLED" /\ status' = ended(Live)
    /\ UNCHANGED <<agreed, done, report, jobs, owner, by, rounds, released, feeVars, request>>

-----------------------------------------------------------------------------
BidStep(n, t) ==
    \/ AskWithdrawBid(n, t)
    \/ SelectLock(n, t)
    \/ AcceptLock(n, t)
    \/ RejectLock(n, t)
    \/ CounterLock(n, t)
    \/ ReleaseLock(n, t)

JobRequest(n) ==
    \/ AskJob(n)
    \/ AskReport(n)
    \/ ReadUnprepared(n)
    \/ \E c \in Confirmations : AskConfirm(n, c)
    \/ \E next \in MoveSteps : AskMove(n, next)

RequestStep(n) ==
    \/ createQuote(n)
    \/ withdrawBid(n)
    \/ selectQuote(n)
    \/ acceptQuote(n)
    \/ rejectQuote(n)
    \/ counterQuote(n)
    \/ releaseAgreement(n)
    \/ releaseSilent(n)
    \/ createJob(n)
    \/ confirm(n)
    \/ submitReport(n)
    \/ move(n)
    \/ expirePreparation(n)
    \/ settleRecorded(n)
    \/ settleFee(n)
    \/ RequestEnds(n)

OrderStep ==
    \/ raiseDispute
    \/ dismissDispute
    \/ cancelService
    \/ cancelOrder
    \/ reopenBidding

Next ==
    \/ \E n \in Requests, o \in Owners : AskQuote(n, o)
    \/ \E n \in Requests, t \in Threads : BidStep(n, t)
    \/ \E n \in Requests : JobRequest(n) \/ RequestStep(n)
    \/ \E f \in Fees : createFee(f) \/ FeeFails(f)
    \/ \E n \in Requests, f \in Fees : AskSettle(n, f)
    \/ OrderStep

Spec == Init /\ [][Next]_vars

-----------------------------------------------------------------------------
(* Properties *)

\* The requester negotiates with one truck owner at a time and never has an
\* agreement next to another one or next to a negotiation, although bids are
\* withdrawn and jobs overwritten meanwhile (select, accept, counter).
OneNegotiation ==
    \A t, u \in Threads :
        {status[t], status[u]} \subseteq Negotiating \cup {"ACCEPTED"} => t = u

\* While a payment of the fee is active, the job is the one it was created
\* for: no later quote replaces the commercial terms under it (createPayment,
\* select, accept, withdraw, settlePaymentCore).
FeeBindsDriver ==
    \A f \in Fees : fee[f] \in Active /\ agreed # None => agreed = bound[f]

\* A hired truck moves only when its own driver's fee is paid (status,
\* getTransportPaymentGate).
DriverPaid ==
    job \in {"IN_TRANSIT", "DELIVERED"} /\ hired /\ agreed # None
        => \E f \in Fees : fee[f] = "PAID" /\ bound[f] = agreed

\* The loading report the buyer approves is the one of the driver who is
\* agreed now (loading-report, confirm-loading).
ReportIsDrivers ==
    report # None /\ agreed # None => report = agreed

\* Neither kind of release exceeds its cap, also when two overlap
\* (releaseAllowance).
ReleasesWithinCap ==
    \A kind \in Releases : released[kind] <= MaxReleases

-----------------------------------------------------------------------------
(* What a hire promises *)

activeFee == CHOOSE f \in Fees : fee[f] \in Active

Hire == INSTANCE Hire WITH
    Drivers <- Threads \cup {OwnTruck},
    Nobody <- None,
    driver <- agreed,
    due <- IF activePayment THEN bound[activeFee] ELSE None,
    paid <- transportPaid,
    moving <- job \in Moving

\* Every step is one of the abstract hire, if a failed fee stays failed: agreement,
\* fee, payment, loading report and departure follow each other for one driver,
\* whatever handlers with old readings overlap (acceptQuote, createFee,
\* settleFee, submitReport, move).
HireSpec == Hire!Spec
=============================================================================
