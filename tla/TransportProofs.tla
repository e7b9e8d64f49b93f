-------------------------- MODULE TransportProofs --------------------------
(***************************************************************************)
(* What holds of Transport for every number of truck owners, requests in   *)
(* flight, bids, fees, rounds and releases.                                *)
(*                                                                         *)
(* RequestsOK types the requests in flight beyond TypeOK.  LocksOK says    *)
(* what the holder of the lock on the job has read and no one else can     *)
(* change while it holds it; the single negotiation, the cap on releases   *)
(* and the cap on counters follow.  PaidOK ties a paid fee, which is never *)
(* undone, to the driver it was created for and to everything that was     *)
(* allowed because of it.  HireOK orders report and departure after it,    *)
(* and Hire is implemented.                                                *)
(***************************************************************************)
EXTENDS Transport, TLAPS

-----------------------------------------------------------------------------
(* Types and locks *)

Engaged == Negotiating \cup {"ACCEPTED"}
holdsLock(n) == request[n].at \in LockedSteps

\* What a request at a step is about.
Subject(step, x) ==
    /\ step = "bid" => x \in Owners
    /\ step \in LockedSteps \cup {"withdraw"} => x \in Threads
    /\ step = "report" => x \in Threads \cup {OwnTruck}
    /\ step = "settle" => x \in Fees
    /\ step = "own" => x = OwnTruck
    /\ step = "hire" => x = None

RequestsOK ==
    /\ \A n \in Requests : Subject(request[n].at, on(n))
    /\ \A f \in Fees : fee[f] # "NONE" => bound[f] \in Threads

\* What the holder of the lock read when it took it.
Read(step, x) ==
    /\ step = "counter" => rounds[x] < MaxRounds
    /\ step = "release agreement" => releaseAllowed("agreement")
    /\ step = "release silent" => releaseAllowed("silent")
    /\ step \in {"select", "accept", "counter"}
           => \A u \in Threads \ {x} : status[u] \notin Engaged

LocksOK ==
    /\ \A n, m \in Requests : holdsLock(n) /\ holdsLock(m) => n = m
    /\ \A n \in Requests : holdsLock(n) => Read(request[n].at, on(n))
    /\ OneNegotiation
    /\ ReleasesWithinCap

Typed == TypeOK /\ RequestsOK /\ LocksOK

Steps == LockedSteps \cup OpenSteps
Subjects == Owners \cup Threads \cup Fees \cup {None, OwnTruck}
Seen == JobStatus \cup QuoteStatus \cup OrderStatus

\* A request that starts without the lock.
LEMMA GotoTyped ==
    ASSUME Typed, NEW n \in Requests, NEW step \in OpenSteps, NEW x \in Subjects,
           NEW seen \in Seen, goto(n, step, x, seen), reading, Subject(step, x)
    PROVE  Typed'
  <1>1. step \notin LockedSteps
    BY DEF OpenSteps, LockedSteps, Confirmations, MoveSteps
  <1>2. request' = [request EXCEPT ![n] = [at |-> step, on |-> x, saw |-> seen]]
    BY DEF goto
  <1>3. request' \in [Requests -> [at : Steps, on : Subjects, saw : Seen]]
    BY <1>2 DEF Typed, TypeOK, Steps, Subjects, Seen
  <1>4. TypeOK'
    BY <1>3 DEF Typed, TypeOK, reading, jobVars, bidVars, feeVars, Steps, Subjects, Seen
  <1>5. RequestsOK'
    BY <1>2 DEF Typed, TypeOK, RequestsOK, reading, jobVars, bidVars, feeVars, on, Subject
  <1>6. \A m \in Requests : holdsLock(m)' => holdsLock(m) /\ request'[m] = request[m]
    BY <1>1, <1>2 DEF Typed, TypeOK, holdsLock
  <1>7. LocksOK'
    BY <1>6 DEF Typed, LocksOK, reading, jobVars, bidVars, feeVars, on, Read,
                releaseAllowed, OneNegotiation, ReleasesWithinCap, Engaged
  <1> QED  BY <1>4, <1>5, <1>7 DEF Typed

\* A request that takes the lock.
LEMMA LockTyped ==
    ASSUME Typed, NEW n \in Requests, NEW step \in LockedSteps, NEW t \in Threads,
           lock(n, step, t), Read(step, t)
    PROVE  Typed'
  <1> DEFINE new == [at |-> step, on |-> t, saw |-> status[t]]
  <1>1. request' = [request EXCEPT ![n] = new] /\ reading
    BY DEF lock, goto
  <1>2. status[t] \in Seen /\ \A m \in Requests : ~holdsLock(m)
    BY DEF Typed, TypeOK, Seen, JobStatus, lock, jobFree, Locked, holdsLock
  <1>3. request' \in [Requests -> [at : Steps, on : Subjects, saw : Seen]]
    BY <1>1, <1>2 DEF Typed, TypeOK, Steps, Subjects, Seen
  <1>4. TypeOK'
    BY <1>1, <1>3 DEF Typed, TypeOK, reading, jobVars, bidVars, feeVars, Steps, Subjects, Seen
  <1>5. Subject(step, t)
    BY DEF Subject, LockedSteps
  <1>6. RequestsOK'
    BY <1>1, <1>5 DEF Typed, TypeOK, RequestsOK, reading, jobVars, bidVars, feeVars, on, Subject
  <1>7. \A m \in Requests : holdsLock(m)' => m = n
    BY <1>1, <1>2 DEF Typed, TypeOK, holdsLock
  <1>8. Read(step, t)' /\ OneNegotiation' /\ ReleasesWithinCap'
    BY <1>1 DEF Typed, LocksOK, reading, jobVars, bidVars, feeVars, Read,
                releaseAllowed, OneNegotiation, ReleasesWithinCap
  <1>9. LocksOK'
    BY <1>1, <1>7, <1>8 DEF Typed, TypeOK, LocksOK, on
  <1> QED  BY <1>4, <1>6, <1>9 DEF Typed

\* A request that ends leaves the others alone.
LEMMA LeaveRequest ==
    ASSUME TypeOK, NEW n \in Requests, leave(n)
    PROVE  /\ request' \in [Requests -> [at : Steps, on : Subjects, saw : Seen]]
           /\ request'[n] = Idle /\ request'[n].at = "idle"
           /\ \A m \in Requests : m # n => request'[m] = request[m]
  BY DEF TypeOK, leave, Idle, Steps, Subjects, Seen, OpenSteps, JobStatus

LEMMA LeaveSubjects ==
    ASSUME Typed, NEW n \in Requests, leave(n)
    PROVE  \A m \in Requests : Subject(request[m].at, on(m))'
  <1>1. \A m \in Requests : m # n => Subject(request[m].at, on(m))'
    BY LeaveRequest DEF Typed, RequestsOK, Subject, on
  <1>2. Subject(request[n].at, on(n))'
    BY LeaveRequest DEF Typed, Subject, on, LockedSteps
  <1> QED  BY <1>1, <1>2

\* Without engaging a bid, what the holder of the lock
\* read stays true ...
LEMMA LeaveLocks ==
    ASSUME Typed, NEW n \in Requests, leave(n),
           \A t \in Threads : status'[t] \in Engaged => status[t] \in Engaged,
           UNCHANGED <<rounds, released>>
    PROVE  LocksOK'
  <1>1. \A m \in Requests : holdsLock(m)' => holdsLock(m) /\ request'[m] = request[m]
    BY LeaveRequest DEF Typed, holdsLock, LockedSteps
  <1>2. OneNegotiation' /\ ReleasesWithinCap'
    BY DEF Typed, LocksOK, OneNegotiation, ReleasesWithinCap, Engaged
  <1>3. \A m \in Requests : holdsLock(m) => Read(request[m].at, on(m))
    BY DEF Typed, LocksOK
  <1>4. \A m \in Requests : holdsLock(m)' => Read(request[m].at, on(m))'
    BY <1>1, <1>3 DEF Read, on, releaseAllowed
  <1> QED  BY <1>1, <1>2, <1>4 DEF Typed, LocksOK

\* ... and when nobody holds the lock any more there is nothing to keep.
LEMMA Unlocked ==
    ASSUME Typed, NEW n \in Requests, leave(n), jobFree \/ holdsLock(n),
           OneNegotiation', ReleasesWithinCap'
    PROVE  LocksOK'
  <1>1. \A m \in Requests : ~holdsLock(m)'
    BY LeaveRequest DEF Typed, LocksOK, jobFree, Locked, holdsLock, LockedSteps
  <1> QED  BY <1>1 DEF LocksOK

-----------------------------------------------------------------------------
(* Requests that start *)

LEMMA BidStepTyped ==
    ASSUME Typed, NEW n \in Requests, NEW t \in Threads, BidStep(n, t)
    PROVE  Typed'
  <1> USE DEF LockedSteps
  \* Nobody else is engaged when one bid is, or when the request looked.
  <1>a. ASSUME status[t] \in Negotiating
        PROVE  \A u \in Threads \ {t} : status[u] \notin Engaged
    BY <1>a DEF Typed, LocksOK, OneNegotiation, Engaged
  <1>1. CASE AskWithdrawBid(n, t)
    BY <1>1, GotoTyped DEF AskWithdrawBid, OpenSteps, Subject, Subjects, Seen, QuoteStatus
  <1>2. CASE SelectLock(n, t)
    <2>1. \A u \in Threads \ {t} : status[u] \notin Engaged
      BY <1>2 DEF SelectLock, selectable, competingThread, acceptedElsewhere, Engaged
    <2> QED  BY <1>2, <2>1, LockTyped DEF SelectLock, lock, Read
  <1>3. CASE AcceptLock(n, t)
    BY <1>3, <1>a, LockTyped DEF AcceptLock, lock, Read
  <1>4. CASE RejectLock(n, t)
    BY <1>4, LockTyped DEF RejectLock, lock, Read
  <1>5. CASE CounterLock(n, t)
    BY <1>5, <1>a, LockTyped DEF CounterLock, lock, Read, counterable
  <1>6. CASE ReleaseLock(n, t)
    <2>1. CASE releaseAllowed("agreement") /\ lock(n, "release agreement", t)
      BY <2>1, LockTyped DEF lock, Read
    <2>2. CASE lock(n, "provider releases", t)
      BY <2>2, LockTyped DEF lock, Read
    <2>3. CASE releaseAllowed("silent") /\ lock(n, "release silent", t)
      BY <2>3, LockTyped DEF lock, Read
    <2> QED  BY <1>6, <2>1, <2>2, <2>3 DEF ReleaseLock
  <1> QED  BY <1>1, <1>2, <1>3, <1>4, <1>5, <1>6 DEF BidStep

LEMMA JobRequestTyped ==
    ASSUME Typed, NEW n \in Requests, JobRequest(n)
    PROVE  Typed'
  <1> USE DEF Subject, Subjects, OpenSteps, LockedSteps
  <1>a. job \in Seen
    BY DEF Typed, TypeOK, Seen
  <1>1. CASE AskJob(n)
    BY <1>1, <1>a, GotoTyped DEF AskJob
  <1>2. CASE AskReport(n)
    <2>1. agreed \in Threads \cup {OwnTruck}
      BY <1>2 DEF AskReport, Typed, TypeOK
    <2> QED  BY <1>2, <1>a, <2>1, GotoTyped DEF AskReport
  <1>3. CASE ReadUnprepared(n)
    BY <1>3, <1>a, GotoTyped DEF ReadUnprepared
  <1>4. ASSUME NEW c \in Confirmations, AskConfirm(n, c)
        PROVE  Typed'
    BY <1>4, <1>a, GotoTyped DEF AskConfirm, Confirmations
  <1>5. ASSUME NEW next \in MoveSteps, AskMove(n, next)
        PROVE  Typed'
    BY <1>5, <1>a, GotoTyped DEF AskMove, MoveSteps
  <1> QED  BY <1>1, <1>2, <1>3, <1>4, <1>5 DEF JobRequest

LEMMA AskQuoteTyped ==
    ASSUME Typed, NEW n \in Requests, NEW o \in Owners, AskQuote(n, o)
    PROVE  Typed'
  BY GotoTyped DEF AskQuote, Typed, TypeOK, Seen, Subject, Subjects, OpenSteps, LockedSteps

LEMMA AskSettleTyped ==
    ASSUME Typed, NEW n \in Requests, NEW f \in Fees, AskSettle(n, f)
    PROVE  Typed'
  <1> DEFINE seen == IF order = "DISPUTED" THEN "DISPUTED"
                     ELSE IF agreed = None THEN "NONE" ELSE status[bound[f]]
  <1>1. bound[f] \in Threads
    BY DEF AskSettle, Typed, RequestsOK
  <1>2. seen \in Seen
    BY <1>1 DEF Typed, TypeOK, Seen, OrderStatus, JobStatus
  <1>3. goto(n, "settle", f, seen) /\ reading
    BY DEF AskSettle
  <1>4. Subject("settle", f) /\ f \in Subjects /\ "settle" \in OpenSteps
    BY DEF Subject, Subjects, OpenSteps, LockedSteps
  <1> HIDE DEF seen
  <1> QED  BY <1>2, <1>3, <1>4, GotoTyped

-----------------------------------------------------------------------------
(* Requests that go on *)

LEMMA NewThreadIsFree ==
    ASSUME threadFree
    PROVE  newThread \in Threads /\ owner[newThread] = None
  BY DEF threadFree, newThread

LEMMA EndedTyped ==
    ASSUME TypeOK, NEW from
    PROVE  /\ ended(from) \in [Threads -> QuoteStatus \cup {"NONE"}]
           /\ \A t \in Threads : ended(from)[t] \in Engaged => ended(from)[t] = status[t] /\ status[t] \in Engaged
           /\ \A t \in Threads : status[t] \in from => ended(from)[t] \notin Engaged
  BY DEF TypeOK, ended, QuoteStatus, Engaged, Negotiating

LEMMA CountedTyped ==
    ASSUME TransportAssumption, released \in [Releases -> Nat], ReleasesWithinCap,
           NEW kind \in Releases, counted(kind), releaseAllowed(kind)
    PROVE  released' \in [Releases -> Nat] /\ ReleasesWithinCap'
  <1>1. released' = [released EXCEPT ![kind] = released[kind] + 1]
    BY DEF counted
  <1>2. released[kind] \in Nat /\ released[kind] < MaxReleases /\ MaxReleases \in Nat
    BY DEF releaseAllowed, TransportAssumption
  <1>3. released' \in [Releases -> Nat]
    BY <1>1, <1>2
  <1>4. \A k \in Releases : released'[k] <= MaxReleases
    BY <1>1, <1>2 DEF ReleasesWithinCap
  <1> QED  BY <1>3, <1>4 DEF ReleasesWithinCap

\* The steps that change bids and releases.
LEMMA BidWriteTyped ==
    ASSUME TransportAssumption, Typed, NEW n \in Requests,
           \/ createQuote(n) \/ withdrawBid(n) \/ selectQuote(n) \/ acceptQuote(n)
           \/ rejectQuote(n) \/ counterQuote(n) \/ releaseAgreement(n) \/ releaseSilent(n)
    PROVE  Typed'
  <1> DEFINE t == on(n)
  <1>a. holdsLock(n) \/ at(n, "withdraw") => t \in Threads
    BY DEF Typed, RequestsOK, Subject, holdsLock, at, on
  <1>b. holdsLock(n) => Read(request[n].at, t)
    BY DEF Typed, LocksOK
  \* What is shared: the fees and the order are left alone.
  <1>d. ASSUME leave(n), TypeOK', LocksOK', UNCHANGED feeVars
        PROVE  Typed'
    BY <1>d, LeaveSubjects DEF Typed, RequestsOK, feeVars
  <1>1. CASE createQuote(n)
    <2>1. leave(n) /\ jobFree /\ newThread \in Threads /\ at(n, "bid") /\ on(n) \in Owners
      BY <1>1, NewThreadIsFree DEF createQuote, Typed, RequestsOK, Subject, at
    <2>2. TypeOK'
      BY <1>1, <2>1, LeaveRequest DEF createQuote, Typed, TypeOK, QuoteStatus, feeVars,
            JobStatus, Bidding, Steps, Subjects, Seen
    <2>3. LocksOK'
      BY <1>1, <2>1, LeaveLocks DEF createQuote, Typed, TypeOK, Engaged, Negotiating
    <2> QED  BY <1>1, <2>1, <2>2, <2>3, <1>d DEF createQuote
  <1>2. CASE withdrawBid(n)
    <2>1. leave(n) /\ t \in Threads
      BY <1>2, <1>a DEF withdrawBid
    <2>2. TypeOK'
      BY <1>2, <2>1, LeaveRequest DEF withdrawBid, Typed, TypeOK, QuoteStatus, jobVars, feeVars,
            Steps, Subjects, Seen
    <2>3. LocksOK'
      BY <1>2, <2>1, LeaveLocks DEF withdrawBid, Typed, TypeOK, Engaged, Negotiating
    <2> QED  BY <1>2, <2>1, <2>2, <2>3, <1>d DEF withdrawBid
  <1>3. CASE selectQuote(n)
    <2>1. leave(n) /\ t \in Threads /\ holdsLock(n) /\ \A u \in Threads \ {t} : status[u] \notin Engaged
      BY <1>3, <1>a, <1>b DEF selectQuote, holdsLock, at, Read, LockedSteps
    <2>2. TypeOK'
      BY <1>3, <2>1, LeaveRequest DEF selectQuote, Typed, TypeOK, QuoteStatus, Negotiating,
            jobVars, feeVars, Steps, Subjects, Seen
    <2>3. OneNegotiation' /\ ReleasesWithinCap'
      BY <1>3, <2>1 DEF selectQuote, Typed, TypeOK, LocksOK, OneNegotiation, Engaged, ReleasesWithinCap
    <2> QED  BY <1>3, <2>1, <2>2, <2>3, <1>d, Unlocked DEF selectQuote
  <1>4. CASE acceptQuote(n)
    <2>1. leave(n) /\ t \in Threads /\ holdsLock(n) /\ \A u \in Threads \ {t} : status[u] \notin Engaged
      BY <1>4, <1>a, <1>b DEF acceptQuote, holdsLock, at, Read, LockedSteps
    <2>2. status' \in [Threads -> QuoteStatus \cup {"NONE"}]
          /\ \A u \in Threads \ {t} : status'[u] \notin Engaged
      BY <1>4, <2>1, EndedTyped DEF acceptQuote, Typed, QuoteStatus
    <2>3. TypeOK'
      BY <1>4, <2>1, <2>2, LeaveRequest DEF acceptQuote, Typed, TypeOK, JobStatus, feeVars,
            Steps, Subjects, Seen
    <2>4. OneNegotiation' /\ ReleasesWithinCap'
      BY <1>4, <2>2 DEF acceptQuote, Typed, LocksOK, OneNegotiation, Engaged, ReleasesWithinCap
    <2> QED  BY <1>4, <2>1, <2>3, <2>4, <1>d, Unlocked DEF acceptQuote
  <1>5. CASE rejectQuote(n)
    <2>1. leave(n) /\ t \in Threads
      BY <1>5, <1>a DEF rejectQuote, holdsLock, at, LockedSteps
    <2>2. TypeOK'
      BY <1>5, <2>1, LeaveRequest DEF rejectQuote, Typed, TypeOK, QuoteStatus, jobVars, feeVars,
            Steps, Subjects, Seen
    <2>3. LocksOK'
      BY <1>5, <2>1, LeaveLocks DEF rejectQuote, Typed, TypeOK, Engaged, Negotiating
    <2> QED  BY <1>5, <2>1, <2>2, <2>3, <1>d DEF rejectQuote
  <1>6. CASE counterQuote(n)
    <2>1. /\ leave(n) /\ t \in Threads /\ holdsLock(n) /\ rounds[t] < MaxRounds
          /\ \A u \in Threads \ {t} : status[u] \notin Engaged
      BY <1>6, <1>a, <1>b DEF counterQuote, holdsLock, at, Read, LockedSteps
    <2>2. rounds' \in [Threads -> 0 .. MaxRounds]
      BY <1>6, <2>1 DEF counterQuote, Typed, TypeOK, TransportAssumption
    <2>3. TypeOK'
      BY <1>6, <2>1, <2>2, LeaveRequest DEF counterQuote, Typed, TypeOK, QuoteStatus, Negotiating,
            jobVars, feeVars, Steps, Subjects, Seen
    <2>4. OneNegotiation' /\ ReleasesWithinCap'
      BY <1>6, <2>1 DEF counterQuote, Typed, TypeOK, LocksOK, OneNegotiation, Engaged, ReleasesWithinCap
    <2> QED  BY <1>6, <2>1, <2>3, <2>4, <1>d, Unlocked DEF counterQuote
  <1>7. CASE releaseAgreement(n)
    <2>1. /\ leave(n) /\ t \in Threads /\ holdsLock(n)
          /\ at(n, "release agreement") => releaseAllowed("agreement")
      BY <1>7, <1>a, <1>b DEF releaseAgreement, holdsLock, at, Read, LockedSteps
    <2>2. released' \in [Releases -> Nat] /\ ReleasesWithinCap'
      <3>1. CASE at(n, "release agreement") /\ counted("agreement")
        BY <3>1, <2>1, CountedTyped DEF Typed, TypeOK, LocksOK, Releases
      <3>2. CASE UNCHANGED released
        BY <3>2 DEF Typed, TypeOK, LocksOK, ReleasesWithinCap
      <3> QED  BY <1>7, <3>1, <3>2 DEF releaseAgreement
    <2>3. TypeOK'
      BY <1>7, <2>1, <2>2, LeaveRequest DEF releaseAgreement, Typed, TypeOK, QuoteStatus, JobStatus,
            Bidding, feeVars, Steps, Subjects, Seen
    <2>4. OneNegotiation'
      BY <1>7, <2>1 DEF releaseAgreement, Typed, TypeOK, LocksOK, OneNegotiation, Negotiating
    <2> QED  BY <1>7, <2>1, <2>2, <2>3, <2>4, <1>d, Unlocked DEF releaseAgreement
  <1>8. CASE releaseSilent(n)
    <2>1. leave(n) /\ t \in Threads /\ holdsLock(n) /\ releaseAllowed("silent")
      BY <1>8, <1>a, <1>b DEF releaseSilent, holdsLock, at, Read, LockedSteps
    <2>2. released' \in [Releases -> Nat] /\ ReleasesWithinCap'
      BY <1>8, <2>1, CountedTyped DEF releaseSilent, Typed, TypeOK, LocksOK, Releases
    <2>3. TypeOK'
      BY <1>8, <2>1, <2>2, LeaveRequest DEF releaseSilent, Typed, TypeOK, QuoteStatus, jobVars,
            feeVars, Steps, Subjects, Seen
    <2>4. OneNegotiation'
      BY <1>8, <2>1 DEF releaseSilent, Typed, TypeOK, LocksOK, OneNegotiation, Negotiating
    <2> QED  BY <1>8, <2>1, <2>2, <2>3, <2>4, <1>d, Unlocked DEF releaseSilent
  <1> QED  BY <1>1, <1>2, <1>3, <1>4, <1>5, <1>6, <1>7, <1>8

\* The steps of the other requests.
LEMMA JobWriteTyped ==
    ASSUME TransportAssumption, Typed, NEW n \in Requests,
           \/ createJob(n) \/ confirm(n) \/ submitReport(n) \/ move(n)
           \/ expirePreparation(n) \/ settleRecorded(n) \/ settleFee(n) \/ RequestEnds(n)
    PROVE  Typed'
  <1> USE DEF Steps, Subjects, Seen
  <1>a. leave(n)
    BY DEF createJob, confirm, submitReport, move, expirePreparation, settleRecorded,
           settleFee, RequestEnds
  \* What is shared: nobody is engaged, and no fee begins.
  <1>b. ASSUME TypeOK', UNCHANGED bound, UNCHANGED <<rounds, released>>,
               \A f \in Fees : fee'[f] # "NONE" => fee[f] # "NONE",
               \A t \in Threads : status'[t] \in Engaged => status[t] \in Engaged
        PROVE  Typed'
    <2>1. RequestsOK'
      BY <1>a, <1>b, LeaveSubjects DEF Typed, RequestsOK
    <2>2. LocksOK'
      BY <1>a, <1>b, LeaveLocks
    <2> QED  BY <1>b, <2>1, <2>2 DEF Typed
  <1>1. CASE createJob(n)
    <2>1. on(n) \in {None, OwnTruck}
      BY <1>1 DEF createJob, Typed, RequestsOK, Subject
    <2>2. jobs' \in 0 .. MaxJobs
      BY <1>1 DEF createJob, Typed, TypeOK, TransportAssumption
    <2>3. TypeOK'
      BY <1>1, <1>a, <2>1, <2>2, LeaveRequest DEF createJob, Typed, TypeOK, JobStatus, Bidding, feeVars
    <2> QED  BY <1>1, <1>b, <2>3 DEF createJob, feeVars, Engaged, Negotiating
  <1>2. CASE confirm(n)
    <2>1. TypeOK'
      BY <1>2, <1>a, LeaveRequest DEF confirm, Typed, TypeOK, bidVars, feeVars
    <2> QED  BY <1>2, <1>b, <2>1 DEF confirm, bidVars, feeVars
  <1>3. CASE submitReport(n)
    <2>1. on(n) \in Threads \cup {OwnTruck}
      BY <1>3 DEF submitReport, Typed, RequestsOK, Subject, at
    <2>2. TypeOK'
      BY <1>3, <1>a, <2>1, LeaveRequest DEF submitReport, Typed, TypeOK, bidVars, feeVars
    <2> QED  BY <1>3, <1>b, <2>2 DEF submitReport, bidVars, feeVars
  <1>4. CASE move(n)
    <2>1. job' \in JobStatus \ {"NONE"}
      BY <1>4 DEF move, MoveSteps, JobStatus, Bidding, Moving
    <2>2. status' \in [Threads -> QuoteStatus \cup {"NONE"}]
          /\ \A t \in Threads : status'[t] \in Engaged => status[t] \in Engaged
      BY <1>4 DEF move, Typed, TypeOK, QuoteStatus, Engaged, Negotiating
    <2>3. TypeOK'
      BY <1>4, <1>a, <2>1, <2>2, LeaveRequest DEF move, Typed, TypeOK, feeVars
    <2> QED  BY <1>4, <1>b, <2>2, <2>3 DEF move, feeVars
  <1>5. CASE expirePreparation(n)
    <2>1. status' \in [Threads -> QuoteStatus \cup {"NONE"}]
          /\ \A t \in Threads : status'[t] \in Engaged => status[t] \in Engaged
      BY <1>5, EndedTyped DEF expirePreparation, Typed
    <2>2. TypeOK'
      BY <1>5, <1>a, <2>1, LeaveRequest DEF expirePreparation, Typed, TypeOK, JobStatus, feeVars
    <2> QED  BY <1>5, <1>b, <2>1, <2>2 DEF expirePreparation, feeVars
  <1>6. CASE RequestEnds(n)
    <2>1. TypeOK'
      BY <1>6, <1>a, LeaveRequest DEF RequestEnds, reading, Typed, TypeOK, jobVars, bidVars, feeVars
    <2> QED  BY <1>6, <1>b, <2>1 DEF RequestEnds, reading, bidVars, feeVars
  <1>7. CASE settleRecorded(n)
    <2>1. on(n) \in Fees
      BY <1>7 DEF settleRecorded, Typed, RequestsOK, Subject, at
    <2>2. TypeOK'
      BY <1>7, <1>a, <2>1, LeaveRequest DEF settleRecorded, Typed, TypeOK, Active, jobVars, bidVars
    <2> QED  BY <1>7, <1>b, <2>1, <2>2 DEF settleRecorded, Typed, TypeOK, bidVars
  <1>8. CASE settleFee(n)
    <2>1. on(n) \in Fees /\ bound[on(n)] \in Threads
      BY <1>8 DEF settleFee, Typed, RequestsOK, Subject, at
    <2>2. TypeOK'
      BY <1>8, <1>a, <2>1, LeaveRequest DEF settleFee, Typed, TypeOK, Active, JobStatus, bidVars
    <2> QED  BY <1>8, <1>b, <2>1, <2>2 DEF settleFee, Typed, TypeOK, bidVars
  <1> QED  BY <1>1, <1>2, <1>3, <1>4, <1>5, <1>6, <1>7, <1>8

\* What changes no request.
LEMMA QuietTyped ==
    ASSUME TransportAssumption, Typed, OrderStep \/ \E f \in Fees : createFee(f) \/ FeeFails(f)
    PROVE  Typed'
  <1>a. ASSUME TypeOK', UNCHANGED request, UNCHANGED <<rounds, released>>,
               \A f \in Fees : fee'[f] # "NONE" => bound'[f] \in Threads,
               \A t \in Threads : status'[t] \in Engaged => status[t] \in Engaged
        PROVE  Typed'
    <2>1. RequestsOK'
      BY <1>a DEF Typed, RequestsOK, Subject, on
    <2>2. OneNegotiation' /\ ReleasesWithinCap'
      BY <1>a DEF Typed, LocksOK, OneNegotiation, ReleasesWithinCap, Engaged
    <2>3. \A n \in Requests : holdsLock(n) => Read(request[n].at, on(n))
      BY DEF Typed, LocksOK
    <2>4. \A n \in Requests : holdsLock(n)' => Read(request[n].at, on(n))'
      BY <1>a, <2>3 DEF holdsLock, Read, on, releaseAllowed
    <2>5. LocksOK'
      BY <1>a, <2>2, <2>4 DEF Typed, LocksOK, holdsLock
    <2> QED  BY <1>a, <2>1, <2>5 DEF Typed
  <1>b. \A f \in Fees : fee[f] # "NONE" => bound[f] \in Threads
    BY DEF Typed, RequestsOK
  <1>1. CASE raiseDispute
    <2>1. TypeOK'
      BY <1>1 DEF raiseDispute, Typed, TypeOK, OrderStatus, jobVars, bidVars, feeVars
    <2> QED  BY <1>1, <1>a, <1>b, <2>1 DEF raiseDispute, bidVars, feeVars
  <1>2. CASE dismissDispute
    <2>1. job' \in JobStatus /\ (job' = "NONE" => job = "NONE")
      BY <1>2 DEF dismissDispute, Typed, TypeOK, JobStatus
    <2>2. held' \in [Fees -> Threads \cup {None, OwnTruck}]
      BY <1>2 DEF dismissDispute, Typed, TypeOK
    <2>3. TypeOK'
      BY <1>2, <2>1, <2>2 DEF dismissDispute, Typed, TypeOK, OrderStatus, bidVars
    <2> QED  BY <1>2, <1>a, <1>b, <2>3 DEF dismissDispute, bidVars
  <1>3. CASE cancelService
    <2>1. TypeOK'
      BY <1>3, EndedTyped DEF cancelService, Typed, TypeOK, OrderStatus, JobStatus, feeVars
    <2> QED  BY <1>3, <1>a, <1>b, <2>1, EndedTyped DEF cancelService, Typed, feeVars
  <1>4. CASE cancelOrder
    <2>1. job' \in JobStatus /\ (job' = "NONE" => job = "NONE")
      BY <1>4 DEF cancelOrder, Typed, TypeOK, JobStatus
    <2>2. /\ status' \in [Threads -> QuoteStatus \cup {"NONE"}]
          /\ \A t \in Threads : status'[t] \in Engaged => status[t] \in Engaged
      BY <1>4, EndedTyped DEF cancelOrder, Typed, TypeOK
    <2>3. TypeOK'
      BY <1>4, <2>1, <2>2 DEF cancelOrder, Typed, TypeOK, OrderStatus, feeVars
    <2> QED  BY <1>4, <1>a, <1>b, <2>2, <2>3 DEF cancelOrder, feeVars
  <1>5. CASE reopenBidding
    <2>1. TypeOK'
      BY <1>5 DEF reopenBidding, Typed, TypeOK, JobStatus, Bidding, bidVars, feeVars
    <2> QED  BY <1>5, <1>a, <1>b, <2>1 DEF reopenBidding, bidVars, feeVars
  <1>6. ASSUME NEW f \in Fees, createFee(f)
        PROVE  Typed'
    <2>1. TypeOK'
      BY <1>6 DEF createFee, Typed, TypeOK, Active, jobVars, bidVars
    <2> QED  BY <1>6, <1>a, <1>b, <2>1 DEF createFee, Typed, TypeOK, bidVars
  <1>7. ASSUME NEW f \in Fees, FeeFails(f)
        PROVE  Typed'
    <2>1. TypeOK'
      BY <1>7 DEF FeeFails, Typed, TypeOK, jobVars, bidVars
    <2> QED  BY <1>7, <1>a, <1>b, <2>1 DEF FeeFails, Typed, TypeOK, bidVars
  <1> QED  BY <1>1, <1>2, <1>3, <1>4, <1>5, <1>6, <1>7 DEF OrderStep

-----------------------------------------------------------------------------
(* The theorems that need no assumption about the provider *)

LEMMA InitTyped ==
    ASSUME TransportAssumption, Init
    PROVE  Typed
  <1>1. TypeOK
    BY DEF TransportAssumption, Init, TypeOK, OrderStatus, JobStatus, Releases, Idle, OpenSteps
  <1>2. RequestsOK
    BY DEF Init, RequestsOK, Subject, on, Idle, LockedSteps
  <1>3. \A n \in Requests : ~holdsLock(n)
    BY DEF Init, holdsLock, Idle, LockedSteps
  <1>4. OneNegotiation
    BY DEF Init, OneNegotiation, Negotiating
  <1>5. ReleasesWithinCap
    BY DEF TransportAssumption, Init, ReleasesWithinCap
  <1> QED  BY <1>1, <1>2, <1>3, <1>4, <1>5 DEF Typed, LocksOK

LEMMA NextTyped ==
    ASSUME TransportAssumption, Typed, [Next]_vars
    PROVE  Typed'
  <1>1. CASE UNCHANGED vars
    BY <1>1 DEF vars, jobVars, bidVars, feeVars, Typed, TypeOK, RequestsOK, LocksOK, Subject, Read,
                on, holdsLock, releaseAllowed, OneNegotiation, ReleasesWithinCap
  <1>2. ASSUME NEW n \in Requests, NEW o \in Owners, AskQuote(n, o)
        PROVE  Typed'
    BY <1>2, AskQuoteTyped
  <1>3. ASSUME NEW n \in Requests, NEW t \in Threads, BidStep(n, t)
        PROVE  Typed'
    BY <1>3, BidStepTyped
  <1>4. ASSUME NEW n \in Requests, JobRequest(n) \/ RequestStep(n)
        PROVE  Typed'
    BY <1>4, JobRequestTyped, BidWriteTyped, JobWriteTyped DEF RequestStep
  <1>5. ASSUME NEW n \in Requests, NEW f \in Fees, AskSettle(n, f)
        PROVE  Typed'
    BY <1>5, AskSettleTyped
  <1>6. CASE OrderStep \/ \E f \in Fees : createFee(f) \/ FeeFails(f)
    BY <1>6, QuietTyped
  <1> QED  BY <1>1, <1>2, <1>3, <1>4, <1>5, <1>6 DEF Next

\* The inductive invariant of the types and of the lock on the job.
THEOREM TransportTypedAndLocked == Spec => []Typed
  <1>1. Init => Typed
    BY InitTyped, TransportAssumption
  <1>2. Typed /\ [Next]_vars => Typed'
    BY NextTyped, TransportAssumption
  <1> QED  BY <1>1, <1>2, PTL DEF Spec

\* Whatever requests overlap, every variable stays in its type; no chain of
\* counters exceeds MAX_COUNTER_ROUNDS (counterQuote).
THEOREM TransportTyped == Spec => []TypeOK
  BY TransportTypedAndLocked, PTL DEF Typed

\* The requester is engaged with one truck owner at a time (select, accept,
\* counter under the lock; withdrawals and overwritten jobs without it).
THEOREM SingleNegotiation == Spec => []OneNegotiation
  BY TransportTypedAndLocked, PTL DEF Typed, LocksOK

\* Neither kind of release exceeds its cap (releaseAllowance, withdraw).
THEOREM TransportReleasesCapped == Spec => []ReleasesWithinCap
  BY TransportTypedAndLocked, PTL DEF Typed, LocksOK

-----------------------------------------------------------------------------
(* The fee and the driver it is for, when a failed fee stays failed *)

\* A paid fee of the driver x.
PaidFor(x) == \E f \in Fees : fee[f] = "PAID" /\ bound[f] = x

\* What a request has found out about the fee and nobody undoes meanwhile.
FeeRead(step, x) ==
    /\ step \in LockedSteps => ~activePayment
    /\ step \in Moving \cup {"approved"} => transportPaid
    /\ step = "report" => PaidFor(x)
    /\ step = "settle" => fee[x] \in Active

PaidOK ==
    /\ FeeBindsDriver
    /\ \A n \in Requests : FeeRead(request[n].at, on(n))
    /\ job \in Moving \/ "approved" \in done => transportPaid
    /\ report # None => PaidFor(report)

\* The requests after one of them started, went on or ended.
LEMMA RequestsRead ==
    ASSUME TypeOK, PaidOK, NEW n \in Requests,
           \/ leave(n)
           \/ \E step, x, seen : goto(n, step, x, seen) /\ FeeRead(step, x)
    PROVE  \A m \in Requests : FeeRead(request'[m].at, request'[m].on)
  <1>1. \A m \in Requests : FeeRead(request[m].at, request[m].on)
    BY DEF PaidOK, on
  <1>2. FeeRead("idle", None)
    BY DEF FeeRead, LockedSteps, Moving
  <1>3. CASE leave(n)
    BY <1>1, <1>2, <1>3, LeaveRequest DEF leave, Idle, TypeOK
  <1>4. ASSUME NEW step, NEW x, NEW seen, goto(n, step, x, seen), FeeRead(step, x)
        PROVE  \A m \in Requests : FeeRead(request'[m].at, request'[m].on)
    <2>1. request' = [request EXCEPT ![n] = [at |-> step, on |-> x, saw |-> seen]]
      BY <1>4 DEF goto
    <2>2. \A m \in Requests : m # n => request'[m] = request[m]
      BY <2>1 DEF TypeOK
    <2>3. request'[n].at = step /\ request'[n].on = x
      BY <2>1 DEF TypeOK
    <2> QED  BY <1>1, <1>4, <2>2, <2>3
  <1> QED  BY <1>3, <1>4

\* The fees stay as they are, and with an active one nobody else is agreed.
LEMMA FeesStay ==
    ASSUME PaidOK, UNCHANGED <<fee, bound>>,
           agreed' \in {agreed, None} \/ ~activePayment,
           \A m \in Requests : FeeRead(request'[m].at, request'[m].on),
           job' \in Moving \/ "approved" \in done' => transportPaid,
           report' # None => PaidFor(report')
    PROVE  PaidOK'
  <1>1. FeeBindsDriver'
    BY DEF PaidOK, FeeBindsDriver, activePayment
  <1>2. \A m \in Requests : FeeRead(request[m].at, on(m))'
    BY DEF FeeRead, on, activePayment, transportPaid, PaidFor
  <1>3. (job \in Moving \/ "approved" \in done => transportPaid)'
    BY DEF transportPaid
  <1>4. (report # None => PaidFor(report))'
    BY DEF PaidFor
  <1> QED  BY <1>1, <1>2, <1>3, <1>4 DEF PaidOK

LEMMA StartKeepsPaid ==
    ASSUME Typed, PaidOK, ~LateSuccess, NEW n \in Requests,
           \/ \E o \in Owners : AskQuote(n, o)
           \/ \E t \in Threads : BidStep(n, t)
           \/ \E f \in Fees : AskSettle(n, f)
           \/ JobRequest(n)
    PROVE  PaidOK'
  <1> USE DEF LockedSteps, Moving
  <1>a. ASSUME NEW step, NEW x, NEW seen, goto(n, step, x, seen), FeeRead(step, x), reading
        PROVE  PaidOK'
    <2>1. \A m \in Requests : FeeRead(request'[m].at, request'[m].on)
      BY <1>a, RequestsRead DEF Typed
    <2> QED  BY <1>a, <2>1, FeesStay DEF PaidOK, reading, jobVars, feeVars
  <1>b. ASSUME NEW step \in LockedSteps, NEW t \in Threads, lock(n, step, t)
        PROVE  PaidOK'
    BY <1>b, <1>a DEF lock, FeeRead
  <1>1. ASSUME NEW o \in Owners, AskQuote(n, o)
        PROVE  PaidOK'
    BY <1>1, <1>a DEF AskQuote, FeeRead
  <1>2. ASSUME NEW t \in Threads, BidStep(n, t)
        PROVE  PaidOK'
    <2>1. CASE AskWithdrawBid(n, t)
      BY <2>1, <1>a DEF AskWithdrawBid, FeeRead
    <2>2. CASE \E step \in LockedSteps : lock(n, step, t)
      BY <2>2, <1>b
    <2> QED  BY <1>2, <2>1, <2>2 DEF BidStep, SelectLock, AcceptLock, RejectLock, CounterLock, ReleaseLock
  <1>3. ASSUME NEW f \in Fees, AskSettle(n, f)
        PROVE  PaidOK'
    <2> DEFINE seen == IF order = "DISPUTED" THEN "DISPUTED"
                       ELSE IF agreed = None THEN "NONE" ELSE status[bound[f]]
    <2>1. fee[f] \in Active /\ goto(n, "settle", f, seen) /\ reading
      BY <1>3 DEF AskSettle, Active
    <2>2. FeeRead("settle", f)
      BY <2>1 DEF FeeRead
    <2> HIDE DEF seen
    <2> QED  BY <2>1, <2>2, <1>a
  <1>4. CASE AskJob(n)
    BY <1>4, <1>a DEF AskJob, FeeRead
  <1>5. CASE AskReport(n)
    <2>1. PaidFor(agreed)
      BY <1>5 DEF AskReport, feePaid, transportPaid, PaidFor, PaidOK, FeeBindsDriver, Active
    <2> QED  BY <1>5, <2>1, <1>a DEF AskReport, FeeRead
  <1>6. CASE ReadUnprepared(n)
    BY <1>6, <1>a DEF ReadUnprepared, FeeRead
  <1>7. ASSUME NEW c \in Confirmations, AskConfirm(n, c)
        PROVE  PaidOK'
    BY <1>7, <1>a DEF AskConfirm, FeeRead, Confirmations
  <1>8. ASSUME NEW next \in MoveSteps, AskMove(n, next)
        PROVE  PaidOK'
    <2>1. next \in Moving => transportPaid
      BY <1>8 DEF AskMove, PaidOK, validTransitions, Confirmations, MoveSteps
    <2>2. FeeRead(next, None)
      BY <2>1 DEF FeeRead, MoveSteps
    <2> QED  BY <1>8, <2>2, <1>a DEF AskMove
  <1> QED  BY <1>1, <1>2, <1>3, <1>4, <1>5, <1>6, <1>7, <1>8 DEF JobRequest

LEMMA WriteKeepsPaid ==
    ASSUME Typed, PaidOK, NEW n \in Requests,
           \/ createQuote(n) \/ withdrawBid(n) \/ selectQuote(n) \/ acceptQuote(n)
           \/ rejectQuote(n) \/ counterQuote(n) \/ releaseAgreement(n) \/ releaseSilent(n)
           \/ createJob(n) \/ confirm(n) \/ submitReport(n) \/ move(n)
           \/ expirePreparation(n) \/ RequestEnds(n)
    PROVE  PaidOK'
  <1> USE DEF jobVars, bidVars, feeVars, Moving
  <1>a. leave(n)
    BY DEF createQuote, withdrawBid, selectQuote, acceptQuote, rejectQuote, counterQuote,
           releaseAgreement, releaseSilent, createJob, confirm, submitReport, move,
           expirePreparation, RequestEnds
  <1>b. \A m \in Requests : FeeRead(request'[m].at, request'[m].on)
    BY <1>a, RequestsRead DEF Typed
  <1>c. FeeRead(request[n].at, on(n)) /\ (job \in Moving \/ "approved" \in done => transportPaid)
        /\ (report # None => PaidFor(report))
    BY DEF PaidOK
  <1>1. CASE createQuote(n)
    BY <1>1, <1>b, <1>c, FeesStay DEF createQuote
  <1>2. CASE withdrawBid(n) \/ selectQuote(n) \/ rejectQuote(n) \/ counterQuote(n) \/ releaseSilent(n)
    BY <1>2, <1>b, <1>c, FeesStay DEF withdrawBid, selectQuote, rejectQuote, counterQuote, releaseSilent
  <1>3. CASE acceptQuote(n)
    BY <1>3, <1>b, <1>c, FeesStay DEF acceptQuote, at, FeeRead, LockedSteps
  <1>4. CASE releaseAgreement(n)
    BY <1>4, <1>b, <1>c, FeesStay DEF releaseAgreement
  <1>5. CASE createJob(n)
    BY <1>5, <1>b, <1>c, FeesStay DEF createJob, activePayment, Active
  <1>6. CASE confirm(n)
    <2>1. "approved" \in done' => transportPaid
      BY <1>6, <1>c DEF confirm, FeeRead, at
    <2> QED  BY <1>6, <1>b, <1>c, <2>1, FeesStay DEF confirm
  <1>7. CASE submitReport(n)
    BY <1>7, <1>b, <1>c, FeesStay DEF submitReport, at, FeeRead
  <1>8. CASE move(n)
    BY <1>8, <1>b, <1>c, FeesStay DEF move, FeeRead
  <1>9. CASE expirePreparation(n)
    BY <1>9, <1>b, <1>c, FeesStay DEF expirePreparation
  <1>10. CASE RequestEnds(n)
    BY <1>10, <1>b, <1>c, FeesStay DEF RequestEnds, reading
  <1> QED  BY <1>1, <1>2, <1>3, <1>4, <1>5, <1>6, <1>7, <1>8, <1>9, <1>10

\* A settlement makes an active fee a paid one: nothing that was active or
\* paid changes.
LEMMA SettleKeepsPaid ==
    ASSUME Typed, PaidOK, NEW n \in Requests, settleRecorded(n) \/ settleFee(n)
    PROVE  PaidOK'
  <1> DEFINE f == on(n)
  <1>1. /\ f \in Fees /\ fee[f] \in Active /\ fee' = [fee EXCEPT ![f] = "PAID"]
        /\ UNCHANGED <<bound, agreed, done, report>> /\ leave(n)
        /\ job' = job \/ job' = "ACCEPTED"
    BY DEF settleRecorded, settleFee, Typed, RequestsOK, Subject, PaidOK, FeeRead, at, jobVars
  <1>2. \A g \in Fees : (fee'[g] \in Active <=> fee[g] \in Active) /\ (fee[g] = "PAID" => fee'[g] = "PAID")
    BY <1>1 DEF Typed, TypeOK, Active
  <1>3. (activePayment' <=> activePayment) /\ (transportPaid => transportPaid')
        /\ \A x : PaidFor(x) => PaidFor(x)'
    BY <1>1, <1>2 DEF activePayment, transportPaid, PaidFor
  <1>4. FeeBindsDriver'
    BY <1>1, <1>2 DEF PaidOK, FeeBindsDriver
  <1>5. \A m \in Requests : FeeRead(request'[m].at, request'[m].on)
    BY <1>1, RequestsRead DEF Typed
  <1>6. \A m \in Requests : Subject(request[m].at, on(m))'
    BY <1>1, LeaveSubjects
  <1>7. \A m \in Requests : FeeRead(request[m].at, on(m))'
    BY <1>2, <1>3, <1>5, <1>6 DEF FeeRead, on, Subject
  <1> HIDE DEF f
  <1>8. (job \in Moving \/ "approved" \in done => transportPaid)' /\ (report # None => PaidFor(report))'
    BY <1>1, <1>3 DEF PaidOK, Moving
  <1> QED  BY <1>4, <1>7, <1>8 DEF PaidOK

\* What changes no request.
LEMMA QuietKeepsPaid ==
    ASSUME Typed, PaidOK, ~LateSuccess,
           OrderStep \/ \E f \in Fees : createFee(f) \/ FeeFails(f)
    PROVE  PaidOK'
  <1> USE DEF jobVars, bidVars, feeVars, Moving
  <1>a. \A m \in Requests : FeeRead(request[m].at, request[m].on)
    BY DEF PaidOK, on
  <1>c. (job \in Moving \/ "approved" \in done => transportPaid) /\ (report # None => PaidFor(report))
    BY DEF PaidOK
  <1>1. CASE raiseDispute
    BY <1>1, <1>a, <1>c, FeesStay DEF raiseDispute
  <1>2. CASE dismissDispute
    BY <1>2, <1>a, <1>c, FeesStay DEF dismissDispute
  <1>3. CASE cancelService
    BY <1>3, <1>a, <1>c, FeesStay DEF cancelService
  <1>4. CASE cancelOrder
    BY <1>4, <1>a, <1>c, FeesStay DEF cancelOrder
  <1>5. CASE reopenBidding
    BY <1>5, <1>a, <1>c, FeesStay DEF reopenBidding
  <1>6. ASSUME NEW f \in Fees, createFee(f)
        PROVE  PaidOK'
    <2>1. /\ fee' = [fee EXCEPT ![f] = "PENDING"] /\ bound' = [bound EXCEPT ![f] = agreed]
          /\ ~activePayment /\ UNCHANGED <<job, agreed, done, report, request>>
          /\ \A m \in Requests : request[m].at \notin LockedSteps
      BY <1>6 DEF createFee, jobFree, Locked
    <2>2. /\ \A g \in Fees \ {f} : fee'[g] = fee[g] /\ bound'[g] = bound[g] /\ fee'[g] \notin Active
          /\ fee[f] \notin Active /\ bound'[f] = agreed
      BY <2>1 DEF activePayment, Typed, TypeOK
    <2>3. FeeBindsDriver'
      BY <2>1, <2>2 DEF FeeBindsDriver
    <2>4. ~transportPaid /\ \A x : ~PaidFor(x)
      BY <2>1 DEF transportPaid, PaidFor, activePayment, Active
    <2>5. \A m \in Requests : FeeRead(request[m].at, on(m))'
      BY <2>1, <2>4, <1>a DEF FeeRead, on, activePayment, Typed, RequestsOK, Subject
    <2> QED  BY <2>1, <2>3, <2>4, <2>5, <1>c DEF PaidOK
  <1>7. ASSUME NEW f \in Fees, FeeFails(f)
        PROVE  PaidOK'
    <2>1. /\ fee[f] = "PENDING" /\ fee' = [fee EXCEPT ![f] = "FAILED"]
          /\ UNCHANGED <<bound, job, agreed, done, report, request>>
          /\ \A m \in Requests : ~(request[m].at = "settle" /\ on(m) = f)
      BY <1>7 DEF FeeFails, at
    <2>2. /\ \A g \in Fees \ {f} : fee'[g] = fee[g]
          /\ fee'[f] = "FAILED"
      BY <2>1 DEF Typed, TypeOK
    <2>3. FeeBindsDriver'
      BY <2>1, <2>2 DEF PaidOK, FeeBindsDriver, Active
    <2>4. (activePayment' => activePayment) /\ (transportPaid => transportPaid')
          /\ \A x : PaidFor(x) => PaidFor(x)'
      BY <2>1, <2>2 DEF activePayment, transportPaid, PaidFor, Active
    <2>5. \A m \in Requests : request[m].at = "settle" => on(m) \in Fees \ {f}
      BY <2>1 DEF Typed, RequestsOK, Subject
    <2>6. \A m \in Requests : FeeRead(request[m].at, on(m))'
      BY <2>1, <2>2, <2>4, <2>5, <1>a DEF FeeRead, on
    <2> QED  BY <2>1, <2>3, <2>4, <2>6, <1>c DEF PaidOK
  <1> QED  BY <1>1, <1>2, <1>3, <1>4, <1>5, <1>6, <1>7 DEF OrderStep

\* The inductive invariant of the fee, if the provider never reports success
\* after a failure.
THEOREM TransportPaid == ASSUME ~LateSuccess PROVE Spec => [](Typed /\ PaidOK)
  <1>1. ASSUME Init
        PROVE  PaidOK
    <2>1. \A f \in Fees : fee[f] \notin Active
      BY <1>1 DEF Init, Active
    <2>2. \A n \in Requests : FeeRead(request[n].at, on(n))
      BY <1>1 DEF Init, FeeRead, Idle, LockedSteps, Moving
    <2>3. job \notin Moving /\ "approved" \notin done /\ report = None
      BY <1>1 DEF Init, Moving
    <2> QED  BY <2>1, <2>2, <2>3 DEF PaidOK, FeeBindsDriver
  <1>2. ASSUME Typed, PaidOK, [Next]_vars
        PROVE  PaidOK'
    <2>1. CASE UNCHANGED vars
      BY <1>2, <2>1 DEF vars, jobVars, feeVars, PaidOK, FeeBindsDriver, FeeRead, on, activePayment,
                        transportPaid, PaidFor
    <2>2. ASSUME NEW n \in Requests,
                 \/ \E o \in Owners : AskQuote(n, o)
                 \/ \E t \in Threads : BidStep(n, t)
                 \/ \E f \in Fees : AskSettle(n, f)
                 \/ JobRequest(n)
          PROVE  PaidOK'
      BY <1>2, <2>2, StartKeepsPaid
    <2>3. ASSUME NEW n \in Requests, RequestStep(n)
          PROVE  PaidOK'
      BY <1>2, <2>3, WriteKeepsPaid, SettleKeepsPaid DEF RequestStep
    <2>4. CASE OrderStep \/ \E f \in Fees : createFee(f) \/ FeeFails(f)
      BY <1>2, <2>4, QuietKeepsPaid
    <2> QED  BY <1>2, <2>1, <2>2, <2>3, <2>4 DEF Next
  <1>3. Typed /\ PaidOK /\ [Next]_vars => (Typed /\ PaidOK)'
    BY <1>2, NextTyped, TransportAssumption
  <1>4. Init => Typed /\ PaidOK
    BY <1>1, InitTyped, TransportAssumption
  <1> QED  BY <1>3, <1>4, PTL DEF Spec

\* While a payment of the fee is active, the driver it was created for is the
\* only one who may be agreed (createPayment, settlePaymentCore, accept).
THEOREM FeeKeepsDriver == ASSUME ~LateSuccess PROVE Spec => []FeeBindsDriver
  BY TransportPaid, PTL DEF PaidOK

\* A hired truck that moves has been paid for by a fee bound to its own driver
\* (status, confirm-loading, settlePaymentCore).
THEOREM DriversArePaid == ASSUME ~LateSuccess PROVE Spec => []DriverPaid
  <1>1. PaidOK => DriverPaid
    BY DEF PaidOK, DriverPaid, Moving, transportPaid, FeeBindsDriver, Active
  <1> QED  BY <1>1, TransportPaid, PTL

\* The loading report is the one of the driver who is agreed (loading-report).
THEOREM ReportsAreDrivers == ASSUME ~LateSuccess PROVE Spec => []ReportIsDrivers
  <1>1. PaidOK => ReportIsDrivers
    BY DEF PaidOK, ReportIsDrivers, PaidFor, FeeBindsDriver, Active
  <1> QED  BY <1>1, TransportPaid, PTL

-----------------------------------------------------------------------------
(* The hire, when a failed fee stays failed *)

\* One fee is alive; the report, and one that is being written, are the agreed
\* driver's; a truck moves, or is about to, after the report.
HireOK ==
    /\ \A f, g \in Fees : fee[f] \in Active /\ fee[g] \in Active => f = g
    /\ report # None => agreed = report
    /\ \A n \in Requests : /\ at(n, "report") => agreed = on(n)
                           /\ request[n].at \in Moving => report # None
    /\ job \in Moving => report # None

\* A request that starts, after the report if it is to move the truck.
LEMMA StartKeepsHire ==
    ASSUME Typed, PaidOK, HireOK, NEW n \in Requests,
           \/ \E o \in Owners : AskQuote(n, o)
           \/ \E t \in Threads : BidStep(n, t)
           \/ \E f \in Fees : AskSettle(n, f)
           \/ JobRequest(n)
    PROVE  reading /\ HireOK'
  <1> USE DEF LockedSteps, Moving
  <1>a. ASSUME NEW step, NEW x, NEW seen, goto(n, step, x, seen), reading,
               step = "report" => agreed = x, step \in Moving => report # None
        PROVE  reading /\ HireOK'
    <2>1. /\ request'[n].at = step /\ request'[n].on = x
          /\ \A m \in Requests \ {n} : request'[m] = request[m]
      BY <1>a DEF goto, Typed, TypeOK
    <2> QED  BY <1>a, <2>1 DEF HireOK, reading, jobVars, feeVars, at, on
  <1>b. ASSUME NEW step \in LockedSteps, NEW t \in Threads, lock(n, step, t)
        PROVE  reading /\ HireOK'
    BY <1>b, <1>a DEF lock
  <1>1. ASSUME NEW o \in Owners, AskQuote(n, o)
        PROVE  reading /\ HireOK'
    BY <1>1, <1>a DEF AskQuote
  <1>2. ASSUME NEW t \in Threads, BidStep(n, t)
        PROVE  reading /\ HireOK'
    <2>1. CASE AskWithdrawBid(n, t)
      BY <2>1, <1>a DEF AskWithdrawBid
    <2>2. CASE \E step \in LockedSteps : lock(n, step, t)
      BY <2>2, <1>b
    <2> QED  BY <1>2, <2>1, <2>2 DEF BidStep, SelectLock, AcceptLock, RejectLock, CounterLock, ReleaseLock
  <1>3. ASSUME NEW f \in Fees, AskSettle(n, f)
        PROVE  reading /\ HireOK'
    BY <1>3, <1>a DEF AskSettle
  <1>4. CASE AskJob(n) \/ AskReport(n) \/ ReadUnprepared(n)
    BY <1>4, <1>a DEF AskJob, AskReport, ReadUnprepared
  <1>5. ASSUME NEW c \in Confirmations, AskConfirm(n, c)
        PROVE  reading /\ HireOK'
    BY <1>5, <1>a DEF AskConfirm, Confirmations
  <1>6. ASSUME NEW next \in MoveSteps, AskMove(n, next)
        PROVE  reading /\ HireOK'
    <2>1. next \in Moving => report # None
      BY <1>6 DEF AskMove, HireOK, validTransitions, MoveSteps
    <2> QED  BY <1>6, <2>1, <1>a DEF AskMove, MoveSteps
  <1> QED  BY <1>1, <1>2, <1>3, <1>4, <1>5, <1>6 DEF JobRequest

\* A request that ends, and writes neither fee nor report.
LEMMA LeaveKeepsHire ==
    ASSUME Typed, PaidOK, HireOK, NEW n \in Requests, leave(n), UNCHANGED <<fee, report>>,
           agreed' = agreed \/ ~transportPaid, job' \in Moving => report # None
    PROVE  HireOK'
  <1>1. \A m \in Requests : /\ at(m, "report")' => at(m, "report") /\ request'[m] = request[m]
                            /\ request'[m].at \in Moving => request'[m] = request[m]
    BY LeaveRequest DEF Typed, at, Moving
  <1>2. report # None \/ (\E m \in Requests : at(m, "report")) => transportPaid
    BY DEF PaidOK, FeeRead, PaidFor, transportPaid, at
  <1> QED  BY <1>1, <1>2 DEF HireOK, on

\* The only fee that is alive.
LEMMA TheFee ==
    ASSUME HireOK, NEW f \in Fees, fee[f] \in Active
    PROVE  activePayment /\ activeFee = f
  <1>1. activePayment
    BY DEF activePayment
  <1>2. activeFee \in Fees /\ fee[activeFee] \in Active
    BY DEF activeFee
  <1> QED  BY <1>1, <1>2 DEF HireOK

\* Whose fee is alive, as Hire sees it.
due == IF activePayment THEN bound[activeFee] ELSE None

\* The job moves and the hire with it, or not.
LEMMA TruckMoves ==
    ASSUME UNCHANGED <<fee, bound, agreed, report>>, job' \in Moving => report # None
    PROVE  [Hire!Next]_Hire!hire
  <1>1. due' = due /\ transportPaid' = transportPaid
    BY DEF due, activePayment, activeFee, transportPaid
  <1>2. CASE (job' \in Moving) = (job \in Moving)
    BY <1>1, <1>2 DEF Hire!hire, due
  <1>3. CASE job' \in Moving
    BY <1>1, <1>3 DEF Hire!Next, Hire!Depart, due
  <1>4. CASE job' \notin Moving
    BY <1>1, <1>4 DEF Hire!Next, Hire!Stop, due
  <1> QED  BY <1>2, <1>3, <1>4

\* Somebody is agreed, or nobody any more, before the fee is paid.
LEMMA DriverChanges ==
    ASSUME UNCHANGED <<fee, bound, report>>, ~transportPaid,
           job \notin Moving, job' \notin Moving,
           agreed' = None \/ (agreed' \in Threads \cup {OwnTruck} /\ ~activePayment)
    PROVE  [Hire!Next]_Hire!hire
  <1>1. due' = due /\ transportPaid' = transportPaid
    BY DEF due, activePayment, activeFee, transportPaid
  <1>2. (job' \in Moving) = (job \in Moving)
    OBVIOUS
  <1>3. CASE agreed' = None
    BY <1>1, <1>2, <1>3 DEF Hire!Next, Hire!GiveUp, due
  <1>4. CASE agreed' \in Threads \cup {OwnTruck} /\ ~activePayment
    BY <1>1, <1>2, <1>4 DEF Hire!Next, Hire!Agree, due
  <1> QED  BY <1>3, <1>4

LEMMA SettleStepHire ==
    ASSUME Typed, PaidOK, HireOK, NEW n \in Requests, settleRecorded(n) \/ settleFee(n)
    PROVE  HireOK' /\ [Hire!Next]_Hire!hire
  <1> DEFINE f == on(n)
  <1>1. /\ f \in Fees /\ fee[f] \in Active /\ fee' = [fee EXCEPT ![f] = "PAID"]
        /\ UNCHANGED <<bound, agreed, report>> /\ leave(n)
        /\ job' = job \/ (job \notin Moving /\ job' \notin Moving)
    BY DEF settleRecorded, settleFee, Typed, RequestsOK, Subject, PaidOK, FeeRead, at, jobVars,
           committable, Bidding, Moving
  <1>2. /\ fee'[f] = "PAID" /\ \A g \in Fees \ {f} : fee'[g] = fee[g]
        /\ \A g \in Fees : fee'[g] \in Active <=> fee[g] \in Active
    BY <1>1 DEF Typed, TypeOK, Active
  <1>3. HireOK'
    <2>1. \A g, h \in Fees : fee'[g] \in Active /\ fee'[h] \in Active => g = h
      BY <1>2 DEF HireOK
    <2>2. \A m \in Requests : /\ at(m, "report")' => at(m, "report") /\ request'[m] = request[m]
                              /\ request'[m].at \in Moving => request'[m] = request[m]
      BY <1>1, LeaveRequest DEF Typed, at, Moving
    <2> QED  BY <1>1, <2>1, <2>2 DEF HireOK, on
  <1> HIDE DEF f
  <1>4. activePayment /\ activePayment' /\ activeFee = f /\ activeFee' = f
    <2>1. \A g \in Fees : (fee[g] \in Active <=> g = f) /\ (fee'[g] \in Active <=> g = f)
      BY <1>1, <1>2 DEF HireOK
    <2> QED  BY <1>1, <2>1 DEF activePayment, activeFee
  <1>5. due = bound[f] /\ due' = bound[f] /\ bound[f] # None
    BY <1>1, <1>4 DEF due, Typed, RequestsOK, Active, Threads, None
  <1>6. transportPaid' = TRUE
    BY <1>1, <1>2 DEF transportPaid
  <1>7. (job' \in Moving) = (job \in Moving)
    BY <1>1
  <1>8. Hire!Pay
    BY <1>1, <1>5, <1>6, <1>7, Zenon DEF Hire!Pay, due
  <1> QED  BY <1>3, <1>8 DEF Hire!Next

LEMMA ReportStepHire ==
    ASSUME Typed, PaidOK, HireOK, NEW n \in Requests, submitReport(n)
    PROVE  HireOK' /\ [Hire!Next]_Hire!hire
  <1> USE DEF jobVars, feeVars
  <1>1. /\ report = None /\ report' = agreed /\ at(n, "report") /\ agreed = on(n)
        /\ UNCHANGED <<fee, bound, agreed, job>> /\ leave(n)
        /\ agreed \in Threads \cup {OwnTruck}
    BY DEF submitReport, HireOK, Typed, RequestsOK, Subject, at
  <1>2. PICK f \in Fees : fee[f] = "PAID" /\ bound[f] = agreed
    BY <1>1 DEF PaidOK, FeeRead, PaidFor, at
  <1>3. due = agreed
    BY <1>2, TheFee DEF due, Active
  <1>4. due' = due /\ transportPaid /\ transportPaid' = transportPaid
    BY <1>1, <1>2 DEF due, activePayment, activeFee, transportPaid
  <1>5. agreed # None
    BY <1>1, TransportAssumption DEF Threads, None, OwnTruck
  <1>6. Hire!Report
    BY <1>1, <1>3, <1>4 DEF Hire!Report, due
  <1>7. HireOK'
    <2>1. \A m \in Requests : /\ at(m, "report")' => at(m, "report") /\ request'[m] = request[m]
                              /\ request'[m].at \in Moving => request'[m] = request[m]
      BY <1>1, LeaveRequest DEF Typed, at, Moving
    <2> QED  BY <1>1, <1>5, <2>1 DEF HireOK, on
  <1> QED  BY <1>6, <1>7 DEF Hire!Next

LEMMA RequestStepHire ==
    ASSUME Typed, PaidOK, HireOK, NEW n \in Requests, RequestStep(n)
    PROVE  HireOK' /\ [Hire!Next]_Hire!hire
  <1> USE DEF jobVars, bidVars, feeVars, reading
  <1>a. ASSUME UNCHANGED <<fee, bound, agreed, report>>, leave(n), job' \in Moving => report # None
        PROVE  HireOK' /\ [Hire!Next]_Hire!hire
    BY <1>a, LeaveKeepsHire, TruckMoves
  <1>b. ASSUME UNCHANGED <<fee, bound, report>>, leave(n), ~activePayment, job' \notin Moving,
               agreed' \in Threads \cup {None, OwnTruck}
        PROVE  HireOK' /\ [Hire!Next]_Hire!hire
    <2>1. ~transportPaid /\ job \notin Moving
      BY <1>b DEF activePayment, transportPaid, PaidOK, Active
    <2> QED  BY <1>b, <2>1, LeaveKeepsHire, DriverChanges
  <1>c. FeeRead(request[n].at, on(n)) /\ (job \in Moving => report # None)
        /\ (request[n].at \in Moving => report # None)
    BY DEF PaidOK, HireOK
  <1>1. CASE \/ createQuote(n) \/ withdrawBid(n) \/ selectQuote(n) \/ rejectQuote(n)
             \/ counterQuote(n) \/ releaseSilent(n) \/ confirm(n) \/ expirePreparation(n)
             \/ RequestEnds(n)
    BY <1>1, <1>a, <1>c DEF createQuote, withdrawBid, selectQuote, rejectQuote, counterQuote,
       releaseSilent, confirm, expirePreparation, RequestEnds, Moving
  <1>2. CASE move(n)
    BY <1>2, <1>a, <1>c DEF move
  <1>3. CASE acceptQuote(n)
    <2>1. on(n) \in Threads /\ ~activePayment
      BY <1>3, <1>c DEF acceptQuote, at, FeeRead, LockedSteps, Typed, RequestsOK, Subject
    <2> QED  BY <1>3, <2>1, <1>b DEF acceptQuote, Moving
  <1>4. CASE releaseAgreement(n)
    <2>1. ~activePayment
      BY <1>4, <1>c DEF releaseAgreement, at, FeeRead, LockedSteps
    <2> QED  BY <1>4, <2>1, <1>b DEF releaseAgreement, Moving
  <1>5. CASE createJob(n)
    <2>1. on(n) \in {None, OwnTruck} /\ ~activePayment
      BY <1>5 DEF createJob, activePayment, Active, Typed, RequestsOK, Subject
    <2> QED  BY <1>5, <2>1, <1>b DEF createJob, Moving
  <1> QED  BY <1>1, <1>2, <1>3, <1>4, <1>5, ReportStepHire, SettleStepHire DEF RequestStep

LEMMA OrderStepHire ==
    ASSUME Typed, PaidOK, HireOK, OrderStep
    PROVE  HireOK' /\ [Hire!Next]_Hire!hire
  <1> USE DEF jobVars, bidVars, feeVars
  <1>1. /\ UNCHANGED <<fee, bound, report, request>>
        /\ \/ agreed' = agreed /\ job' \in {job, "ACCEPTED", "CANCELLED"}
           \/ /\ agreed' = None \/ (agreed' = OwnTruck /\ ~activePayment)
              /\ ~transportPaid /\ job' \in {"REQUESTED", "CANCELLED"}
    BY DEF OrderStep, raiseDispute, dismissDispute, cancelService, cancelOrder, reopenBidding,
           activePayment, transportPaid, Active
  <1>2. report # None \/ (\E m \in Requests : at(m, "report")) => transportPaid
    BY DEF PaidOK, FeeRead, PaidFor, transportPaid, at
  <1>3. job' \in Moving => job \in Moving /\ report # None
    BY <1>1 DEF HireOK, Moving
  <1>4. HireOK'
    BY <1>1, <1>2, <1>3 DEF HireOK, at, on
  <1>5. CASE agreed' = agreed
    BY <1>1, <1>3, <1>4, <1>5, TruckMoves
  <1>6. CASE agreed' # agreed
    <2>1. job \notin Moving /\ job' \notin Moving
      BY <1>1, <1>6 DEF PaidOK, Moving
    <2> QED  BY <1>1, <1>6, <2>1, <1>4, DriverChanges
  <1> QED  BY <1>4, <1>5, <1>6

LEMMA FeeStepHire ==
    ASSUME Typed, PaidOK, HireOK, NEW f \in Fees, createFee(f) \/ FeeFails(f)
    PROVE  HireOK' /\ [Hire!Next]_Hire!hire
  <1> USE DEF jobVars, bidVars, feeVars
  <1>1. /\ UNCHANGED <<job, agreed, report, request>>
        /\ \A g \in Fees \ {f} : fee'[g] = fee[g] /\ bound'[g] = bound[g]
        /\ fee[f] # "PAID" /\ fee'[f] # "PAID"
    BY DEF createFee, FeeFails, Typed, TypeOK
  <1>2. transportPaid' = transportPaid
    BY <1>1 DEF transportPaid
  <1>3. CASE createFee(f)
    <2>1. ~activePayment /\ agreed \in Threads /\ fee'[f] = "PENDING" /\ bound'[f] = agreed
      BY <1>3 DEF createFee, Typed, TypeOK
    <2>2. \A g \in Fees : fee'[g] \in Active <=> g = f
      BY <1>1, <2>1 DEF activePayment, Active
    <2>3. HireOK'
      BY <1>1, <2>2 DEF HireOK, at, on
    <2>4. activePayment' /\ activeFee' = f
      BY <2>2 DEF activePayment, activeFee
    <2>5. due = None /\ due' = agreed
      BY <2>1, <2>4 DEF due
    <2>6. Hire!Ask
      BY <1>1, <1>2, <2>1, <2>5 DEF Hire!Ask, due
    <2> QED  BY <2>3, <2>6 DEF Hire!Next
  <1>4. CASE FeeFails(f)
    <2>1. fee[f] = "PENDING" /\ fee'[f] = "FAILED"
      BY <1>4 DEF FeeFails, Typed, TypeOK
    <2>2. \A g \in Fees : fee[g] \in Active => g = f
      BY <2>1 DEF HireOK, Active
    <2>3. ~activePayment' /\ ~transportPaid
      BY <1>1, <2>1, <2>2 DEF activePayment, transportPaid, Active
    <2>4. HireOK'
      BY <1>1, <2>3 DEF HireOK, at, on, activePayment
    <2>5. due' = None
      BY <2>3 DEF due
    <2>6. Hire!Lapse
      BY <1>1, <1>2, <2>3, <2>5 DEF Hire!Lapse, due
    <2> QED  BY <2>4, <2>6 DEF Hire!Next
  <1> QED  BY <1>3, <1>4

\* Whatever handlers overlap, for any number of owners, bids, fees and requests: nobody else is
\* hired while a fee is alive, a paid driver is never replaced, and the report and the departure
\* are the paid driver's (createPayment, accept, withdraw, loading-report, status).
THEOREM TransportImplementsHire == ASSUME ~LateSuccess PROVE Spec => HireSpec
  <1>1. Init => HireOK /\ Hire!Init
    <2> SUFFICES ASSUME Init PROVE HireOK /\ Hire!Init
      OBVIOUS
    <2>1. ~activePayment /\ ~transportPaid
      BY DEF Init, activePayment, transportPaid, Active
    <2>2. HireOK
      BY DEF Init, HireOK, Active, at, Idle, Moving
    <2>3. job \notin Moving /\ agreed = None /\ report = None
      BY DEF Init, Moving
    <2> QED  BY <2>1, <2>2, <2>3 DEF Hire!Init
  <1>2. Typed /\ PaidOK /\ HireOK /\ [Next]_vars => HireOK' /\ [Hire!Next]_Hire!hire
    <2> SUFFICES ASSUME Typed, PaidOK, HireOK, [Next]_vars
                 PROVE  HireOK' /\ [Hire!Next]_Hire!hire
      OBVIOUS
    <2>1. ASSUME UNCHANGED <<fee, bound, agreed, report, job>>, HireOK'
          PROVE  HireOK' /\ [Hire!Next]_Hire!hire
      BY <2>1, TruckMoves DEF HireOK
    <2>2. CASE UNCHANGED vars
      BY <2>1, <2>2 DEF vars, jobVars, feeVars, HireOK, at, on
    <2>3. ASSUME NEW n \in Requests,
                 \/ \E o \in Owners : AskQuote(n, o)
                 \/ \E t \in Threads : BidStep(n, t)
                 \/ \E f \in Fees : AskSettle(n, f)
                 \/ JobRequest(n)
          PROVE  HireOK' /\ [Hire!Next]_Hire!hire
      BY <2>1, <2>3, StartKeepsHire DEF reading, jobVars, feeVars
    <2> QED  BY <2>2, <2>3, RequestStepHire, OrderStepHire, FeeStepHire DEF Next
  <1> QED  BY <1>1, <1>2, TransportPaid, PTL DEF Spec, HireSpec, Hire!Spec
=============================================================================
