---------------------------- MODULE OffersProofs ----------------------------
(***************************************************************************)
(* What holds of Offers for every number of buyers, requests in flight and *)
(* offers.                                                                 *)
(*                                                                         *)
(* RequestsOK types the requests in flight beyond TypeOK.  LocksOK says    *)
(* what the holder of the lock on the Listing has read and no one else can *)
(* change; the single order and the cap on releases follow.  AgreedOK ties *)
(* the state of an offer, and what a request has seen of it, to the        *)
(* acceptance it went through.                                             *)
(***************************************************************************)
EXTENDS Offers, TLAPS

-----------------------------------------------------------------------------
(* Types *)

\* A bid is by a buyer; every other request is about an offer that exists.
RequestsOK ==
    \A n \in Requests :
        /\ at(n, "bid") => on(n) \in Buyers
        /\ ~at(n, "idle") /\ ~at(n, "bid") => on(n) \in Rows /\ status[on(n)] # "NONE"

Typed == TypeOK /\ RequestsOK

LEMMA NewRowIsFree ==
    ASSUME rowFree
    PROVE  newRow \in Rows /\ status[newRow] = "NONE"
  BY DEF rowFree, newRow

\* A request that starts or goes on, and one that ends, leave the others alone.
LEMMA GotoTyped ==
    ASSUME Typed, NEW n \in Requests, NEW step \in (LockedSteps \cup OpenSteps) \ {"idle"},
           NEW x \in Rows \cup Buyers, goto(n, step, x), reading,
           IF step = "bid" THEN x \in Buyers ELSE x \in Rows /\ status[x] # "NONE"
    PROVE  Typed'
  BY DEF Typed, TypeOK, RequestsOK, goto, reading, rowVars, at, on

LEMMA LeaveRequest ==
    ASSUME TypeOK, NEW n \in Requests, leave(n)
    PROVE  /\ request' \in [Requests -> [at : LockedSteps \cup OpenSteps,
                                         on : Rows \cup Buyers \cup {NoRow}]]
           /\ request'[n] = Idle /\ request'[n].at = "idle"
           /\ \A m \in Requests : m # n => request'[m] = request[m]
  BY DEF TypeOK, leave, Idle, OpenSteps

\* What is left is well formed if no offer disappears.
LEMMA LeaveTyped ==
    ASSUME Typed, NEW n \in Requests, leave(n),
           status' \in [Rows -> OfferStatus \cup {"NONE"}],
           \A r \in Rows : status[r] # "NONE" => status'[r] # "NONE"
    PROVE  RequestsOK'
  BY LeaveRequest DEF Typed, RequestsOK, at, on, Idle

LEMMA RowRequestTyped ==
    ASSUME Typed, NEW n \in Requests, NEW r \in Rows, RowRequest(n, r)
    PROVE  Typed'
  <1> USE DEF LiveLeaf, findLeafOffer, LockedSteps, OpenSteps
  <1>1. CASE SelectLock(n, r)
    BY <1>1, GotoTyped DEF SelectLock, selectable
  <1>2. CASE AskAccept(n, r)
    BY <1>2, GotoTyped DEF AskAccept
  <1>3. CASE AskCounter(n, r)
    BY <1>3, GotoTyped DEF AskCounter
  <1>4. CASE AskEnd(n, r)
    BY <1>4, GotoTyped DEF AskEnd
  <1>5. CASE AskConfirm(n, r)
    BY <1>5, GotoTyped DEF AskConfirm
  <1>6. CASE AskReleaseProvisional(n, r)
    BY <1>6, GotoTyped DEF AskReleaseProvisional
  <1>7. CASE AskExpire(n, r)
    BY <1>7, GotoTyped DEF AskExpire, Negotiating
  <1>8. CASE ReadDueSelected(n, r)
    BY <1>8, GotoTyped DEF ReadDueSelected
  <1> QED  BY <1>1, <1>2, <1>3, <1>4, <1>5, <1>6, <1>7, <1>8 DEF RowRequest

\* A promotion keeps every status one of a row that exists.
LEMMA PromotionTyped ==
    ASSUME NEW s \in [Rows -> OfferStatus \cup {"NONE"}], promoteNextWaitingBuyer(s)
    PROVE  /\ status' \in [Rows -> OfferStatus \cup {"NONE"}]
           /\ \A r \in Rows : s[r] # "NONE" => status'[r] # "NONE"
           /\ \A r \in Rows : \/ status'[r] = s[r]
                              \/ s[r] = "PENDING" /\ status'[r] \in {"ENDED", "SELECTED"}
  BY DEF promoteNextWaitingBuyer, OfferStatus

LEMMA RequestStepTyped ==
    ASSUME OffersAssumption, Typed, NEW n \in Requests, RequestStep(n)
    PROVE  Typed'
  <1> DEFINE r == on(n)
  <1> USE DEF Typed
  <1>a. /\ ~at(n, "idle") /\ ~at(n, "bid") => r \in Rows /\ status[r] # "NONE"
        /\ at(n, "bid") => r \in Buyers
    BY DEF RequestsOK
  <1>b. ASSUME leave(n),
               status' \in [Rows -> OfferStatus \cup {"NONE"}],
               \A s \in Rows : status[s] # "NONE" => status'[s] # "NONE",
               UNCHANGED <<rowVars, agreed, due, order, releases>>
        PROVE  Typed'
    BY <1>b, LeaveTyped, LeaveRequest DEF TypeOK, rowVars
  <1>1. CASE createOffer(n)
    <2>1. /\ at(n, "bid") /\ rowFree /\ leave(n)
          /\ newRow \in Rows /\ status[newRow] = "NONE"
      BY <1>1, NewRowIsFree DEF createOffer
    <2>2. /\ status' \in [Rows -> OfferStatus \cup {"NONE"}]
          /\ buyer' \in [Rows -> Buyers \cup {NoRow}]
          /\ \A s \in Rows : status[s] # "NONE" => status'[s] # "NONE"
      BY <1>1, <1>a, <2>1 DEF createOffer, TypeOK, OfferStatus
    <2> QED  BY <1>1, <2>1, <2>2, LeaveTyped, LeaveRequest DEF createOffer, TypeOK
  <1>2. CASE selectOffer(n)
    BY <1>2, <1>a, <1>b DEF selectOffer, TypeOK, OfferStatus, at
  <1>3. ASSUME NEW step \in OpenSteps, NEW party \in Parties,
               step \notin {"idle", "bid"},
               moveOfferToProvisional(n, step, party)
        PROVE  Typed'
    <2>1. r \in Rows /\ leave(n)
      BY <1>3, <1>a DEF moveOfferToProvisional, at
    <2>2. /\ status' \in [Rows -> OfferStatus \cup {"NONE"}]
          /\ agreed' \subseteq Rows
          /\ \A s \in Rows : status[s] # "NONE" => status'[s] # "NONE"
      BY <1>3, <2>1 DEF moveOfferToProvisional, TypeOK, OfferStatus
    <2> QED  BY <1>3, <2>1, <2>2, LeaveTyped, LeaveRequest
       DEF moveOfferToProvisional, TypeOK, rowVars
  <1>4. ASSUME NEW step \in OpenSteps, NEW party \in Parties,
               step \notin {"idle", "bid"},
               counterOffer(n, step, party)
        PROVE  Typed'
    <2>1. /\ r \in Rows /\ status[r] # "NONE" /\ leave(n)
          /\ newRow \in Rows /\ status[newRow] = "NONE"
      BY <1>4, <1>a, NewRowIsFree DEF counterOffer, at
    <2>2. /\ status' \in [Rows -> OfferStatus \cup {"NONE"}]
          /\ buyer' \in [Rows -> Buyers \cup {NoRow}]
          /\ by' \in [Rows -> Parties]
          /\ parent' \in [Rows -> Rows \cup {NoRow}]
          /\ \A s \in Rows : status[s] # "NONE" => status'[s] # "NONE"
      BY <1>4, <2>1 DEF counterOffer, TypeOK, OfferStatus
    <2> QED  BY <1>4, <2>1, <2>2, LeaveTyped, LeaveRequest DEF counterOffer, TypeOK
  <1>5. CASE rejectOrWithdraw(n)
    BY <1>5, <1>a, <1>b DEF rejectOrWithdraw, TypeOK, OfferStatus, at
  <1>6. CASE ConfirmLock(n)
    BY <1>6, <1>a, GotoTyped DEF ConfirmLock, at, LockedSteps
  <1>7. CASE acceptOfferAndCreateOrder(n)
    <2>1. r \in Rows /\ status[r] # "NONE" /\ leave(n)
      BY <1>7, <1>a DEF acceptOfferAndCreateOrder, at
    <2>2. /\ status' \in [Rows -> OfferStatus \cup {"NONE"}]
          /\ order' \in [Rows -> OrderStatus]
          /\ \A s \in Rows : order'[s] # "NONE" => status'[s] # "NONE"
          /\ \A s \in Rows : status[s] # "NONE" => status'[s] # "NONE"
      BY <1>7, <2>1 DEF acceptOfferAndCreateOrder, TypeOK, OfferStatus, OrderStatus
    <2> QED  BY <1>7, <2>1, <2>2, LeaveTyped, LeaveRequest
       DEF acceptOfferAndCreateOrder, TypeOK, rowVars
  <1>8. CASE releaseProvisional(n)
    <2>1. r \in Rows /\ status[r] # "NONE" /\ leave(n)
      BY <1>8, <1>a DEF releaseProvisional, at
    <2>2. /\ status' \in [Rows -> OfferStatus \cup {"NONE"}]
          /\ \A s \in Rows : status[s] # "NONE" => status'[s] # "NONE"
      BY <1>8, <2>1 DEF releaseProvisional, TypeOK, OfferStatus
    <2>3. releases' = releases \/ releases' = releases + 1
      BY <1>8, Zenon DEF releaseProvisional
    <2>4. releases' \in Nat
      BY <2>3 DEF TypeOK
    <2> QED  BY <1>8, <2>1, <2>2, <2>4, LeaveTyped, LeaveRequest
       DEF releaseProvisional, TypeOK, rowVars
  <1>9. CASE expireOfferIfNeeded(n)
    BY <1>9, <1>a, <1>b DEF expireOfferIfNeeded, TypeOK, OfferStatus, at
  <1>10. CASE expireSelected(n)
    <2>1. [status EXCEPT ![r] = "ENDED"] \in [Rows -> OfferStatus \cup {"NONE"}]
      BY DEF TypeOK, OfferStatus
    <2>2. /\ status' \in [Rows -> OfferStatus \cup {"NONE"}]
          /\ \A s \in Rows : status[s] # "NONE" => status'[s] # "NONE"
      BY <1>10, <2>1, PromotionTyped DEF expireSelected, TypeOK
    <2> QED  BY <1>10, <2>2, <1>b DEF expireSelected
  <1>11. CASE RequestEnds(n)
    BY <1>11, <1>b DEF RequestEnds, reading, TypeOK
  <1> QED
    BY <1>1, <1>2, <1>3, <1>4, <1>5, <1>6, <1>7, <1>8, <1>9, <1>10, <1>11
       DEF RequestStep, OpenSteps, Parties

\* Expiry, orders, the release of the waiting bidders and the recovery.
OtherStep ==
    \/ \E r \in Rows : OrderStep(r) \/ Due(r) \/ expireOffers(r)
    \/ releaseWaitingBidders
    \/ RecoverOffers

\* These are no steps of a request, and name no price.
LEMMA OtherStepFrame ==
    ASSUME OtherStep
    PROVE  UNCHANGED <<rowVars, agreed, releases, request>>
  BY DEF OtherStep, OrderStep, cancelPendingOrder, cancelOrder, GoodsPaid, Dispute, Complete,
         Due, expireOffers, releaseWaitingBidders, RecoverOffers

\* An order moves, once it exists, and no offer disappears.
LEMMA OtherStepMoves ==
    ASSUME Typed, OtherStep
    PROVE  /\ status' \in [Rows -> OfferStatus \cup {"NONE"}]
           /\ \A r \in Rows : status[r] # "NONE" => status'[r] # "NONE"
           /\ \A r \in Rows : status'[r] # status[r]
                 => status'[r] = "ENDED" \/ (status[r] = "PENDING" /\ status'[r] = "SELECTED")
           /\ order' \in [Rows -> OrderStatus]
           /\ \A r \in Rows : active(r)' => active(r)
           /\ \A r \in Rows : order'[r] # "NONE" => order[r] # "NONE"
           /\ due' \subseteq DueRows
  <1> USE DEF Typed, TypeOK, OfferStatus, OrderStatus, active
  <1>1. ASSUME NEW r \in Rows, OrderStep(r)
        PROVE  /\ order' \in [Rows -> OrderStatus]
               /\ \A s \in Rows : active(s)' => active(s)
               /\ \A s \in Rows : order'[s] # "NONE" => order[s] # "NONE"
               /\ due' = due
    <2>1. CASE cancelPendingOrder(r)
      BY <2>1 DEF cancelPendingOrder, orderMoves
    <2>2. CASE cancelOrder(r)
      BY <2>2 DEF cancelOrder, orderMoves
    <2>3. CASE GoodsPaid(r)
      BY <2>3 DEF GoodsPaid, orderMoves
    <2>4. CASE Dispute(r)
      BY <2>4 DEF Dispute, orderMoves
    <2>5. CASE Complete(r)
      BY <2>5 DEF Complete, orderMoves
    <2> QED  BY <1>1, <2>1, <2>2, <2>3, <2>4, <2>5 DEF OrderStep
  <1>2. ASSUME NEW r \in Rows, OrderStep(r)
        PROVE  /\ status' \in [Rows -> OfferStatus \cup {"NONE"}]
               /\ \A s \in Rows : status[s] # "NONE" => status'[s] # "NONE"
               /\ \A s \in Rows : status'[s] # status[s]
                     => status'[s] = "ENDED" \/ (status[s] = "PENDING" /\ status'[s] = "SELECTED")
    <2>1. CASE cancelPendingOrder(r)
      <3> DEFINE given == IF status[r] = "ACCEPTED" THEN [status EXCEPT ![r] = "ENDED"] ELSE status
      <3>1. /\ given \in [Rows -> OfferStatus \cup {"NONE"}]
            /\ \A s \in Rows : status[s] # "NONE" => given[s] # "NONE"
            /\ \A s \in Rows : given[s] = status[s] \/ given[s] = "ENDED"
        OBVIOUS
      <3>2. promoteNextWaitingBuyer(given)
        BY <2>1 DEF cancelPendingOrder
      <3> HIDE DEF given
      <3> QED  BY <3>1, <3>2, PromotionTyped
    <2>2. CASE cancelOrder(r)
      BY <2>2 DEF cancelOrder
    <2>3. CASE GoodsPaid(r)
      BY <2>3 DEF GoodsPaid
    <2>4. CASE Dispute(r)
      BY <2>4 DEF Dispute
    <2>5. CASE Complete(r)
      BY <2>5 DEF Complete
    <2> QED  BY <1>2, <2>1, <2>2, <2>3, <2>4, <2>5 DEF OrderStep
  <1>3. ASSUME NEW r \in Rows, Due(r)
        PROVE  UNCHANGED <<status, order>> /\ due' \subseteq DueRows
    BY <1>3 DEF Due
  <1>4. CASE \E r \in Rows : OrderStep(r)
    BY <1>1, <1>2, <1>4
  <1>5. CASE \E r \in Rows : Due(r)
    BY <1>3, <1>5
  <1>6. CASE \E r \in Rows : expireOffers(r)
    BY <1>6 DEF expireOffers
  <1>7. CASE releaseWaitingBidders
    BY <1>7 DEF releaseWaitingBidders
  <1>8. CASE RecoverOffers
    BY <1>8 DEF RecoverOffers
  <1> QED  BY <1>4, <1>5, <1>6, <1>7, <1>8 DEF OtherStep

LEMMA OtherStepTyped ==
    ASSUME Typed, OtherStep
    PROVE  Typed'
  BY OtherStepFrame, OtherStepMoves DEF Typed, TypeOK, RequestsOK, at, on, rowVars

\* The steps of the system in three kinds.
LEMMA Steps ==
    ASSUME Next
    PROVE  \/ \E n \in Requests, b \in Buyers : AskBid(n, b)
           \/ \E n \in Requests, r \in Rows : RowRequest(n, r)
           \/ \E n \in Requests : RequestStep(n)
           \/ OtherStep
  BY DEF Next, OtherStep

-----------------------------------------------------------------------------
(* The lock on the Listing *)

\* One request holds the lock.  What it read when it took it, that no order is
\* active and that a release is left, still holds when it writes.
LocksOK ==
    /\ \A n, m \in Requests :
          request[n].at \in LockedSteps /\ request[m].at \in LockedSteps => n = m
    /\ \A n \in Requests : request[n].at \in {"select", "create order"} => ~activeOrder
    /\ \A n \in Requests : at(n, "release by seller") => releases < MaxReleases
    /\ ReleasesWithinCap
    /\ OneActiveOrder

\* A request that takes no lock disturbs none.
LEMMA LocksKept ==
    ASSUME Typed, LocksOK, NEW n \in Requests,
           request'[n].at \in LockedSteps => request'[n].at = request[n].at,
           \A m \in Requests : m # n => request'[m] = request[m],
           UNCHANGED <<order, releases>>
    PROVE  LocksOK'
  BY DEF LocksOK, at, activeOrder, active, ReleasesWithinCap, OneActiveOrder, LockedSteps

\* One that takes it while it is free has read what LocksOK says.
LEMMA LockTaken ==
    ASSUME Typed, LocksOK, NEW n \in Requests, NEW step \in LockedSteps, NEW x,
           listingFree, goto(n, step, x), UNCHANGED <<order, releases>>,
           step \in {"select", "create order"} => ~activeOrder,
           step = "release by seller" => releases < MaxReleases
    PROVE  LocksOK'
  <1>1. \A m \in Requests : request[m].at \notin LockedSteps
    BY DEF listingFree, Locked
  <1>2. /\ request'[n].at = step
        /\ \A m \in Requests : m # n => request'[m] = request[m]
    BY DEF goto, Typed, TypeOK
  <1> QED
    BY <1>1, <1>2 DEF LocksOK, at, activeOrder, active, ReleasesWithinCap, OneActiveOrder, LockedSteps

LEMMA GotoUnlocked ==
    ASSUME Typed, LocksOK, NEW n \in Requests, NEW step \in OpenSteps, NEW x,
           goto(n, step, x), reading
    PROVE  LocksOK'
  <1>1. /\ request'[n].at = step
        /\ \A m \in Requests : m # n => request'[m] = request[m]
    BY DEF goto, Typed, TypeOK
  <1>2. step \notin LockedSteps
    BY DEF OpenSteps, LockedSteps
  <1> QED  BY <1>1, <1>2, LocksKept DEF reading

LEMMA RowRequestLocks ==
    ASSUME Typed, LocksOK, NEW n \in Requests, NEW r \in Rows, RowRequest(n, r)
    PROVE  LocksOK'
  <1>1. CASE SelectLock(n, r)
    BY <1>1, LockTaken DEF SelectLock, selectable, reading, LockedSteps
  <1>2. CASE AskReleaseProvisional(n, r)
    BY <1>2, LockTaken DEF AskReleaseProvisional, reading, LockedSteps
  <1>3. ASSUME reading, \E step \in OpenSteps : goto(n, step, r)
        PROVE  LocksOK'
    BY <1>3, GotoUnlocked
  <1> QED
    BY <1>1, <1>2, <1>3
       DEF RowRequest, OpenSteps, AskAccept, AskCounter, AskEnd, AskConfirm, AskExpire, ReadDueSelected

LEMMA RequestStepLocks ==
    ASSUME OffersAssumption, Typed, LocksOK, NEW n \in Requests, RequestStep(n)
    PROVE  LocksOK'
  <1> USE DEF Typed
  <1>1. CASE ConfirmLock(n)
    BY <1>1, LockTaken DEF ConfirmLock, noOtherOrder, reading, LockedSteps
  <1>2. CASE acceptOfferAndCreateOrder(n)
    <2>1. /\ at(n, "create order")
          /\ request'[n].at = "idle"
          /\ \A m \in Requests : m # n => request'[m] = request[m]
          /\ releases' = releases
      BY <1>2, LeaveRequest DEF acceptOfferAndCreateOrder
    <2>2. \A m \in Requests : request'[m].at \notin LockedSteps
      BY <2>1 DEF LocksOK, at, LockedSteps
    <2>3. \A r \in Rows : active(r)' => active(r) \/ r = on(n)
      BY <1>2 DEF acceptOfferAndCreateOrder, active, TypeOK
    <2>4. \A r \in Rows : ~active(r)
      BY <2>1 DEF LocksOK, activeOrder, at
    <2> QED
      BY <2>1, <2>2, <2>3, <2>4
         DEF LocksOK, OneActiveOrder, ReleasesWithinCap, at, LockedSteps
  <1>3. CASE releaseProvisional(n)
    <2>1. /\ request[n].at \in LockedSteps
          /\ request'[n].at = "idle"
          /\ \A m \in Requests : m # n => request'[m] = request[m]
          /\ order' = order
      BY <1>3, LeaveRequest DEF releaseProvisional, LockedSteps
    <2>2. \A m \in Requests : request'[m].at \notin LockedSteps
      BY <2>1 DEF LocksOK, LockedSteps
    <2>3. CASE at(n, "release by seller")
      <3>1. releases < MaxReleases /\ releases' = releases + 1
        BY <1>3, <2>3 DEF releaseProvisional, LocksOK
      <3>2. ReleasesWithinCap'
        BY <3>1, OffersAssumption DEF ReleasesWithinCap, TypeOK, OffersAssumption
      <3> QED
        BY <2>1, <2>2, <3>2 DEF LocksOK, OneActiveOrder, active, at, LockedSteps
    <2>4. CASE ~at(n, "release by seller")
      <3>1. releases' = releases
        BY <1>3, <2>4 DEF releaseProvisional
      <3> QED
        BY <2>1, <3>1, LocksKept DEF LockedSteps
    <2> QED  BY <2>3, <2>4
  <1>4. ASSUME leave(n), UNCHANGED <<order, releases>>
        PROVE  LocksOK'
    BY <1>4, LeaveRequest, LocksKept DEF LockedSteps
  <1> QED
    BY <1>1, <1>2, <1>3, <1>4
       DEF RequestStep, createOffer, selectOffer, moveOfferToProvisional, counterOffer,
           rejectOrWithdraw, expireOfferIfNeeded, expireSelected, RequestEnds, reading

LEMMA OtherStepLocks ==
    ASSUME Typed, LocksOK, OtherStep
    PROVE  LocksOK'
  <1>1. UNCHANGED <<releases, request>>
    BY OtherStepFrame
  <1>2. \A r \in Rows : active(r)' => active(r)
    BY OtherStepMoves
  <1> QED
    BY <1>1, <1>2 DEF LocksOK, at, activeOrder, ReleasesWithinCap, OneActiveOrder

-----------------------------------------------------------------------------
(* Agreement *)

\* A counter-offer is never a waiting or a selected bid, and what it costs and
\* who named that stay.  A request that accepts it comes from the other side,
\* and one that makes the order has seen it accepted.
AgreedOK ==
    /\ \A r \in Rows : status[r] \in {"PROVISIONAL", "ACCEPTED"} => r \in agreed
    /\ \A r \in Rows : parent[r] # NoRow => status[r] \notin {"NONE", "PENDING", "SELECTED"}
    /\ \A n \in Requests :
          /\ at(n, "buyer accepts") /\ parent[on(n)] # NoRow => by[on(n)] # "BUYER"
          /\ at(n, "seller accepts") /\ parent[on(n)] # NoRow => by[on(n)] # "SELLER"
          /\ request[n].at \in {"confirm", "create order"} => on(n) \in agreed
    /\ BothAgreed

\* A request that only reads.
LEMMA GotoAgreed ==
    ASSUME Typed, AgreedOK, NEW n \in Requests, NEW step, NEW x,
           goto(n, step, x), reading,
           step = "buyer accepts" /\ parent[x] # NoRow => by[x] # "BUYER",
           step = "seller accepts" /\ parent[x] # NoRow => by[x] # "SELLER",
           step \in {"confirm", "create order"} => x \in agreed
    PROVE  AgreedOK'
  <1>1. /\ request'[n].at = step /\ request'[n].on = x
        /\ \A m \in Requests : m # n => request'[m] = request[m]
    BY DEF goto, Typed, TypeOK
  <1> QED  BY <1>1 DEF AgreedOK, BothAgreed, reading, rowVars, at, on

LEMMA RowRequestAgreed ==
    ASSUME Typed, AgreedOK, NEW n \in Requests, NEW r \in Rows, RowRequest(n, r)
    PROVE  AgreedOK'
  <1>1. CASE AskAccept(n, r)
    <2>1. status[r] \in {"SELECTED", "COUNTERED"}
      BY <1>1 DEF AskAccept, LiveLeaf
    <2>2. parent[r] # NoRow => status[r] = "COUNTERED"
      BY <2>1 DEF AgreedOK
    <2> QED  BY <1>1, <2>2, GotoAgreed DEF AskAccept, turnOf
  <1>2. CASE AskConfirm(n, r)
    <2>1. r \in agreed
      BY <1>2 DEF AskConfirm, LiveLeaf, AgreedOK
    <2> QED  BY <1>2, <2>1, GotoAgreed DEF AskConfirm
  <1>3. CASE SelectLock(n, r)
    BY <1>3, GotoAgreed DEF SelectLock
  <1>4. CASE AskCounter(n, r)
    BY <1>4, GotoAgreed DEF AskCounter
  <1>5. CASE AskEnd(n, r)
    BY <1>5, GotoAgreed DEF AskEnd
  <1>6. CASE AskReleaseProvisional(n, r)
    BY <1>6, GotoAgreed DEF AskReleaseProvisional
  <1>7. CASE AskExpire(n, r)
    BY <1>7, GotoAgreed DEF AskExpire
  <1>8. CASE ReadDueSelected(n, r)
    BY <1>8, GotoAgreed DEF ReadDueSelected
  <1> QED  BY <1>1, <1>2, <1>3, <1>4, <1>5, <1>6, <1>7, <1>8 DEF RowRequest

\* A step that moves statuses to an end, or a waiting bid to a selection.
LEMMA MovesAgreed ==
    ASSUME Typed, AgreedOK,
           \A r \in Rows : \/ status'[r] \in {status[r], "ENDED"}
                           \/ status[r] = "PENDING" /\ status'[r] = "SELECTED",
           UNCHANGED <<rowVars, agreed>>,
           \A r \in Rows : order'[r] # "NONE" => order[r] # "NONE",
           \A m \in Requests : request'[m] \in {request[m], Idle}
    PROVE  AgreedOK'
  <1>1. \A r \in Rows : status'[r] \in {"PROVISIONAL", "ACCEPTED"} => status'[r] = status[r]
    OBVIOUS
  <1>2. \A r \in Rows : parent[r] # NoRow => status'[r] \notin {"NONE", "PENDING", "SELECTED"}
    BY DEF AgreedOK
  <1>3. Idle.at = "idle"
    BY DEF Idle
  <1> QED  BY <1>1, <1>2, <1>3 DEF AgreedOK, BothAgreed, rowVars, at, on

LEMMA RequestStepAgreed ==
    ASSUME OffersAssumption, Typed, RequestsOK, AgreedOK, NEW n \in Requests, RequestStep(n)
    PROVE  AgreedOK'
  <1> DEFINE r == on(n)
  <1> USE DEF Typed
  <1>a. ~at(n, "idle") /\ ~at(n, "bid") => r \in Rows /\ status[r] # "NONE"
    BY DEF RequestsOK
  <1>b. leave(n) => \A m \in Requests : request'[m] \in {request[m], Idle}
    BY LeaveRequest
  <1>1. CASE createOffer(n)
    <2>1. newRow \in Rows /\ status[newRow] = "NONE"
      BY <1>1, NewRowIsFree DEF createOffer
    <2>2. parent[newRow] = NoRow
      BY <2>1 DEF AgreedOK
    <2>3. /\ \A s \in Rows : status'[s] = IF s = newRow THEN "PENDING" ELSE status[s]
          /\ UNCHANGED <<by, parent, agreed, order>>
      BY <1>1 DEF createOffer, TypeOK
    <2>4. \A m \in Requests : request'[m] \in {request[m], Idle}
      BY <1>1, <1>b DEF createOffer
    <2>5. Idle.at = "idle"
      BY DEF Idle
    <2> QED  BY <2>1, <2>2, <2>3, <2>4, <2>5 DEF AgreedOK, BothAgreed, at, on
  <1>2. CASE selectOffer(n)
    BY <1>2, <1>b, MovesAgreed DEF selectOffer, TypeOK
  <1>3. ASSUME NEW step \in {"buyer accepts", "seller accepts"},
               NEW party, party = IF step = "buyer accepts" THEN "BUYER" ELSE "SELLER",
               moveOfferToProvisional(n, step, party)
        PROVE  AgreedOK'
    <2>1. r \in Rows /\ at(n, step)
      BY <1>3, <1>a DEF moveOfferToProvisional, at
    <2>2. parent[r] = NoRow \/ by[r] # party
      BY <1>3, <2>1 DEF AgreedOK
    <2>3. /\ \A s \in Rows : status'[s] = IF s = r THEN "PROVISIONAL" ELSE status[s]
          /\ agreed' = agreed \cup {r}
          /\ UNCHANGED <<by, parent, order>>
      BY <1>3, <2>2 DEF moveOfferToProvisional, TypeOK, rowVars
    <2>4. \A m \in Requests : request'[m] \in {request[m], Idle}
      BY <1>3, <1>b DEF moveOfferToProvisional
    <2>5. Idle.at = "idle"
      BY DEF Idle
    <2> QED  BY <2>1, <2>3, <2>4, <2>5 DEF AgreedOK, BothAgreed, at, on
  <1>4. ASSUME NEW step \in {"buyer counters", "seller counters"}, NEW party \in Parties,
               counterOffer(n, step, party)
        PROVE  AgreedOK'
    <2>1. /\ r \in Rows /\ status[r] # "NONE"
          /\ newRow \in Rows /\ status[newRow] = "NONE"
      BY <1>4, <1>a, NewRowIsFree DEF counterOffer, at
    <2>2. /\ \A s \in Rows : status'[s] = IF s \in {r, newRow} THEN "COUNTERED" ELSE status[s]
          /\ \A s \in Rows : s # newRow => by'[s] = by[s] /\ parent'[s] = parent[s]
          /\ UNCHANGED <<agreed, order>>
      BY <1>4, <2>1 DEF counterOffer, TypeOK
    <2>3. \A m \in Requests : request'[m] \in {request[m], Idle}
      BY <1>4, <1>b DEF counterOffer
    <2>4. Idle.at = "idle"
      BY DEF Idle
    <2>5. \A m \in Requests : request[m].at \in {"buyer accepts", "seller accepts"}
                                 => on(m) \in Rows /\ on(m) # newRow
      BY <2>1 DEF RequestsOK, at
    <2>6. /\ \A s \in Rows : status'[s] \in {"PROVISIONAL", "ACCEPTED"} => s \in agreed'
          /\ \A s \in Rows :
                parent'[s] # NoRow => status'[s] \notin {"NONE", "PENDING", "SELECTED"}
          /\ BothAgreed'
      BY <2>2 DEF AgreedOK, BothAgreed
    <2>7. ASSUME NEW m \in Requests
          PROVE  /\ at(m, "buyer accepts")' /\ parent'[on(m)'] # NoRow => by'[on(m)'] # "BUYER"
                 /\ at(m, "seller accepts")' /\ parent'[on(m)'] # NoRow => by'[on(m)'] # "SELLER"
                 /\ request'[m].at \in {"confirm", "create order"} => on(m)' \in agreed'
      <3>1. CASE request'[m] = request[m]
        BY <2>2, <2>5, <3>1 DEF AgreedOK, at, on
      <3>2. CASE request'[m] = Idle
        BY <2>4, <3>2 DEF at
      <3> QED  BY <2>3, <3>1, <3>2
    <2> QED  BY <2>6, <2>7 DEF AgreedOK
  <1>5. CASE rejectOrWithdraw(n)
    BY <1>5, <1>b, MovesAgreed DEF rejectOrWithdraw, TypeOK
  <1>6. CASE ConfirmLock(n)
    <2>1. r \in agreed
      BY <1>6 DEF ConfirmLock, AgreedOK, at
    <2> QED  BY <1>6, <2>1, GotoAgreed DEF ConfirmLock
  <1>7. CASE acceptOfferAndCreateOrder(n)
    <2>1. r \in Rows /\ r \in agreed
      BY <1>7, <1>a DEF acceptOfferAndCreateOrder, AgreedOK, at
    <2>2. /\ \A s \in Rows : status'[s] = IF s = r THEN "ACCEPTED" ELSE status[s]
          /\ \A s \in Rows : s # r => order'[s] = order[s]
          /\ UNCHANGED <<by, parent, agreed>>
          /\ status[r] # "NONE"
      BY <1>7, <1>a DEF acceptOfferAndCreateOrder, TypeOK, rowVars, at
    <2>3. \A m \in Requests : request'[m] \in {request[m], Idle}
      BY <1>7, <1>b DEF acceptOfferAndCreateOrder
    <2>4. Idle.at = "idle"
      BY DEF Idle
    <2> QED  BY <2>1, <2>2, <2>3, <2>4 DEF AgreedOK, BothAgreed, at, on
  <1>8. CASE releaseProvisional(n)
    BY <1>8, <1>b, MovesAgreed DEF releaseProvisional, TypeOK
  <1>9. CASE expireOfferIfNeeded(n)
    BY <1>9, <1>b, MovesAgreed DEF expireOfferIfNeeded, TypeOK
  <1>10. CASE expireSelected(n)
    <2> DEFINE given == [status EXCEPT ![r] = "ENDED"]
    <2>1. /\ given \in [Rows -> OfferStatus \cup {"NONE"}]
          /\ \A s \in Rows : given[s] \in {status[s], "ENDED"}
      BY DEF TypeOK, OfferStatus
    <2>2. promoteNextWaitingBuyer(given)
      BY <1>10 DEF expireSelected
    <2> HIDE DEF given
    <2>3. \A s \in Rows : \/ status'[s] \in {status[s], "ENDED"}
                          \/ status[s] = "PENDING" /\ status'[s] = "SELECTED"
      BY <2>1, <2>2, PromotionTyped
    <2> QED  BY <1>10, <2>3, <1>b, MovesAgreed DEF expireSelected
  <1>11. CASE RequestEnds(n)
    BY <1>11, <1>b, MovesAgreed DEF RequestEnds, reading
  <1> QED
    BY <1>1, <1>2, <1>3, <1>4, <1>5, <1>6, <1>7, <1>8, <1>9, <1>10, <1>11
       DEF RequestStep, Parties

LEMMA OtherStepAgreed ==
    ASSUME Typed, AgreedOK, OtherStep
    PROVE  AgreedOK'
  <1>1. \A m \in Requests : request'[m] \in {request[m], Idle}
    BY OtherStepFrame
  <1> QED  BY <1>1, OtherStepFrame, OtherStepMoves, MovesAgreed

-----------------------------------------------------------------------------
(* Theorems *)

Inv == Typed /\ LocksOK /\ AgreedOK

LEMMA InvInductive == Spec => []Inv
  <1>1. Init => Inv
    <2> SUFFICES ASSUME Init PROVE Inv
      OBVIOUS
    <2>1. Typed
      BY OffersAssumption
         DEF Init, Typed, TypeOK, RequestsOK, Idle, OfferStatus, Parties, OrderStatus, OpenSteps, at
    <2>2. \A n \in Requests : request[n].at = "idle"
      BY DEF Init, Idle
    <2>3. LocksOK
      <3>1. \A r \in Rows : ~active(r)
        BY DEF Init, active
      <3>2. releases <= MaxReleases
        BY OffersAssumption DEF Init
      <3> QED
        BY <2>2, <3>1, <3>2 DEF LocksOK, LockedSteps, at, ReleasesWithinCap, OneActiveOrder
    <2>4. AgreedOK
      BY <2>2 DEF Init, AgreedOK, BothAgreed, at
    <2> QED  BY <2>1, <2>3, <2>4 DEF Inv
  <1>2. Inv /\ [Next]_vars => Inv'
    <2> SUFFICES ASSUME Inv, [Next]_vars PROVE Inv'
      OBVIOUS
    <2> USE DEF Inv
    <2>1. ASSUME NEW n \in Requests, NEW b \in Buyers, AskBid(n, b)
          PROVE  Inv'
      <3>1. Typed'
        BY <2>1, GotoTyped DEF AskBid, OpenSteps
      <3>2. LocksOK'
        BY <2>1, GotoUnlocked DEF AskBid, OpenSteps
      <3>3. AgreedOK'
        BY <2>1, GotoAgreed DEF AskBid
      <3> QED  BY <3>1, <3>2, <3>3
    <2>2. ASSUME NEW n \in Requests, NEW r \in Rows, RowRequest(n, r)
          PROVE  Inv'
      BY <2>2, RowRequestTyped, RowRequestLocks, RowRequestAgreed
    <2>3. ASSUME NEW n \in Requests, RequestStep(n)
          PROVE  Inv'
      BY <2>3, OffersAssumption, RequestStepTyped, RequestStepLocks, RequestStepAgreed DEF Typed
    <2>4. CASE OtherStep
      BY <2>4, OtherStepTyped, OtherStepLocks, OtherStepAgreed
    <2>5. CASE UNCHANGED vars
      <3>1. Typed'
        BY <2>5 DEF vars, rowVars, Typed, TypeOK, RequestsOK, at, on
      <3>2. LocksOK'
        BY <2>5 DEF vars, LocksOK, OneActiveOrder, ReleasesWithinCap, activeOrder, active, at
      <3>3. AgreedOK'
        BY <2>5 DEF vars, rowVars, AgreedOK, BothAgreed, at, on
      <3> QED  BY <3>1, <3>2, <3>3
    <2> QED  BY <2>1, <2>2, <2>3, <2>4, <2>5, Steps
  <1> QED  BY <1>1, <1>2, PTL DEF Spec

\* The data of the rows and of the requests in flight, for any number of buyers,
\* offers and requests.
THEOREM OffersTyped == Spec => []TypeOK
  <1>1. Inv => TypeOK
    BY DEF Inv, Typed
  <1> QED  BY <1>1, InvInductive, PTL

\* However many confirmations, cancellations, disputes and promotions overlap, a
\* listing has at most one order that is neither cancelled nor completed
\* (acceptOfferAndCreateOrder under the lock on the Listing).
THEOREM SingleOrder == Spec => []OneActiveOrder
  <1>1. Inv => OneActiveOrder
    BY DEF Inv, LocksOK
  <1> QED  BY <1>1, InvInductive, PTL

\* No order is made at a price that the other side has not accepted, although
\* counters, rejections and expiries write without condition.
THEOREM OrdersAreAgreed == Spec => []BothAgreed
  <1>1. Inv => BothAgreed
    BY DEF Inv, AgreedOK
  <1> QED  BY <1>1, InvInductive, PTL

\* The cap on the seller's releases holds for every number of requests in
\* flight, because they are counted under the lock (releaseProvisional).
THEOREM ReleasesCapped == Spec => []ReleasesWithinCap
  <1>1. Inv => ReleasesWithinCap
    BY DEF Inv, LocksOK
  <1> QED  BY <1>1, InvInductive, PTL

\* A selection that commits does so while no order is active (selectOffer).
THEOREM SelectionExcludesOrder == Spec => NoSelectionDuringOrder
  <1>1. Inv => \A n \in Requests : at(n, "select") => ~activeOrder
    BY DEF Inv, LocksOK, at
  <1>2. Inv => [\A n \in Requests :
                   /\ at(n, "select") /\ request'[n] = Idle
                   /\ status[on(n)] = "PENDING" /\ status'[on(n)] = "SELECTED"
                   => ~activeOrder]_vars
    BY <1>1
  <1> QED  BY <1>2, InvInductive, PTL DEF NoSelectionDuringOrder

-----------------------------------------------------------------------------
(* The contract *)

\* A step that touches the order and the acceptance of one offer moves its deal.
LEMMA DealMoves ==
    ASSUME NEW r \in Rows,
           \A s \in Rows \ {r} : order'[s] = order[s] /\ (s \in agreed' <=> s \in agreed)
    PROVE  deal' = [deal EXCEPT ![r] = deal'[r]]
  <1>1. \A s \in Rows \ {r} : deal'[s] = deal[s]
    BY DEF deal, active
  <1>2. /\ deal' = [s \in Rows |-> deal'[s]]
        /\ deal = [s \in Rows |-> deal[s]]
    BY DEF deal
  <1> QED  BY <1>1, <1>2

LEMMA DealStays ==
    ASSUME UNCHANGED <<order, agreed>>
    PROVE  deal' = deal
  BY DEF deal, active

LEMMA RequestStepDeals ==
    ASSUME Typed, LocksOK, AgreedOK, NEW n \in Requests, RequestStep(n)
    PROVE  [Contract!Next]_<<deal, releases>>
  <1> DEFINE r == on(n)
  <1> USE DEF Contract!Next
  <1>1. ASSUME UNCHANGED <<order, agreed, releases>>
        PROVE  UNCHANGED <<deal, releases>>
    BY <1>1, DealStays
  <1>2. ASSUME NEW step \in {"buyer accepts", "seller accepts"}, NEW party,
               moveOfferToProvisional(n, step, party)
        PROVE  [Contract!Next]_<<deal, releases>>
    <2>1. /\ r \in Rows /\ UNCHANGED <<order, releases>>
          /\ agreed' \in {agreed, agreed \cup {r}}
      BY <1>2 DEF moveOfferToProvisional, Typed, RequestsOK, at
    <2>2. CASE agreed' = agreed
      BY <1>1, <2>1, <2>2
    <2>3. CASE agreed' = agreed \cup {r} /\ r \notin agreed
      <3>1. order[r] = "NONE"
        BY <2>1, <2>3 DEF AgreedOK, BothAgreed
      <3>2. deal[r] = "TALK" /\ deal'[r] = "AGREED"
        BY <2>1, <2>3, <3>1 DEF deal, active
      <3>3. deal' = [deal EXCEPT ![r] = "AGREED"]
        BY <2>1, <2>3, <3>2, DealMoves
      <3> QED  BY <2>1, <3>2, <3>3 DEF Contract!Agree, Contract!Move
    <2> QED  BY <2>1, <2>2, <2>3
  <1>3. CASE acceptOfferAndCreateOrder(n)
    <2>1. /\ r \in Rows /\ r \in agreed /\ ~activeOrder
          /\ order[r] = "NONE"
          /\ order' = [order EXCEPT ![r] = "PENDING_PAYMENT"]
          /\ UNCHANGED <<agreed, releases>>
      BY <1>3 DEF acceptOfferAndCreateOrder, Typed, RequestsOK, LocksOK, AgreedOK, at
    <2>2. deal[r] = "AGREED" /\ deal'[r] = "OPEN"
      BY <2>1 DEF deal, active, Typed, TypeOK
    <2>3. deal' = [deal EXCEPT ![r] = "OPEN"]
      BY <2>1, <2>2, DealMoves DEF Typed, TypeOK
    <2>4. \A s \in Rows : deal[s] # "OPEN"
      BY <2>1 DEF deal, active, activeOrder, Typed, TypeOK, OrderStatus
    <2> QED  BY <2>1, <2>2, <2>3, <2>4 DEF Contract!Conclude, Contract!Move
  <1>4. CASE releaseProvisional(n)
    <2>1. deal' = deal
      BY <1>4, DealStays DEF releaseProvisional
    <2>2. CASE at(n, "release by seller")
      <3>1. releases < MaxReleases /\ releases' = releases + 1
        BY <1>4, <2>2 DEF releaseProvisional, LocksOK
      <3> QED  BY <2>1, <3>1 DEF Contract!GiveUp
    <2>3. CASE ~at(n, "release by seller")
      BY <1>4, <2>1, <2>3 DEF releaseProvisional
    <2> QED  BY <2>2, <2>3
  <1>5. CASE \/ createOffer(n) \/ selectOffer(n) \/ rejectOrWithdraw(n) \/ ConfirmLock(n)
             \/ expireOfferIfNeeded(n) \/ expireSelected(n) \/ RequestEnds(n)
             \/ counterOffer(n, "buyer counters", "BUYER")
             \/ counterOffer(n, "seller counters", "SELLER")
    <2>1. UNCHANGED <<order, agreed, releases>>
      BY <1>5 DEF createOffer, selectOffer, rejectOrWithdraw, ConfirmLock, expireOfferIfNeeded,
                  expireSelected, RequestEnds, counterOffer, reading
    <2> QED  BY <1>1, <2>1
  <1> QED  BY <1>2, <1>3, <1>4, <1>5 DEF RequestStep

\* An order that moves stays open or is finished.
LEMMA OrderStepDeals ==
    ASSUME Typed, NEW r \in Rows, OrderStep(r)
    PROVE  [Contract!Next]_<<deal, releases>>
  <1>1. /\ active(r) /\ order'[r] \in OrderStatus \ {"NONE"}
        /\ \A s \in Rows \ {r} : order'[s] = order[s]
        /\ UNCHANGED <<agreed, releases>>
    BY DEF OrderStep, cancelPendingOrder, cancelOrder, GoodsPaid, Dispute, Complete, orderMoves,
           active, OrderStatus, Typed, TypeOK
  <1>2. deal[r] = "OPEN" /\ deal'[r] \in {"OPEN", "DONE"}
    BY <1>1 DEF deal, active, OrderStatus
  <1>3. deal' = [deal EXCEPT ![r] = deal'[r]]
    BY <1>1, DealMoves
  <1>4. CASE deal'[r] = "OPEN"
    <2>1. deal = [s \in Rows |-> deal[s]]
      BY DEF deal
    <2>2. deal' = deal
      BY <1>2, <1>3, <1>4, <2>1
    <2> QED  BY <1>1, <2>2
  <1>5. CASE deal'[r] = "DONE"
    BY <1>1, <1>2, <1>3, <1>5 DEF Contract!Next, Contract!Finish, Contract!Move
  <1> QED  BY <1>2, <1>4, <1>5

\* The competition keeps the contract, for any number of buyers, offers and
\* requests in flight: what is not agreed by both sides never becomes an order, a second
\* order waits for the end of the first, and nothing that ended comes back.
THEOREM OffersImplementContract == Spec => ContractSpec
  <1>1. Init => Contract!Init
    BY DEF Init, Contract!Init, deal, active
  <1>2. Inv /\ [Next]_vars => [Contract!Next]_<<deal, releases>>
    <2> SUFFICES ASSUME Inv, [Next]_vars PROVE [Contract!Next]_<<deal, releases>>
      OBVIOUS
    <2> USE DEF Inv
    <2>1. CASE UNCHANGED <<order, agreed, releases>>
      BY <2>1, DealStays
    <2>2. CASE \E n \in Requests : RequestStep(n)
      BY <2>2, RequestStepDeals
    <2>3. CASE \E r \in Rows : OrderStep(r)
      BY <2>3, OrderStepDeals
    <2>4. \/ UNCHANGED <<order, agreed, releases>>
          \/ \E n \in Requests : RequestStep(n)
          \/ \E r \in Rows : OrderStep(r)
      BY DEF Next, vars, AskBid, RowRequest, SelectLock, AskAccept, AskCounter, AskEnd, AskConfirm,
             AskReleaseProvisional, AskExpire, ReadDueSelected, reading, Due, expireOffers,
             releaseWaitingBidders, RecoverOffers
    <2> QED  BY <2>1, <2>2, <2>3, <2>4
  <1> QED  BY <1>1, <1>2, InvInductive, PTL DEF Spec, ContractSpec, Contract!Spec
=============================================================================
