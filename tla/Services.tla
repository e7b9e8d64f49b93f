------------------------------- MODULE Services -------------------------------
(***************************************************************************)
(* The services that stand beside the trade, put together: the standing of *)
(* providers, the review of a price, repeated requests, queued texts,      *)
(* sign-in sessions, digital products, campaigns, and the books.           *)
(*                                                                         *)
(* They share no variable, apart from the payments of the last three, each *)
(* with its own.  Whatever one of them does leaves the others as they are, *)
(* so that a behaviour of all of them is a behaviour of each, and every    *)
(* formula below about one service is decided by that service alone.  A    *)
(* behaviour here is one of the service chosen at its start.               *)
(***************************************************************************)
EXTENDS Standing, PriceReview, Idempotency, Outbox, Sessions, Digital, Ads, Books

VARIABLE part     \* the service that is at work

servicesVars ==
  <<part, standingVars, priceVars, idemVars, outboxVars, sessionVars, billVars,
    purchase, tap, campaign, adCall, reviewed, feeVars>>

Parts == {"standing", "price", "idempotency", "outbox", "sessions", "digital", "ads", "books"}

\* A service that is not at work starts from one of its states.
ServicesInit ==
  /\ part \in Parts
  /\ StandingInit /\ PriceInit /\ IdemInit /\ OutboxInit /\ SessionsInit
  /\ DigitalInit /\ AdsInit /\ BooksInit
  /\ part # "price" => \A price \in Prices : deal.finalPrice <= price
  /\ part # "ads" => campaign.type = "FEATURED_LISTING"

StandingStep ==
  /\ part = "standing" /\ StandingNext
  /\ UNCHANGED <<part, priceVars, idemVars, outboxVars, sessionVars, billVars,
                 purchase, tap, campaign, adCall, reviewed, feeVars>>

PriceStep ==
  /\ part = "price" /\ PriceNext
  /\ UNCHANGED <<part, standingVars, idemVars, outboxVars, sessionVars, billVars,
                 purchase, tap, campaign, adCall, reviewed, feeVars>>

IdempotencyStep ==
  /\ part = "idempotency" /\ IdemNext
  /\ UNCHANGED <<part, standingVars, priceVars, outboxVars, sessionVars, billVars,
                 purchase, tap, campaign, adCall, reviewed, feeVars>>

OutboxStep ==
  /\ part = "outbox" /\ OutboxNext
  /\ UNCHANGED <<part, standingVars, priceVars, idemVars, sessionVars, billVars,
                 purchase, tap, campaign, adCall, reviewed, feeVars>>

SessionsStep ==
  /\ part = "sessions" /\ SessionsNext
  /\ UNCHANGED <<part, standingVars, priceVars, idemVars, outboxVars, billVars,
                 purchase, tap, campaign, adCall, reviewed, feeVars>>

DigitalStep ==
  /\ part = "digital" /\ DigitalNext
  /\ UNCHANGED <<part, standingVars, priceVars, idemVars, outboxVars, sessionVars,
                 campaign, adCall, reviewed, feeVars>>

AdsStep ==
  /\ part = "ads" /\ AdsNext
  /\ UNCHANGED <<part, standingVars, priceVars, idemVars, outboxVars, sessionVars,
                 purchase, tap, feeVars>>

BooksStep ==
  /\ part = "books" /\ BooksNext
  /\ UNCHANGED <<part, standingVars, priceVars, idemVars, outboxVars, sessionVars,
                 purchase, tap, campaign, adCall, reviewed>>

ServicesNext ==
  \/ StandingStep \/ PriceStep \/ IdempotencyStep \/ OutboxStep \/ SessionsStep
  \/ DigitalStep \/ AdsStep \/ BooksStep

\* The timer of every server fires again and again, and a call to the gateway
\* or the database ends.
ServicesFairness ==
  \A k \in Cycles :
    WF_servicesVars(/\ part = "outbox" /\ CycleStep(k)
                    /\ UNCHANGED <<part, standingVars, priceVars, idemVars, sessionVars,
                                   billVars, purchase, tap, campaign, adCall, reviewed, feeVars>>)

ServicesSpec == ServicesInit /\ [][ServicesNext]_servicesVars /\ ServicesFairness

-----------------------------------------------------------------------------

\* Every service's rows and requests have the values of the schema.
ServicesTypeOK ==
  /\ part \in Parts
  /\ StandingTypeOK /\ PriceTypeOK /\ IdemTypeOK /\ OutboxTypeOK /\ SessionsTypeOK
  /\ DigitalTypeOK /\ AdsTypeOK /\ BooksTypeOK

\* Nothing that costs money is delivered unpaid: not a digital product, and not
\* a campaign, which some types also need a review for (settlePaymentCore, the
\* routes of digital.js and ads.js, the sweeps of maintenanceService).
DeliveredWasPaid == OwnedWasPaid /\ ShownIsEarned

\* Every queued text is sent or given up, also after a server stopped in the
\* middle of a cycle: the lock "can never be stranded" (withJobLock).
TextsAreSettled ==
  \A m \in Messages : (part = "outbox" /\ Pending(m)) ~> ~Pending(m)
=============================================================================
