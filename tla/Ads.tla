--------------------------------- MODULE Ads ---------------------------------
(***************************************************************************)
(* One advertising campaign (routes/ads.js): its payment by the owner or   *)
(* an admin, the review that banners and Telegram promotions need, its     *)
(* cancellation, and the sweeps that publish and expire it.                *)
(*                                                                         *)
(* Every route reads the campaign with its payments and writes later, by   *)
(* id; settlement writes the status without looking at it.                 *)
(***************************************************************************)
EXTENDS Bills

CONSTANTS
  AdBills,      \* the payments of BillIds that can be for the campaign
  AdCalls       \* requests that can be at work at one time

ASSUME AdAssumption == AdBills \subseteq BillIds

VARIABLES
  campaign,     \* the row of Advertisement, and where now is in its dates
  adCall,       \* what each request has read; an idle one has op "idle"
  reviewed      \* history: has an admin decided to show it?

adVars == <<bill, report, paidBills, campaign, adCall, reviewed>>

NoAdCall == [op |-> "idle", by |-> "owner", pending |-> {}, paid |-> {}]

\* A BANNER is a TELEGRAM_PROMOTION without the publication by hand, and the
\* types that promote a listing are one.
AdTypes    == {"FEATURED_LISTING", "TELEGRAM_PROMOTION"}
AdTerminal == {"REJECTED", "EXPIRED", "CANCELLED"}
Windows    == {"before", "during", "after"}

isReviewRequired == campaign.type # "FEATURED_LISTING"

\* POST / of a campaign that is to begin now or later.
AdsInit ==
  /\ BillsInit
  /\ \E type \in AdTypes :
       campaign = [type |-> type, status |-> "PENDING_PAYMENT", window |-> "before"]
  /\ adCall = [c \in AdCalls |-> NoAdCall]
  /\ reviewed = FALSE

WithStatus(status) == {p \in BillIds : bill[p].status = status}

ReadAd(c, call) ==
  /\ adCall[c] = NoAdCall
  /\ adCall' = [adCall EXCEPT ![c] = call]
  /\ UNCHANGED <<billVars, campaign, reviewed>>

EndAdCall(c, op) ==
  /\ adCall[c].op = op
  /\ adCall' = [adCall EXCEPT ![c] = NoAdCall]

Becomes(status) == campaign' = [campaign EXCEPT !.status = status]

-----------------------------------------------------------------------------
\* POST /payments for the campaign, by its owner or an admin: each may have one.

ReadUnpaid(c) ==
  \E by \in Creators :
    /\ campaign.status = "PENDING_PAYMENT"
    /\ \A p \in LiveBills : bill[p].by # by
    /\ ReadAd(c, [NoAdCall EXCEPT !.op = "bill", !.by = by])

BillCampaign(c) ==
  /\ EndAdCall(c, "bill")
  /\ \E p \in AdBills : CreateBill(p, adCall[c].by)
  /\ UNCHANGED <<campaign, reviewed>>

-----------------------------------------------------------------------------
\* PATCH /:id/status by an admin.

ReadForReview(c) ==
  /\ WithStatus("PAID") # {}
  /\ ReadAd(c, [NoAdCall EXCEPT !.op = "show"])

Approve(c) ==
  /\ EndAdCall(c, "show")
  /\ \/ isReviewRequired /\ Becomes(IF campaign.window = "before" THEN "SCHEDULED" ELSE "PUBLISHED")
     \/ Becomes("SCHEDULED")
     \/ campaign.window = "during" /\ Becomes("PUBLISHED")
  /\ reviewed' = TRUE
  /\ UNCHANGED billVars

\* Nothing that was read decides this one.
TakeDown ==
  /\ Becomes("REJECTED") \/ Becomes("EXPIRED")
  /\ UNCHANGED <<billVars, adCall, reviewed>>

\* PATCH /:id/telegram-publication, after a review.
ReadTelegram(c) ==
  /\ campaign.type = "TELEGRAM_PROMOTION"
  /\ campaign.status = "SCHEDULED" /\ campaign.window = "during"
  /\ WithStatus("PAID") # {}
  /\ ReadAd(c, [NoAdCall EXCEPT !.op = "telegram"])

PublishTelegram(c) ==
  /\ EndAdCall(c, "telegram")
  /\ Becomes("PUBLISHED")
  /\ UNCHANGED <<billVars, reviewed>>

-----------------------------------------------------------------------------
\* PATCH /:id/cancel: the payments read as PENDING are failed, those read as
\* PAID must still be so, or be refunded already.  (The owner may only before a
\* payment, an admin always.)

ReadForCancel(c) ==
  /\ campaign.status \notin AdTerminal
  /\ ReadAd(c, [NoAdCall EXCEPT !.op = "cancel", !.pending = WithStatus("PENDING"),
                               !.paid = WithStatus("PAID")])

CancelCampaign(c) ==
  LET call == adCall[c]
  IN  /\ EndAdCall(c, "cancel")
      /\ \A p \in call.paid : bill[p].status \in {"PAID", "REFUND_PENDING"}
      /\ Becomes("CANCELLED")
      /\ bill' = [p \in BillIds |->
                   IF p \in call.paid THEN [bill[p] EXCEPT !.status = "REFUND_PENDING"]
                   ELSE IF p \in call.pending THEN [bill[p] EXCEPT !.status = "FAILED"]
                   ELSE bill[p]]
      /\ UNCHANGED <<report, paidBills, reviewed>>

\* A request is refused, fails or is rolled back.
AdCallEnds(c) ==
  /\ adCall[c] # NoAdCall
  /\ adCall' = [adCall EXCEPT ![c] = NoAdCall]
  /\ UNCHANGED <<billVars, campaign, reviewed>>

-----------------------------------------------------------------------------

ReadCampaignBill(n) ==
  /\ \E p \in BillIds : ReadBill(n, p, TRUE)
  /\ UNCHANGED <<campaign, adCall, reviewed>>

StatusOncePaid ==
  IF isReviewRequired THEN "PAID_PENDING_REVIEW"
  ELSE IF campaign.window = "before" THEN "SCHEDULED" ELSE "PUBLISHED"

\* settlePaymentCore: whatever the status of the campaign is by then.
SettleCampaign(n) ==
  /\ \E p \in BillIds : WriteBill(n, p)
  /\ IF report[n].says = "PAID" THEN Becomes(StatusOncePaid) ELSE UNCHANGED campaign
  /\ UNCHANGED <<adCall, reviewed>>

\* The sweeps of maintenanceService, and time.
ExpireAdvertisement ==
  /\ campaign.window = "after" /\ campaign.status \in {"PUBLISHED", "SCHEDULED"}
  /\ Becomes("EXPIRED")
  /\ UNCHANGED <<billVars, adCall, reviewed>>

ActivateScheduled ==
  /\ campaign.window = "during" /\ campaign.status = "SCHEDULED"
  /\ Becomes("PUBLISHED")
  /\ UNCHANGED <<billVars, adCall, reviewed>>

DatePasses ==
  /\ campaign.window # "after"
  /\ campaign' = [campaign EXCEPT !.window = IF @ = "before" THEN "during" ELSE "after"]
  /\ UNCHANGED <<billVars, adCall, reviewed>>

AdsNext ==
  \/ \E c \in AdCalls :
       \/ ReadUnpaid(c) \/ BillCampaign(c)
       \/ ReadForReview(c) \/ Approve(c)
       \/ ReadTelegram(c) \/ PublishTelegram(c)
       \/ ReadForCancel(c) \/ CancelCampaign(c) \/ AdCallEnds(c)
  \/ \E n \in BillReports : ReadCampaignBill(n) \/ SettleCampaign(n)
  \/ TakeDown \/ ExpireAdvertisement \/ ActivateScheduled \/ DatePasses
  \/ BillSteps /\ UNCHANGED <<campaign, adCall, reviewed>>

AdsSpec == AdsInit /\ [][AdsNext]_adVars

-----------------------------------------------------------------------------

AdStatus ==
  {"PENDING_PAYMENT", "PAID_PENDING_REVIEW", "SCHEDULED", "PUBLISHED"} \cup AdTerminal

\* The campaign and the requests have the values of the schema.
AdsTypeOK ==
  /\ BillsTypeOK
  /\ campaign \in [type : AdTypes, status : AdStatus, window : Windows]
  /\ adCall \in [AdCalls -> [op : {"idle", "bill", "show", "telegram", "cancel"},
                             by : Creators, pending : SUBSET BillIds, paid : SUBSET BillIds]]
  /\ reviewed \in BOOLEAN

\* A campaign is shown, or about to be, only if a payment for it was settled
\* and, if its type "requires moderation" (settlePaymentCore), an admin decided
\* so: however stale the payments were that an admin or a cancellation acted on,
\* and whichever sweep published it.
ShownIsEarned ==
  campaign.status \in {"SCHEDULED", "PUBLISHED"} =>
    /\ paidBills # {}
    /\ isReviewRequired => reviewed
=============================================================================
