------------------------------ MODULE Standing ------------------------------
(***************************************************************************)
(* The standing of one provider (truck owner or inspector), as             *)
(* services/providerStandingService.js keeps it: penalties for cancelling  *)
(* accepted agreements, suspensions of growing length, the way back.       *)
(*                                                                         *)
(* Every operation reads the row, decides, and writes it without a         *)
(* condition, so that several at work on the row at the same time each use *)
(* what they read first.  A call is therefore two steps: StandingRead and  *)
(* one of the writes.  The first UPDATE of a transaction locks the row and *)
(* returns it as it is by then; what follows in that transaction happens   *)
(* in the same step.                                                       *)
(***************************************************************************)
EXTENDS Integers, FiniteSets

CONSTANTS
  StandingCalls,   \* requests and sweeps that can be at work at one time
  Threshold,       \* providerFlagThreshold()
  Tiers,           \* Len(SUSPENSION_DAYS): suspensions that end by a timer
  MaxCancels       \* bound on the cancellations of a behaviour

ASSUME StandingAssumption ==
  /\ IsFiniteSet(StandingCalls)
  /\ Threshold \in Nat \ {0}
  /\ Tiers \in Nat
  /\ MaxCancels \in Nat

VARIABLES
  standing,   \* the row of ProviderStanding
  strikes,    \* release events after suspendedAt and within 30 days
  standCall,  \* what each call has read; an idle one has op "idle"
  tally       \* history: cancellations, and the suspensions of each kind

standingVars == <<standing, strikes, standCall, tally>>

\* Points of the rating, in hundredths.
CancelPenalty     == 10
SuspensionPenalty == 50

Timers == {"unset", "running", "over"}

NewStanding ==
  [status |-> "GOOD", suspensionCount |-> 0, suspendedUntil |-> "unset",
   probationUntil |-> "unset", ratingPenalty |-> 0, appealed |-> FALSE]

IdleCall == [op |-> "idle", row |-> NewStanding, late |-> FALSE]

StandingInit ==
  /\ standing = NewStanding
  /\ strikes = 0
  /\ standCall = [c \in StandingCalls |-> IdleCall]
  /\ tally = [cancels |-> 0, byStrikes |-> 0, onProbation |-> 0]

-----------------------------------------------------------------------------
\* settleTimers decides on the row it was given and writes the row there is.

SuspensionOver(row) == row.status = "SUSPENDED" /\ row.suspendedUntil = "over"
ProbationOver(row)  == row.status = "PROBATION" /\ row.probationUntil = "over"
Settles(row) == SuspensionOver(row) \/ ProbationOver(row)

Half(points) == (points + 1) \div 2

SettledRow(read, row) ==
  IF SuspensionOver(read) THEN [row EXCEPT !.status = "REJOIN_PENDING"]
  ELSE IF ProbationOver(read)
    THEN [row EXCEPT !.status = "GOOD", !.probationUntil = "unset",
                     !.ratingPenalty = Half(read.ratingPenalty)]
  ELSE row

\* What settleTimers returns: the row it updated, or the one it was given.
SettledCopy(read, row) == IF Settles(read) THEN SettledRow(read, row) ELSE read

SuspendedRow(row) ==
  [status          |-> "SUSPENDED",
   suspensionCount |-> row.suspensionCount + 1,
   suspendedUntil  |-> IF row.suspensionCount < Tiers THEN "running" ELSE "unset",
   probationUntil  |-> "unset",
   ratingPenalty   |-> row.ratingPenalty + SuspensionPenalty,
   appealed        |-> FALSE]

-----------------------------------------------------------------------------
\* The read of each operation, with the refusals that it decides.

MayStart(op) ==
  CASE op = "cancel"    -> tally.cancels
                             + Cardinality({c \in StandingCalls : standCall[c].op = "cancel"})
                             < MaxCancels
    [] op = "settle"    -> Settles(standing)
    [] op = "rejoin"    -> SettledCopy(standing, standing).status = "REJOIN_PENDING"
    [] op = "appeal"    -> standing.status = "SUSPENDED" /\ ~standing.appealed
    [] op = "reinstate" -> standing.status \in {"SUSPENDED", "REJOIN_PENDING"}

StandingOps == {"cancel", "settle", "rejoin", "appeal", "reinstate"}

\* A cancellation records its event before it reads the row: a suspension of
\* the meantime is later than that event, which then counts for nothing.
StandingRead(c) ==
  /\ standCall[c].op = "idle"
  /\ \E op \in StandingOps :
       /\ MayStart(op)
       /\ standCall' = [standCall EXCEPT ![c] = [op |-> op, row |-> standing, late |-> FALSE]]
  /\ UNCHANGED <<standing, strikes, tally>>

-----------------------------------------------------------------------------
\* The writes.

Writing(c, op) ==
  /\ standCall[c].op = op
  /\ standCall' = [standCall EXCEPT ![c] = IdleCall]

\* The row as the update of the penalty returns it.
PenalisedRow(read, row) ==
  [SettledRow(read, row) EXCEPT
    !.ratingPenalty = SettledCopy(read, row).ratingPenalty + CancelPenalty]

StrikesNow(c) == strikes + (IF standCall[c].late THEN 0 ELSE 1)

\* applyProviderCancellation, below the threshold.
CancelCounts(c) ==
  LET row == PenalisedRow(standCall[c].row, standing)
  IN  /\ Writing(c, "cancel")
      /\ row.status # "PROBATION"
      /\ StrikesNow(c) < Threshold
      /\ standing' = row
      /\ strikes' = StrikesNow(c)
      /\ tally' = [tally EXCEPT !.cancels = @ + 1]

\* The events of cancellations that are still at work are older than suspendedAt.
EventsGrowLate(calls) ==
  [d \in StandingCalls |-> IF calls[d].op = "cancel" THEN [calls[d] EXCEPT !.late = TRUE]
                                                     ELSE calls[d]]

\* A suspension after which the strikes that led to it still count.
SuspendsAndKeepsStrikes(c) ==
  /\ standCall[c].op = "cancel"
  /\ StrikesNow(c) >= Threshold
  /\ standing' = SuspendedRow(PenalisedRow(standCall[c].row, standing))
  /\ strikes' = StrikesNow(c)
  /\ standCall' = EventsGrowLate([standCall EXCEPT ![c] = IdleCall])
  /\ tally' = [tally EXCEPT !.cancels = @ + 1, !.byStrikes = @ + 1]

\* applyProviderCancellation, suspending.
CancelSuspends(c) ==
  LET row == PenalisedRow(standCall[c].row, standing)
      kind == IF row.status = "PROBATION" THEN "onProbation" ELSE "byStrikes"
  IN  /\ standCall[c].op = "cancel"
      /\ row.status = "PROBATION" \/ StrikesNow(c) >= Threshold
      /\ standing' = SuspendedRow(row)
      /\ strikes' = 0
      /\ standCall' = EventsGrowLate([standCall EXCEPT ![c] = IdleCall])
      /\ tally' = [tally EXCEPT !.cancels = @ + 1, ![kind] = @ + 1]

\* settleTimers from the sweep, the gate for bids or the provider's summary.
SettleWrites(c) ==
  /\ Writing(c, "settle")
  /\ standing' = SettledRow(standCall[c].row, standing)
  /\ UNCHANGED <<strikes, tally>>

RejoinWrites(c) ==
  /\ Writing(c, "rejoin")
  /\ standing' = [SettledRow(standCall[c].row, standing) EXCEPT
                   !.status = "PROBATION", !.probationUntil = "running"]
  /\ UNCHANGED <<strikes, tally>>

AppealWrites(c) ==
  /\ Writing(c, "appeal")
  /\ standing' = [standing EXCEPT !.appealed = TRUE]
  /\ UNCHANGED <<strikes, tally>>

ReinstateWrites(c) ==
  /\ Writing(c, "reinstate")
  /\ \E to \in {"PROBATION", "GOOD"}, clearPenalty \in BOOLEAN :
       standing' = [standing EXCEPT
         !.status = to,
         !.suspendedUntil = "unset",
         !.probationUntil = IF to = "PROBATION" THEN "running" ELSE "unset",
         !.ratingPenalty = IF clearPenalty THEN 0 ELSE standCall[c].row.ratingPenalty,
         !.appealed = FALSE]
  /\ UNCHANGED <<strikes, tally>>

-----------------------------------------------------------------------------
\* Time.

SuspensionRunsOut ==
  /\ standing.suspendedUntil = "running"
  /\ standing' = [standing EXCEPT !.suspendedUntil = "over"]
  /\ UNCHANGED <<strikes, standCall, tally>>

ProbationRunsOut ==
  /\ standing.probationUntil = "running"
  /\ standing' = [standing EXCEPT !.probationUntil = "over"]
  /\ UNCHANGED <<strikes, standCall, tally>>

\* An event leaves the window of 30 days.
StrikeAges ==
  /\ strikes > 0
  /\ strikes' = strikes - 1
  /\ UNCHANGED <<standing, standCall, tally>>

StandingNext ==
  \/ \E c \in StandingCalls :
       \/ StandingRead(c)
       \/ CancelCounts(c) \/ CancelSuspends(c)
       \/ SettleWrites(c) \/ RejoinWrites(c) \/ AppealWrites(c) \/ ReinstateWrites(c)
  \/ SuspensionRunsOut \/ ProbationRunsOut \/ StrikeAges

StandingSpec == StandingInit /\ [][StandingNext]_standingVars

-----------------------------------------------------------------------------

StandingRows ==
  [status : {"GOOD", "SUSPENDED", "REJOIN_PENDING", "PROBATION"},
   suspensionCount : Nat, suspendedUntil : Timers, probationUntil : Timers,
   ratingPenalty : Nat, appealed : BOOLEAN]

\* The row and the copies of it have the columns of the schema.
StandingTypeOK ==
  /\ standing \in StandingRows
  /\ strikes \in Nat
  /\ standCall \in [StandingCalls ->
                      [op : StandingOps \cup {"idle"}, row : StandingRows, late : BOOLEAN]]
  /\ tally \in [cancels : Nat, byStrikes : Nat, onProbation : Nat]

\* A suspension for repeated cancellations takes Threshold of them, one on
\* probation takes one, and none is counted for two suspensions; the tier
\* counts every suspension.
SuspensionsAreEarned ==
  /\ Threshold * tally.byStrikes + tally.onProbation <= tally.cancels
  /\ standing.suspensionCount = tally.byStrikes + tally.onProbation

\* The points taken from the rating are never more than the cancellations and
\* the suspensions cost.
PenaltyIsEarned ==
  standing.ratingPenalty <= CancelPenalty * tally.cancels
                              + SuspensionPenalty * standing.suspensionCount

\* What the comment at the head of providerStandingService.js promises: bidding
\* penalties are taken for cancellations, "3 cancellations since the last
\* suspension" for a suspension, one while on probation (applyProviderCancellation).
PenaltiesAreEarned == SuspensionsAreEarned /\ PenaltyIsEarned
=============================================================================
