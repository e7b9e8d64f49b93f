------------------------ MODULE StandingPriceProofs -------------------------
(***************************************************************************)
(* Proofs about Standing, for any number of calls at work, any threshold   *)
(* and any number of tiers and cancellations, and about PriceReview, for   *)
(* any number of proposals and requests and any prices.                    *)
(***************************************************************************)
EXTENDS Standing, PriceReview, TLAPS

-----------------------------------------------------------------------------
(* The standing of a provider *)

\* The most that the events so far cost.
Cost == CancelPenalty * tally.cancels + SuspensionPenalty * standing.suspensionCount

\* Strikes that count are cancellations that no suspension has used up.
StrikesOK ==
  /\ Threshold * tally.byStrikes + tally.onProbation + strikes <= tally.cancels
  /\ standing.suspensionCount = tally.byStrikes + tally.onProbation

\* A penalty that a call holds a copy of was once the penalty.
CopiesOK ==
  /\ standing.ratingPenalty <= Cost
  /\ \A c \in StandingCalls : standCall[c].row.ratingPenalty <= Cost

EarnedInv == StandingTypeOK /\ StrikesOK /\ CopiesOK

-----------------------------------------------------------------------------

\* Settling a timer keeps the columns of the row, counts no suspension, and
\* leaves at most the penalty that was read.
LEMMA SettledFacts ==
  ASSUME NEW read \in StandingRows, NEW row \in StandingRows
  PROVE  /\ SettledRow(read, row) \in StandingRows
         /\ SettledRow(read, row).suspensionCount = row.suspensionCount
         /\ SettledRow(read, row).ratingPenalty \in {row.ratingPenalty, Half(read.ratingPenalty)}
<1>1. Half(read.ratingPenalty) \in Nat
  BY DEF StandingRows, Half
<1>2. CASE SuspensionOver(read)
  BY <1>2 DEF SettledRow, StandingRows
<1>3. CASE ~SuspensionOver(read) /\ ProbationOver(read)
  BY <1>1, <1>3 DEF SettledRow, StandingRows, Timers
<1>4. CASE ~SuspensionOver(read) /\ ~ProbationOver(read)
  BY <1>4 DEF SettledRow
<1> QED BY <1>2, <1>3, <1>4

\* Half of the points is at most all of them.
LEMMA HalfBound == ASSUME NEW n \in Nat PROVE Half(n) \in Nat /\ Half(n) <= n
  BY DEF Half

\* settleTimers returns a row with the columns of the schema, and no penalty
\* that is neither the row's nor one that was read.
LEMMA SettledBound ==
  ASSUME NEW read \in StandingRows, NEW row \in StandingRows, NEW cost \in Nat,
         read.ratingPenalty <= cost, row.ratingPenalty <= cost
  PROVE  /\ SettledRow(read, row).ratingPenalty <= cost
         /\ SettledCopy(read, row) \in StandingRows
         /\ SettledCopy(read, row).ratingPenalty <= cost
<1>1. read.ratingPenalty \in Nat /\ row.ratingPenalty \in Nat
  BY DEF StandingRows
<1>2. Half(read.ratingPenalty) \in Nat /\ Half(read.ratingPenalty) <= read.ratingPenalty
  BY <1>1, HalfBound
<1>3. SettledRow(read, row).ratingPenalty <= cost
  BY <1>1, <1>2, SettledFacts
<1> QED BY <1>3, SettledFacts DEF SettledCopy

\* The update of a penalty adds the points of one cancellation.
LEMMA PenalisedFacts ==
  ASSUME NEW read \in StandingRows, NEW row \in StandingRows, NEW cost \in Nat,
         read.ratingPenalty <= cost, row.ratingPenalty <= cost
  PROVE  /\ PenalisedRow(read, row) \in StandingRows
         /\ PenalisedRow(read, row).suspensionCount = row.suspensionCount
         /\ PenalisedRow(read, row).ratingPenalty <= cost + CancelPenalty
<1>1. /\ SettledRow(read, row) \in StandingRows
      /\ SettledRow(read, row).suspensionCount = row.suspensionCount
      /\ SettledCopy(read, row) \in StandingRows
      /\ SettledCopy(read, row).ratingPenalty <= cost
  BY SettledFacts, SettledBound
<1>2. SettledCopy(read, row).ratingPenalty \in Nat
  BY <1>1 DEF StandingRows
<1> QED BY <1>1, <1>2 DEF PenalisedRow, StandingRows, CancelPenalty

\* A suspension counts one and adds its points.
LEMMA SuspendedFacts ==
  ASSUME NEW row \in StandingRows
  PROVE  /\ SuspendedRow(row) \in StandingRows
         /\ SuspendedRow(row).suspensionCount = row.suspensionCount + 1
         /\ SuspendedRow(row).ratingPenalty = row.ratingPenalty + SuspensionPenalty
  BY DEF SuspendedRow, StandingRows, SuspensionPenalty, Timers

\* What the calls hold does not change when their events grow late.
LEMMA LateKeepsRows ==
  ASSUME StandingTypeOK, NEW calls,
         calls \in [StandingCalls ->
                      [op : StandingOps \cup {"idle"}, row : StandingRows, late : BOOLEAN]]
  PROVE  /\ EventsGrowLate(calls) \in
              [StandingCalls ->
                 [op : StandingOps \cup {"idle"}, row : StandingRows, late : BOOLEAN]]
         /\ \A c \in StandingCalls : EventsGrowLate(calls)[c].row = calls[c].row
  BY DEF EventsGrowLate

Tallies == [cancels : Nat, byStrikes : Nat, onProbation : Nat]

\* A suspension is one more cancellation and one more suspension of its kind.
LEMMA TallyGrows ==
  ASSUME NEW t \in Tallies
  PROVE  /\ [t EXCEPT !.cancels = @ + 1, !.byStrikes = @ + 1] \in Tallies
         /\ [t EXCEPT !.cancels = @ + 1, !.onProbation = @ + 1] \in Tallies
<1> DEFINE u == [t EXCEPT !.cancels = @ + 1]
<1>1. u \in Tallies
  BY DEF Tallies
<1> HIDE DEF u
<1>2. /\ [u EXCEPT !.byStrikes = @ + 1] \in Tallies
      /\ [u EXCEPT !.onProbation = @ + 1] \in Tallies
  BY <1>1 DEF Tallies
<1> QED BY <1>2 DEF u

-----------------------------------------------------------------------------

\* A step that leaves the tally and the strikes, or lets one age, keeps them
\* right if it counts no suspension and takes no point.
LEMMA QuietStep ==
  ASSUME EarnedInv, StandingTypeOK',
         tally' = tally, strikes' <= strikes,
         standing'.suspensionCount = standing.suspensionCount,
         standing'.ratingPenalty <= Cost,
         \A c \in StandingCalls : standCall'[c].row.ratingPenalty <= Cost
  PROVE  EarnedInv'
<1>1. Cost' = Cost
  BY DEF Cost
<1>2. /\ Threshold * tally.byStrikes \in Nat
      /\ tally.onProbation \in Nat /\ strikes \in Nat /\ strikes' \in Nat /\ tally.cancels \in Nat
  BY StandingAssumption DEF EarnedInv, StandingTypeOK
<1>3. StrikesOK'
  BY <1>2 DEF EarnedInv, StrikesOK
<1>4. CopiesOK'
  BY <1>1 DEF CopiesOK
<1> QED BY <1>3, <1>4 DEF EarnedInv

\* The initial row owes nothing.
LEMMA EarnedAtFirst == StandingInit => EarnedInv
<1> SUFFICES ASSUME StandingInit PROVE EarnedInv
  OBVIOUS
<1> USE DEF StandingInit
<1>1. NewStanding \in StandingRows
  BY DEF NewStanding, StandingRows, Timers
<1>2. StandingTypeOK
  BY <1>1 DEF StandingTypeOK, IdleCall
<1>3. Cost = 0
  BY DEF Cost, CancelPenalty, SuspensionPenalty, NewStanding
<1>4. StrikesOK
  BY StandingAssumption DEF StrikesOK, NewStanding
<1>5. CopiesOK
  BY <1>3 DEF CopiesOK, NewStanding, IdleCall
<1> QED BY <1>2, <1>4, <1>5 DEF EarnedInv

\* Every step keeps what was taken within what was earned.
LEMMA EarnedStep == EarnedInv /\ [StandingNext]_standingVars => EarnedInv'
<1> SUFFICES ASSUME EarnedInv, [StandingNext]_standingVars PROVE EarnedInv'
  OBVIOUS
<1>t. StandingTypeOK /\ StrikesOK /\ CopiesOK
  BY DEF EarnedInv
<1>n. /\ tally.cancels \in Nat /\ tally.byStrikes \in Nat /\ tally.onProbation \in Nat
      /\ strikes \in Nat /\ standing \in StandingRows
      /\ standing.suspensionCount \in Nat /\ standing.ratingPenalty \in Nat
      /\ Threshold \in Nat \ {0}
  BY <1>t, StandingAssumption DEF StandingTypeOK, StandingRows
<1>c. Cost \in Nat /\ standing.ratingPenalty <= Cost
  BY <1>t, <1>n DEF Cost, CancelPenalty, SuspensionPenalty, CopiesOK
<1>r. ASSUME NEW c \in StandingCalls
      PROVE  /\ standCall[c] \in [op : StandingOps \cup {"idle"}, row : StandingRows, late : BOOLEAN]
             /\ standCall[c].row \in StandingRows
             /\ standCall[c].row.ratingPenalty \in Nat
             /\ standCall[c].row.ratingPenalty <= Cost
  BY <1>t DEF StandingTypeOK, CopiesOK, StandingRows
<1>i. /\ IdleCall \in [op : StandingOps \cup {"idle"}, row : StandingRows, late : BOOLEAN]
      /\ IdleCall.row.ratingPenalty = 0
  BY DEF IdleCall, NewStanding, StandingRows, Timers
<1>w. ASSUME NEW c \in StandingCalls, NEW op, Writing(c, op)
      PROVE  /\ standCall' \in [StandingCalls ->
                  [op : StandingOps \cup {"idle"}, row : StandingRows, late : BOOLEAN]]
             /\ \A d \in StandingCalls : standCall'[d].row.ratingPenalty <= Cost
  BY <1>t, <1>r, <1>i, <1>w, <1>c DEF Writing, StandingTypeOK
<1>s. ASSUME NEW c \in StandingCalls
      PROVE  /\ StrikesNow(c) \in Nat /\ StrikesNow(c) <= strikes + 1
  BY <1>n DEF StrikesNow
<1>p. ASSUME NEW c \in StandingCalls
      PROVE  LET row == PenalisedRow(standCall[c].row, standing)
             IN  /\ row \in StandingRows
                 /\ row.suspensionCount = standing.suspensionCount
                 /\ row.ratingPenalty \in Nat
                 /\ row.ratingPenalty <= Cost + CancelPenalty
  <2>1. /\ PenalisedRow(standCall[c].row, standing) \in StandingRows
        /\ PenalisedRow(standCall[c].row, standing).suspensionCount = standing.suspensionCount
        /\ PenalisedRow(standCall[c].row, standing).ratingPenalty <= Cost + CancelPenalty
    BY <1>n, <1>c, <1>r, PenalisedFacts
  <2> QED BY <2>1 DEF StandingRows
<1>1. ASSUME NEW c \in StandingCalls, StandingRead(c) PROVE EarnedInv'
  <2>1. PICK op \in StandingOps :
          standCall' = [standCall EXCEPT ![c] = [op |-> op, row |-> standing, late |-> FALSE]]
    BY <1>1 DEF StandingRead
  <2>2. standing' = standing /\ strikes' = strikes /\ tally' = tally
    BY <1>1 DEF StandingRead
  <2>3. StandingTypeOK'
    BY <1>t, <2>1, <2>2 DEF StandingTypeOK
  <2>4. \A d \in StandingCalls : standCall'[d].row.ratingPenalty <= Cost
    BY <1>t, <1>r, <1>c, <2>1 DEF StandingTypeOK
  <2> QED BY <1>n, <1>c, <2>2, <2>3, <2>4, QuietStep
<1>2. ASSUME NEW c \in StandingCalls, CancelCounts(c) PROVE EarnedInv'
  <2> DEFINE row == PenalisedRow(standCall[c].row, standing)
  <2>1. /\ Writing(c, "cancel") /\ standing' = row /\ strikes' = StrikesNow(c)
        /\ tally' = [tally EXCEPT !.cancels = @ + 1]
    BY <1>2 DEF CancelCounts
  <2>2. row \in StandingRows /\ row.suspensionCount = standing.suspensionCount
        /\ row.ratingPenalty \in Nat /\ row.ratingPenalty <= Cost + CancelPenalty
    BY <1>p
  <2>3. /\ tally'.cancels = tally.cancels + 1
        /\ tally'.byStrikes = tally.byStrikes /\ tally'.onProbation = tally.onProbation
        /\ tally' \in [cancels : Nat, byStrikes : Nat, onProbation : Nat]
    BY <1>t, <2>1 DEF StandingTypeOK
  <2>4. Cost' = Cost + CancelPenalty
    BY <1>n, <2>1, <2>2, <2>3 DEF Cost, CancelPenalty, SuspensionPenalty
  <2>5. StandingTypeOK'
    BY <1>w, <1>s, <2>1, <2>2, <2>3 DEF StandingTypeOK
  <2>6. Threshold * tally.byStrikes \in Nat
    BY <1>n
  <2>7. StrikesOK'
    BY <1>t, <1>n, <1>s, <2>1, <2>2, <2>3, <2>6 DEF StrikesOK
  <2>8. \A d \in StandingCalls :
           standCall'[d].row.ratingPenalty \in Nat /\ standCall'[d].row.ratingPenalty <= Cost
    BY <1>w, <2>1, <2>5 DEF StandingTypeOK, StandingRows
  <2>9. CopiesOK'
    BY <1>c, <2>1, <2>2, <2>4, <2>8 DEF CopiesOK, CancelPenalty
  <2> QED BY <2>5, <2>7, <2>9 DEF EarnedInv
<1>3. ASSUME NEW c \in StandingCalls, CancelSuspends(c) PROVE EarnedInv'
  <2> DEFINE row  == PenalisedRow(standCall[c].row, standing)
             kind == IF row.status = "PROBATION" THEN "onProbation" ELSE "byStrikes"
             left == [standCall EXCEPT ![c] = IdleCall]
  <2>1. /\ row.status = "PROBATION" \/ StrikesNow(c) >= Threshold
        /\ standing' = SuspendedRow(row) /\ strikes' = 0
        /\ standCall' = EventsGrowLate(left)
        /\ tally' = [tally EXCEPT !.cancels = @ + 1, ![kind] = @ + 1]
    BY <1>3 DEF CancelSuspends
  <2>2. row \in StandingRows /\ row.suspensionCount = standing.suspensionCount
        /\ row.ratingPenalty \in Nat /\ row.ratingPenalty <= Cost + CancelPenalty
    BY <1>p
  <2> HIDE DEF row
  <2>3. /\ standing' \in StandingRows
        /\ standing'.suspensionCount = standing.suspensionCount + 1
        /\ standing'.ratingPenalty = row.ratingPenalty + SuspensionPenalty
    BY <2>1, <2>2, SuspendedFacts
  <2>4. /\ left \in [StandingCalls ->
                  [op : StandingOps \cup {"idle"}, row : StandingRows, late : BOOLEAN]]
        /\ \A d \in StandingCalls : left[d].row.ratingPenalty \in Nat
                                    /\ left[d].row.ratingPenalty <= Cost
    BY <1>t, <1>r, <1>i, <1>c DEF StandingTypeOK
  <2> HIDE DEF left
  <2>5. /\ standCall' \in [StandingCalls ->
                  [op : StandingOps \cup {"idle"}, row : StandingRows, late : BOOLEAN]]
        /\ \A d \in StandingCalls : standCall'[d].row.ratingPenalty \in Nat
                                    /\ standCall'[d].row.ratingPenalty <= Cost
    BY <1>t, <2>1, <2>4, LateKeepsRows
  <2>6. /\ tally'.cancels = tally.cancels + 1
        /\ tally' \in [cancels : Nat, byStrikes : Nat, onProbation : Nat]
        /\ \/ /\ row.status = "PROBATION"
              /\ tally'.byStrikes = tally.byStrikes
              /\ tally'.onProbation = tally.onProbation + 1
           \/ /\ StrikesNow(c) >= Threshold
              /\ tally'.byStrikes = tally.byStrikes + 1
              /\ tally'.onProbation = tally.onProbation
    <3>1. tally \in [cancels : Nat, byStrikes : Nat, onProbation : Nat]
      BY <1>t DEF StandingTypeOK
    <3>2. CASE row.status = "PROBATION"
      <4>1. kind = "onProbation"
        BY <3>2
      <4> HIDE DEF kind
      <4>2. tally' = [tally EXCEPT !.cancels = @ + 1, !.onProbation = @ + 1]
        BY <2>1, <4>1
      <4>3. tally' \in Tallies
        BY <3>1, <4>2, TallyGrows DEF Tallies
      <4>4. /\ tally'.cancels = tally.cancels + 1
            /\ tally'.byStrikes = tally.byStrikes
            /\ tally'.onProbation = tally.onProbation + 1
        BY <3>1, <4>2
      <4> QED BY <3>2, <4>3, <4>4 DEF Tallies
    <3>3. CASE row.status # "PROBATION"
      <4>1. kind = "byStrikes"
        BY <3>3
      <4> HIDE DEF kind
      <4>2. tally' = [tally EXCEPT !.cancels = @ + 1, !.byStrikes = @ + 1]
        BY <2>1, <4>1
      <4>3. tally' \in Tallies
        BY <3>1, <4>2, TallyGrows DEF Tallies
      <4>4. /\ tally'.cancels = tally.cancels + 1
            /\ tally'.byStrikes = tally.byStrikes + 1
            /\ tally'.onProbation = tally.onProbation
        BY <3>1, <4>2
      <4>5. StrikesNow(c) >= Threshold
        BY <2>1, <3>3
      <4> QED BY <4>3, <4>5, <4>4 DEF Tallies
    <3> QED BY <3>2, <3>3
  <2>7. Cost' = Cost + CancelPenalty + SuspensionPenalty
    BY <1>n, <2>3, <2>6 DEF Cost, CancelPenalty, SuspensionPenalty
  <2>8. StandingTypeOK'
    BY <2>1, <2>3, <2>5, <2>6 DEF StandingTypeOK
  <2>9. /\ Threshold * tally.byStrikes \in Nat
        /\ Threshold * (tally.byStrikes + 1) = Threshold * tally.byStrikes + Threshold
    BY <1>n
  <2>10. StrikesOK'
    BY <1>t, <1>n, <1>s, <2>1, <2>3, <2>6, <2>9 DEF StrikesOK
  <2>11. CopiesOK'
    BY <1>c, <2>2, <2>3, <2>5, <2>7 DEF CopiesOK, CancelPenalty, SuspensionPenalty
  <2> QED BY <2>8, <2>10, <2>11 DEF EarnedInv
<1>4. ASSUME NEW c \in StandingCalls,
             SettleWrites(c) \/ RejoinWrites(c)
      PROVE  EarnedInv'
  <2>1. /\ \E op : Writing(c, op)
        /\ strikes' = strikes /\ tally' = tally
    BY <1>4 DEF SettleWrites, RejoinWrites
  <2>2. /\ SettledRow(standCall[c].row, standing) \in StandingRows
        /\ SettledRow(standCall[c].row, standing).suspensionCount = standing.suspensionCount
        /\ SettledRow(standCall[c].row, standing).ratingPenalty <= Cost
    BY <1>n, <1>c, <1>r, SettledFacts, SettledBound
  <2>3. /\ standing' \in StandingRows
        /\ standing'.suspensionCount = standing.suspensionCount
        /\ standing'.ratingPenalty <= Cost
    BY <1>4, <2>2 DEF SettleWrites, RejoinWrites, StandingRows, Timers
  <2>4. StandingTypeOK'
    BY <1>t, <1>w, <2>1, <2>3 DEF StandingTypeOK
  <2> QED BY <1>n, <1>w, <2>1, <2>3, <2>4, QuietStep
<1>5. ASSUME NEW c \in StandingCalls, AppealWrites(c) \/ ReinstateWrites(c)
      PROVE  EarnedInv'
  <2>1. /\ \E op : Writing(c, op)
        /\ strikes' = strikes /\ tally' = tally
    BY <1>5 DEF AppealWrites, ReinstateWrites
  <2>2. /\ standing' \in StandingRows
        /\ standing'.suspensionCount = standing.suspensionCount
        /\ standing'.ratingPenalty \in {0, standing.ratingPenalty, standCall[c].row.ratingPenalty}
    <3>1. CASE AppealWrites(c)
      BY <1>n, <3>1 DEF AppealWrites, StandingRows
    <3>2. CASE ReinstateWrites(c)
      <4>1. PICK to \in {"PROBATION", "GOOD"}, clearPenalty \in BOOLEAN :
               standing' = [standing EXCEPT
                 !.status = to,
                 !.suspendedUntil = "unset",
                 !.probationUntil = IF to = "PROBATION" THEN "running" ELSE "unset",
                 !.ratingPenalty = IF clearPenalty THEN 0 ELSE standCall[c].row.ratingPenalty,
                 !.appealed = FALSE]
        BY <3>2 DEF ReinstateWrites
      <4> QED BY <1>n, <1>r, <4>1 DEF StandingRows, Timers
    <3> QED BY <1>5, <3>1, <3>2
  <2>3. StandingTypeOK'
    BY <1>t, <1>w, <2>1, <2>2 DEF StandingTypeOK
  <2>4. standing'.ratingPenalty <= Cost
    BY <1>c, <1>r, <2>2
  <2> QED BY <1>n, <1>w, <2>1, <2>2, <2>3, <2>4, QuietStep
<1>6. ASSUME SuspensionRunsOut \/ ProbationRunsOut \/ StrikeAges \/ UNCHANGED standingVars
      PROVE  EarnedInv'
  <2>1. /\ standing' \in StandingRows
        /\ standing'.suspensionCount = standing.suspensionCount
        /\ standing'.ratingPenalty = standing.ratingPenalty
        /\ standCall' = standCall /\ tally' = tally
        /\ strikes' \in Nat /\ strikes' <= strikes
    BY <1>6, <1>n DEF SuspensionRunsOut, ProbationRunsOut, StrikeAges, standingVars,
                      StandingRows, Timers
  <2>2. StandingTypeOK'
    BY <1>t, <2>1 DEF StandingTypeOK
  <2> QED BY <1>c, <1>r, <2>1, <2>2, QuietStep
<1> QED BY <1>1, <1>2, <1>3, <1>4, <1>5, <1>6 DEF StandingNext

\* What the invariant is for.
LEMMA EarnedGives == EarnedInv => PenaltiesAreEarned
<1> SUFFICES ASSUME EarnedInv PROVE PenaltiesAreEarned
  OBVIOUS
<1>1. /\ Threshold * tally.byStrikes \in Nat
      /\ tally.onProbation \in Nat /\ strikes \in Nat /\ tally.cancels \in Nat
  BY StandingAssumption DEF EarnedInv, StandingTypeOK
<1>2. SuspensionsAreEarned
  BY <1>1 DEF EarnedInv, StrikesOK, SuspensionsAreEarned
<1>3. PenaltyIsEarned
  BY DEF EarnedInv, CopiesOK, Cost, PenaltyIsEarned
<1> QED BY <1>2, <1>3 DEF PenaltiesAreEarned

\* Penalties and suspensions of a provider are earned, however many calls work
\* on the row with stale copies of it (applyProviderCancellation, settleTimers).
THEOREM PenaltiesEarned == StandingSpec => []PenaltiesAreEarned
BY EarnedAtFirst, EarnedStep, EarnedGives, PTL DEF StandingSpec

-----------------------------------------------------------------------------
(* The price of an order *)

\* What is proposed is a price.
ProposedOK ==
  /\ \A r \in Reviews : review[r].status # "NONE" => review[r].price \in Prices
  /\ \A c \in ReviewCalls :
       reviewCall[c].op \in {"propose", "answer"} => reviewCall[c].price \in Prices

\* One proposal waits for an answer, and an answer is about a proposal that was made.
RowsOK ==
  /\ \A r, q \in PendingReviews : r = q
  /\ \A c \in ReviewCalls : \A r \in reviewCall[c].about : review[r].status # "NONE"

\* Once a price is agreed the order says so, or is cancelled, and no answer in
\* flight is about a proposal that still waits.
AgreedOK ==
  AgreedReviews # {} =>
    /\ deal.buyerDecision = "BUY" \/ deal.status = "CANCELLED"
    /\ \A c \in ReviewCalls :
         reviewCall[c].op = "answer" =>
           \A r \in reviewCall[c].about : review[r].status # "PENDING"

\* The decision to buy and a payment in the making have an agreed price.
BoughtOK ==
  /\ deal.buyerDecision = "BUY" => AgreedReviews # {}
  /\ \A c \in ReviewCalls :
       reviewCall[c].op = "pay" => \E r \in AgreedReviews : reviewCall[c].price = review[r].price

PriceInv ==
  PriceTypeOK /\ ProposedOK /\ RowsOK /\ AgreedOK /\ BoughtOK /\ PriceIsAgreedOnce

ReviewRows == [status : ReviewStatus, by : Parties, price : Prices \cup {0}, wantsOut : BOOLEAN]

CallRecords ==
  [op : {"idle", "propose", "answer", "cancel", "pay"}, by : Parties,
   about : SUBSET Reviews, price : Prices \cup {0}]

-----------------------------------------------------------------------------

\* The order begins without a proposal, a decision or a payment.
LEMMA PriceAtFirst == PriceInit => PriceInv
<1> SUFFICES ASSUME PriceInit PROVE PriceInv
  OBVIOUS
<1> USE DEF PriceInit
<1>1. NoReview \in ReviewRows /\ NoReview.status = "NONE"
  BY DEF NoReview, ReviewRows, ReviewStatus, Parties
<1>2. NoCall \in CallRecords /\ NoCall.op = "idle" /\ NoCall.about = {}
  BY DEF NoCall, CallRecords, Parties
<1>3. PriceTypeOK
  BY <1>1, <1>2 DEF PriceTypeOK, ReviewRows, CallRecords
<1>4. AgreedReviews = {} /\ PendingReviews = {}
  BY <1>1 DEF AgreedReviews, PendingReviews
<1>5. ProposedOK /\ RowsOK /\ AgreedOK /\ BoughtOK /\ PriceIsAgreedOnce
  BY <1>1, <1>2, <1>4 DEF ProposedOK, RowsOK, AgreedOK, BoughtOK, PriceIsAgreedOnce
<1> QED BY <1>3, <1>5 DEF PriceInv

\* What a request that starts or ends leaves of the requests.
LEMMA CallStarts ==
  ASSUME PriceInv, NEW c \in ReviewCalls, NEW op \in {"propose", "answer", "cancel", "pay"},
         NEW by \in Parties, NEW about \in SUBSET Reviews, NEW price \in Prices \cup {0},
         StartCall(c, op, by, about, price),
         \A r \in about : review[r].status # "NONE",
         op \in {"propose", "answer"} => price \in Prices,
         op = "answer" => AgreedReviews = {},
         op = "pay" => \E r \in AgreedReviews : price = review[r].price
  PROVE  PriceInv'
<1> DEFINE call == [op |-> op, by |-> by, about |-> about, price |-> price]
<1>1. /\ reviewCall' = [reviewCall EXCEPT ![c] = call]
      /\ deal' = deal /\ review' = review /\ goods' = goods
  BY DEF StartCall
<1>2. call \in CallRecords
  BY DEF CallRecords
<1>3. PriceTypeOK'
  BY <1>1, <1>2 DEF PriceInv, PriceTypeOK, CallRecords
<1>4. AgreedReviews' = AgreedReviews /\ PendingReviews' = PendingReviews
  BY <1>1 DEF AgreedReviews, PendingReviews
<1>5. /\ call.op = op /\ call.about = about /\ call.price = price
      /\ \A d \in ReviewCalls : reviewCall'[d] = IF d = c THEN call ELSE reviewCall[d]
  BY <1>1 DEF PriceInv, PriceTypeOK
<1> HIDE DEF call
<1>6. ProposedOK'
  BY <1>1, <1>5 DEF PriceInv, ProposedOK
<1>7. RowsOK'
  BY <1>1, <1>4, <1>5 DEF PriceInv, RowsOK
<1>8. AgreedOK'
  BY <1>1, <1>4, <1>5 DEF PriceInv, AgreedOK
<1>9. BoughtOK'
  BY <1>1, <1>4, <1>5 DEF PriceInv, BoughtOK
<1>10. PriceIsAgreedOnce'
  BY <1>1, <1>4 DEF PriceInv, PriceIsAgreedOnce
<1> QED BY <1>3, <1>6, <1>7, <1>8, <1>9, <1>10 DEF PriceInv

\* A request that is over has nothing to keep true.
LEMMA CallEnds ==
  ASSUME PriceInv, NEW c \in ReviewCalls,
         reviewCall' = [reviewCall EXCEPT ![c] = NoCall]
  PROVE  /\ reviewCall' \in [ReviewCalls -> CallRecords]
         /\ \A d \in ReviewCalls :
              \/ reviewCall'[d] = reviewCall[d]
              \/ reviewCall'[d].op = "idle" /\ reviewCall'[d].about = {}
<1>1. NoCall \in CallRecords /\ NoCall.op = "idle" /\ NoCall.about = {}
  BY DEF NoCall, CallRecords, Parties
<1> QED BY <1>1 DEF PriceInv, PriceTypeOK, CallRecords

\* A step that only ends a request, moves the status of an order or its payment
\* keeps the prices agreed.
LEMMA RowsUntouched ==
  ASSUME PriceInv, PriceTypeOK', review' = review, deal'.finalPrice = deal.finalPrice,
         \A d \in ReviewCalls : \/ reviewCall'[d] = reviewCall[d]
                                \/ reviewCall'[d].op = "idle" /\ reviewCall'[d].about = {},
         AgreedReviews # {} /\ deal.buyerDecision = "BUY" /\ deal.status # "CANCELLED" =>
           deal'.buyerDecision = "BUY" \/ deal'.status = "CANCELLED",
         deal.status = "CANCELLED" => deal'.status = "CANCELLED",
         deal'.buyerDecision = "BUY" => deal.buyerDecision = "BUY",
         goods' # 0 => \E r \in AgreedReviews : goods' = review[r].price
  PROVE  PriceInv'
<1>1. AgreedReviews' = AgreedReviews /\ PendingReviews' = PendingReviews
  BY DEF AgreedReviews, PendingReviews
<1>2. ProposedOK'
  BY DEF PriceInv, ProposedOK
<1>3. RowsOK'
  BY <1>1 DEF PriceInv, RowsOK
<1>4. AgreedOK'
  BY <1>1 DEF PriceInv, AgreedOK
<1>5. BoughtOK'
  BY <1>1 DEF PriceInv, BoughtOK
<1>6. PriceIsAgreedOnce'
  BY <1>1 DEF PriceInv, PriceIsAgreedOnce
<1> QED BY <1>3, <1>4, <1>5, <1>6, <1>2 DEF PriceInv

\* A step that changes rows without agreeing on a price: nothing accepted
\* changes, and a row that is made waits alone, which no answer is about.
LEMMA NothingAgreed ==
  ASSUME PriceInv, PriceTypeOK', deal'.finalPrice = deal.finalPrice, goods' = goods,
         \A d \in ReviewCalls : \/ reviewCall'[d] = reviewCall[d]
                                \/ reviewCall'[d].op = "idle" /\ reviewCall'[d].about = {},
         \A r \in AgreedReviews : review'[r] = review[r],
         AgreedReviews' = AgreedReviews,
         \A r \in Reviews : review'[r].status = "NONE" => review[r].status = "NONE",
         \A r \in Reviews : review'[r].status = "PENDING" => review[r].status \in {"NONE", "PENDING"},
         \A r, q \in PendingReviews' : r = q,
         \A r \in Reviews : review'[r].status # "NONE" => review'[r].price \in Prices,
         deal.buyerDecision = "BUY" => deal'.buyerDecision = "BUY" \/ deal'.status = "CANCELLED",
         deal.status = "CANCELLED" => deal'.status = "CANCELLED",
         deal'.buyerDecision = "BUY" => deal.buyerDecision = "BUY"
  PROVE  PriceInv'
<1>1. \A d \in ReviewCalls : reviewCall[d].about \subseteq Reviews
  BY DEF PriceInv, PriceTypeOK
<1>2. ProposedOK'
  BY DEF PriceInv, ProposedOK
<1>3. RowsOK'
  BY <1>1 DEF PriceInv, RowsOK
<1>4. AgreedOK'
  BY <1>1 DEF PriceInv, AgreedOK, RowsOK
<1>5. BoughtOK'
  BY DEF PriceInv, BoughtOK
<1>6. PriceIsAgreedOnce'
  BY DEF PriceInv, PriceIsAgreedOnce
<1> QED BY <1>3, <1>4, <1>5, <1>6, <1>2 DEF PriceInv

-----------------------------------------------------------------------------

\* What an answer finds and leaves: the only proposal that waits.
LEMMA ClaimedFacts ==
  ASSUME PriceInv, NEW c \in ReviewCalls, NEW r \in Reviews, NEW status,
         Claimed(c, r, status)
  PROVE  /\ AgreedReviews = {}
         /\ PendingReviews = {r}
         /\ reviewCall' \in [ReviewCalls -> CallRecords]
         /\ \A d \in ReviewCalls :
              \/ reviewCall'[d] = reviewCall[d]
              \/ reviewCall'[d].op = "idle" /\ reviewCall'[d].about = {}
<1>1. /\ reviewCall[c].op = "answer" /\ r \in reviewCall[c].about
      /\ review[r].status = "PENDING"
      /\ reviewCall' = [reviewCall EXCEPT ![c] = NoCall]
  BY DEF Claimed, EndCall
<1>2. AgreedReviews = {}
  BY <1>1 DEF PriceInv, AgreedOK
<1>3. PendingReviews = {r}
  BY <1>1 DEF PriceInv, RowsOK, PendingReviews
<1> QED BY <1>1, <1>2, <1>3, CallEnds

\* A row that is added waits alone.
LEMMA AddedFacts ==
  ASSUME NEW rows \in [Reviews -> ReviewRows], NEW r \in Reviews, NEW by \in Parties,
         NEW price \in Prices, NEW wantsOut \in BOOLEAN,
         Added(rows, r, by, price, wantsOut)
  PROVE  /\ review' \in [Reviews -> ReviewRows]
         /\ rows[r].status = "NONE"
         /\ review'[r].status = "PENDING" /\ review'[r].price = price
         /\ \A q \in Reviews : q # r => review'[q] = rows[q]
         /\ \A q \in Reviews : rows[q].status # "PENDING"
<1> DEFINE row == [status |-> "PENDING", by |-> by, price |-> price, wantsOut |-> wantsOut]
<1>1. row \in ReviewRows /\ row.status = "PENDING" /\ row.price = price
  BY DEF ReviewRows, ReviewStatus
<1>2. /\ rows[r].status = "NONE" /\ \A q \in Reviews : rows[q].status # "PENDING"
      /\ review' = [rows EXCEPT ![r] = row]
  BY DEF Added
<1> HIDE DEF row
<1> QED BY <1>1, <1>2

\* Every step keeps the price agreed once.
LEMMA PriceStepKeeps == PriceInv /\ [PriceNext]_priceVars => PriceInv'
<1> SUFFICES ASSUME PriceInv, [PriceNext]_priceVars PROVE PriceInv'
  OBVIOUS
<1>t. /\ PriceTypeOK /\ ProposedOK /\ RowsOK /\ AgreedOK /\ BoughtOK /\ PriceIsAgreedOnce
      /\ review \in [Reviews -> ReviewRows]
      /\ reviewCall \in [ReviewCalls -> CallRecords]
      /\ deal.finalPrice \in Prices
  BY DEF PriceInv, PriceTypeOK, ReviewRows, CallRecords
<1>1. ASSUME NEW c \in ReviewCalls, ReadProposal(c) PROVE PriceInv'
  <2>1. PICK by \in Parties, price \in Prices : StartCall(c, "propose", by, {}, price)
    BY <1>1 DEF ReadProposal
  <2> QED BY <2>1, CallStarts
<1>2. ASSUME NEW c \in ReviewCalls, WriteProposal(c) PROVE PriceInv'
  <2>1. /\ reviewCall' = [reviewCall EXCEPT ![c] = NoCall]
        /\ reviewCall[c].op = "propose"
        /\ deal' = deal /\ goods' = goods
    BY <1>2 DEF WriteProposal, EndCall
  <2>2. PICK r \in Reviews : Added(review, r, reviewCall[c].by, reviewCall[c].price, FALSE)
    BY <1>2 DEF WriteProposal
  <2>3. reviewCall[c].by \in Parties /\ reviewCall[c].price \in Prices
    BY <1>t, <2>1 DEF CallRecords, ProposedOK
  <2>4. /\ review' \in [Reviews -> ReviewRows]
        /\ review[r].status = "NONE" /\ review'[r].status = "PENDING"
        /\ review'[r].price = reviewCall[c].price
        /\ \A q \in Reviews : q # r => review'[q] = review[q]
        /\ \A q \in Reviews : review[q].status # "PENDING"
    BY <1>t, <2>2, <2>3, AddedFacts
  <2>5. AgreedReviews' = AgreedReviews
    BY <2>4 DEF AgreedReviews
  <2>6. \A q, p \in PendingReviews' : q = p
    BY <2>4 DEF PendingReviews
  <2>7. /\ PriceTypeOK'
        /\ \A q \in AgreedReviews : review'[q] = review[q]
        /\ \A d \in ReviewCalls : \/ reviewCall'[d] = reviewCall[d]
                                  \/ reviewCall'[d].op = "idle" /\ reviewCall'[d].about = {}
    BY <1>t, <2>1, <2>4, CallEnds DEF PriceTypeOK, ReviewRows, CallRecords, AgreedReviews
  <2>8. /\ \A q \in Reviews : review'[q].status = "NONE" => review[q].status = "NONE"
        /\ \A q \in Reviews : review'[q].status = "PENDING" => review[q].status \in {"NONE", "PENDING"}
        /\ \A q \in Reviews : review'[q].status # "NONE" => review'[q].price \in Prices
    BY <1>t, <2>3, <2>4 DEF ProposedOK
  <2> QED BY <2>1, <2>5, <2>6, <2>7, <2>8, NothingAgreed
<1>3. ASSUME NEW c \in ReviewCalls, ReadAnswer(c) PROVE PriceInv'
  <2>1. PICK r \in PendingReviews, by \in Parties, price \in Prices :
          StartCall(c, "answer", by, {r}, price)
    BY <1>3 DEF ReadAnswer
  <2>2. r \in Reviews /\ review[r].status # "NONE"
    BY DEF PendingReviews
  <2>3. AgreedReviews = {}
    BY <1>3, <1>t DEF ReadAnswer, AgreedOK, Closed
  <2> QED BY <2>1, <2>2, <2>3, CallStarts
<1>4. ASSUME NEW c \in ReviewCalls, NEW r \in Reviews, AcceptPrice(c, r) PROVE PriceInv'
  <2>1. /\ Claimed(c, r, "ACCEPTED") /\ ~review[r].wantsOut
        /\ review' = [review EXCEPT ![r].status = "ACCEPTED"]
        /\ deal' = [deal EXCEPT !.finalPrice = review[r].price, !.buyerDecision = "BUY"]
        /\ goods' = goods
    BY <1>4 DEF AcceptPrice
  <2>2. /\ AgreedReviews = {} /\ PendingReviews = {r}
        /\ reviewCall' \in [ReviewCalls -> CallRecords]
        /\ \A d \in ReviewCalls : \/ reviewCall'[d] = reviewCall[d]
                                  \/ reviewCall'[d].op = "idle" /\ reviewCall'[d].about = {}
    BY <2>1, ClaimedFacts
  <2>3. /\ review' \in [Reviews -> ReviewRows]
        /\ review'[r].status = "ACCEPTED" /\ review'[r].wantsOut = review[r].wantsOut
        /\ review'[r].price = review[r].price
        /\ \A q \in Reviews : q # r => review'[q] = review[q]
    BY <1>t, <2>1 DEF ReviewRows, ReviewStatus
  <2>4. review[r].price \in Prices
    BY <1>t, <2>2 DEF ProposedOK, PendingReviews
  <2>5. /\ deal'.finalPrice = review[r].price /\ deal'.buyerDecision = "BUY"
        /\ deal' \in [status : {"PENDING_PAYMENT", "DISPUTED", "CANCELLED"},
                       buyerDecision : {"none", "BUY", "CANCEL"}, finalPrice : Prices]
    BY <1>t, <2>1, <2>4 DEF PriceTypeOK
  <2>6. AgreedReviews' = {r}
    BY <2>1, <2>2, <2>3 DEF AgreedReviews
  <2>7. PendingReviews' = {}
    BY <2>2, <2>3 DEF PendingReviews
  <2>8. PriceTypeOK'
    BY <1>t, <2>1, <2>2, <2>3, <2>5 DEF PriceTypeOK, ReviewRows, CallRecords
  <2>9. ProposedOK'
    BY <1>t, <2>2, <2>3, <2>4 DEF ProposedOK
  <2>10. RowsOK'
    BY <1>t, <2>2, <2>3, <2>7 DEF RowsOK, CallRecords
  <2>11. AgreedOK'
    BY <2>2, <2>5, <2>7, <2>8 DEF AgreedOK, PendingReviews, PriceTypeOK
  <2>12. BoughtOK'
    BY <1>t, <2>2, <2>6 DEF BoughtOK
  <2>13. goods' = 0
    BY <1>t, <2>1, <2>2 DEF PriceIsAgreedOnce
  <2>14. PriceIsAgreedOnce'
    BY <2>3, <2>5, <2>6, <2>13 DEF PriceIsAgreedOnce
  <2> QED BY <2>8, <2>9, <2>10, <2>11, <2>12, <2>14 DEF PriceInv
<1>5. ASSUME NEW c \in ReviewCalls, NEW r \in Reviews, AcceptCancellation(c, r) \/ Reject(c, r)
      PROVE  PriceInv'
  <2>1. /\ \E status : Claimed(c, r, status) /\ review' = [review EXCEPT ![r].status = status]
        /\ review'[r].status \in {"ACCEPTED", "REJECTED"}
        /\ review'[r].status = "ACCEPTED" => review[r].wantsOut
        /\ deal' = deal \/ deal' = [deal EXCEPT !.buyerDecision = "CANCEL", !.status = "CANCELLED"]
        /\ goods' = goods
    BY <1>5, <1>t DEF AcceptCancellation, Reject, ReviewRows
  <2>2. /\ AgreedReviews = {} /\ PendingReviews = {r}
        /\ reviewCall' \in [ReviewCalls -> CallRecords]
        /\ \A d \in ReviewCalls : \/ reviewCall'[d] = reviewCall[d]
                                  \/ reviewCall'[d].op = "idle" /\ reviewCall'[d].about = {}
    BY <2>1, ClaimedFacts
  <2>3. /\ review' \in [Reviews -> ReviewRows]
        /\ review'[r].wantsOut = review[r].wantsOut /\ review'[r].price = review[r].price
        /\ \A q \in Reviews : q # r => review'[q] = review[q]
    BY <1>t, <2>1 DEF ReviewRows, ReviewStatus, Claimed
  <2>4. AgreedReviews' = AgreedReviews
    BY <2>1, <2>2, <2>3 DEF AgreedReviews
  <2>5. PendingReviews' = {}
    BY <2>1, <2>2, <2>3 DEF PendingReviews
  <2>6. /\ deal' \in [status : {"PENDING_PAYMENT", "DISPUTED", "CANCELLED"},
                       buyerDecision : {"none", "BUY", "CANCEL"}, finalPrice : Prices]
        /\ deal'.finalPrice = deal.finalPrice
        /\ deal.buyerDecision = "BUY" => deal'.buyerDecision = "BUY" \/ deal'.status = "CANCELLED"
        /\ deal.status = "CANCELLED" => deal'.status = "CANCELLED"
        /\ deal'.buyerDecision = "BUY" => deal.buyerDecision = "BUY"
    BY <1>t, <2>1 DEF PriceTypeOK
  <2>7. PriceTypeOK'
    BY <1>t, <2>1, <2>2, <2>3, <2>6 DEF PriceTypeOK, ReviewRows, CallRecords
  <2>8. review[r].status = "PENDING" /\ review[r].price \in Prices
    BY <1>t, <2>2 DEF ProposedOK, PendingReviews
  <2>9. /\ \A q \in Reviews : review'[q].status = "NONE" => review[q].status = "NONE"
        /\ \A q \in Reviews : review'[q].status = "PENDING" => review[q].status \in {"NONE", "PENDING"}
        /\ \A q \in Reviews : review'[q].status # "NONE" => review'[q].price \in Prices
    BY <1>t, <2>1, <2>3, <2>8 DEF ProposedOK
  <2> QED BY <2>1, <2>2, <2>4, <2>5, <2>6, <2>7, <2>9, NothingAgreed
<1>6. ASSUME NEW c \in ReviewCalls, NEW r \in Reviews, Counter(c, r) PROVE PriceInv'
  <2> DEFINE rows == [review EXCEPT ![r].status = "COUNTERED"]
  <2>1. /\ Claimed(c, r, "COUNTERED")
        /\ deal' = deal /\ goods' = goods
    BY <1>6 DEF Counter
  <2>2. PICK child \in Reviews, wantsOut \in BOOLEAN :
          Added(rows, child, reviewCall[c].by, reviewCall[c].price, wantsOut)
    BY <1>6 DEF Counter
  <2>3. /\ AgreedReviews = {} /\ PendingReviews = {r}
        /\ reviewCall' \in [ReviewCalls -> CallRecords]
        /\ \A d \in ReviewCalls : \/ reviewCall'[d] = reviewCall[d]
                                  \/ reviewCall'[d].op = "idle" /\ reviewCall'[d].about = {}
    BY <2>1, ClaimedFacts
  <2>4. /\ rows \in [Reviews -> ReviewRows]
        /\ rows[r].status = "COUNTERED" /\ rows[r].price = review[r].price
        /\ \A q \in Reviews : q # r => rows[q] = review[q]
    BY <1>t DEF ReviewRows, ReviewStatus
  <2> HIDE DEF rows
  <2>5. reviewCall[c].by \in Parties /\ reviewCall[c].price \in Prices
    BY <1>t, <2>1 DEF CallRecords, ProposedOK, Claimed, EndCall
  <2>6. /\ review' \in [Reviews -> ReviewRows]
        /\ rows[child].status = "NONE" /\ review'[child].status = "PENDING"
        /\ review'[child].price = reviewCall[c].price
        /\ \A q \in Reviews : q # child => review'[q] = rows[q]
        /\ \A q \in Reviews : rows[q].status # "PENDING"
    BY <2>2, <2>4, <2>5, AddedFacts
  <2>7. child # r /\ review[child].status = "NONE" /\ review[r].status = "PENDING"
    BY <2>3, <2>4, <2>6 DEF PendingReviews
  <2>8. AgreedReviews' = AgreedReviews
    BY <2>3, <2>4, <2>6, <2>7 DEF AgreedReviews
  <2>9. \A q, p \in PendingReviews' : q = p
    BY <2>6 DEF PendingReviews
  <2>10. PriceTypeOK'
    BY <1>t, <2>1, <2>3, <2>6 DEF PriceTypeOK, ReviewRows, CallRecords
  <2>11. /\ \A q \in Reviews : review'[q].status = "NONE" => review[q].status = "NONE"
         /\ \A q \in Reviews : review'[q].status = "PENDING" => review[q].status \in {"NONE", "PENDING"}
         /\ \A q \in Reviews : review'[q].status # "NONE" => review'[q].price \in Prices
    BY <1>t, <2>4, <2>5, <2>6, <2>7 DEF ProposedOK
  <2> QED BY <2>1, <2>3, <2>8, <2>9, <2>10, <2>11, NothingAgreed
<1>7. ASSUME NEW c \in ReviewCalls, ReadCancel(c) PROVE PriceInv'
  BY <1>7, CallStarts DEF ReadCancel, Parties
<1>8. ASSUME NEW c \in ReviewCalls, ReadPrice(c) PROVE PriceInv'
  <2>1. /\ deal.buyerDecision = "BUY"
        /\ StartCall(c, "pay", "buyer", {}, deal.finalPrice)
    BY <1>8 DEF ReadPrice
  <2>2. \E r \in AgreedReviews : deal.finalPrice = review[r].price
    BY <1>t, <2>1 DEF BoughtOK, PriceIsAgreedOnce
  <2> QED BY <1>t, <2>1, <2>2, CallStarts DEF Parties
<1>9. ASSUME NEW c \in ReviewCalls, WriteCancel(c) \/ CreateGoodsPayment(c) \/ CallFails(c)
      PROVE  PriceInv'
  <2>1. /\ reviewCall' = [reviewCall EXCEPT ![c] = NoCall]
        /\ review' = review
    BY <1>9 DEF WriteCancel, CreateGoodsPayment, CallFails, EndCall
  <2>2. /\ reviewCall' \in [ReviewCalls -> CallRecords]
        /\ \A d \in ReviewCalls : \/ reviewCall'[d] = reviewCall[d]
                                  \/ reviewCall'[d].op = "idle" /\ reviewCall'[d].about = {}
    BY <2>1, CallEnds
  <2>3. deal' = deal \/ deal' = [deal EXCEPT !.buyerDecision = "CANCEL", !.status = "CANCELLED"]
    BY <1>9 DEF WriteCancel, CreateGoodsPayment, CallFails
  <2>4. /\ deal' \in [status : {"PENDING_PAYMENT", "DISPUTED", "CANCELLED"},
                       buyerDecision : {"none", "BUY", "CANCEL"}, finalPrice : Prices]
        /\ deal'.finalPrice = deal.finalPrice
        /\ deal.buyerDecision = "BUY" => deal'.buyerDecision = "BUY" \/ deal'.status = "CANCELLED"
        /\ deal.status = "CANCELLED" => deal'.status = "CANCELLED"
        /\ deal'.buyerDecision = "BUY" => deal.buyerDecision = "BUY"
    BY <1>t, <2>3 DEF PriceTypeOK
  <2>5. goods' = goods \/ (reviewCall[c].op = "pay" /\ goods' = reviewCall[c].price)
    BY <1>9 DEF WriteCancel, CreateGoodsPayment, CallFails, EndCall
  <2>6. /\ goods' \in Prices \cup {0}
        /\ goods' # 0 => \E r \in AgreedReviews : goods' = review[r].price
    BY <1>t, <2>5 DEF PriceTypeOK, CallRecords, BoughtOK, PriceIsAgreedOnce
  <2>7. PriceTypeOK'
    BY <1>t, <2>1, <2>2, <2>4, <2>6 DEF PriceTypeOK, CallRecords
  <2> QED BY <2>1, <2>2, <2>4, <2>6, <2>7, RowsUntouched
<1>10. ASSUME GoodsPaymentFails \/ OrderMoves \/ UNCHANGED priceVars PROVE PriceInv'
  <2>1. /\ review' = review /\ reviewCall' = reviewCall
        /\ goods' = goods \/ goods' = 0
        /\ \/ deal' = deal
           \/ /\ deal.status # "CANCELLED"
              /\ \E to \in {"PENDING_PAYMENT", "DISPUTED", "CANCELLED"} :
                   deal' = [deal EXCEPT !.status = to]
    BY <1>10 DEF GoodsPaymentFails, OrderMoves, priceVars
  <2>2. /\ deal' \in [status : {"PENDING_PAYMENT", "DISPUTED", "CANCELLED"},
                       buyerDecision : {"none", "BUY", "CANCEL"}, finalPrice : Prices]
        /\ deal'.finalPrice = deal.finalPrice /\ deal'.buyerDecision = deal.buyerDecision
        /\ deal.status = "CANCELLED" => deal'.status = "CANCELLED"
    BY <1>t, <2>1 DEF PriceTypeOK
  <2>3. PriceTypeOK'
    BY <1>t, <2>1, <2>2 DEF PriceTypeOK
  <2>4. goods' # 0 => \E r \in AgreedReviews : goods' = review[r].price
    BY <1>t, <2>1 DEF PriceIsAgreedOnce
  <2> QED BY <2>1, <2>2, <2>3, <2>4, RowsUntouched
<1> QED BY <1>1, <1>2, <1>3, <1>4, <1>5, <1>6, <1>7, <1>8, <1>9, <1>10 DEF PriceNext

\* One price of an order is agreed at most, it is the order's, and the goods are
\* paid for at that price (respond ACCEPT, POST /payments).
THEOREM PriceAgreedOnce == PriceSpec => []PriceIsAgreedOnce
<1>1. PriceInv => PriceIsAgreedOnce
  BY DEF PriceInv
<1> QED BY <1>1, PriceAtFirst, PriceStepKeeps, PTL DEF PriceSpec

\* Who answers a proposal has not made it.
OtherAnswers ==
  \A c \in ReviewCalls :
    reviewCall[c].op = "answer" =>
      \A r \in reviewCall[c].about : reviewCall[c].by # review[r].by

\* What both of the counter's writes leave.
LEMMA CounterFacts ==
  ASSUME PriceInv, NEW c \in ReviewCalls, NEW r \in Reviews, Counter(c, r)
  PROVE  \E child \in Reviews, wantsOut \in BOOLEAN :
           /\ review[child].status = "NONE" /\ child # r
           /\ review'[child] = [status |-> "PENDING", by |-> reviewCall[c].by,
                                price |-> reviewCall[c].price, wantsOut |-> wantsOut]
           /\ review'[r] = [review[r] EXCEPT !.status = "COUNTERED"]
           /\ \A q \in Reviews \ {r, child} : review'[q] = review[q]
<1>t. review \in [Reviews -> ReviewRows]
  BY DEF PriceInv, PriceTypeOK, ReviewRows
<1> DEFINE rows == [review EXCEPT ![r].status = "COUNTERED"]
<1>1. PICK child \in Reviews, wantsOut \in BOOLEAN :
        Added(rows, child, reviewCall[c].by, reviewCall[c].price, wantsOut)
  BY DEF Counter
<1>2. /\ rows[r] = [review[r] EXCEPT !.status = "COUNTERED"] /\ rows[r].status = "COUNTERED"
      /\ \A q \in Reviews : q # r => rows[q] = review[q]
      /\ DOMAIN rows = Reviews
  BY <1>t DEF ReviewRows
<1> HIDE DEF rows
<1>3. /\ rows[child].status = "NONE"
      /\ review' = [rows EXCEPT
           ![child] = [status |-> "PENDING", by |-> reviewCall[c].by,
                       price |-> reviewCall[c].price, wantsOut |-> wantsOut]]
  BY <1>1 DEF Added
<1>4. child # r /\ review[child].status = "NONE"
  BY <1>2, <1>3
<1> QED BY <1>2, <1>3, <1>4

\* A row that was made keeps what it proposes.
LEMMA ProposalsStay ==
  ASSUME PriceInv, [PriceNext]_priceVars, NEW r \in Reviews, review[r].status # "NONE"
  PROVE  review'[r].status # "NONE" /\ ProposalIn(r)' = ProposalIn(r) /\ review'[r].by = review[r].by
<1>t. review \in [Reviews -> ReviewRows]
  BY DEF PriceInv, PriceTypeOK, ReviewRows
<1> DEFINE goal == /\ review'[r].status # "NONE" /\ ProposalIn(r)' = ProposalIn(r)
                   /\ review'[r].by = review[r].by
<1>1. ASSUME review' = review PROVE goal
  BY <1>1 DEF ProposalIn
<1>2. ASSUME NEW q \in Reviews, NEW to \in {"ACCEPTED", "REJECTED"},
             review' = [review EXCEPT ![q].status = to]
      PROVE  goal
  <2>1. /\ review'[r].status # "NONE" /\ review'[r].by = review[r].by
        /\ review'[r].price = review[r].price /\ review'[r].wantsOut = review[r].wantsOut
    BY <1>2, <1>t DEF ReviewRows
  <2> QED BY <2>1 DEF ProposalIn
<1>3. ASSUME NEW c \in ReviewCalls, WriteProposal(c) PROVE goal
  <2>1. PICK q \in Reviews : Added(review, q, reviewCall[c].by, reviewCall[c].price, FALSE)
    BY <1>3 DEF WriteProposal
  <2>2. q # r /\ review'[r] = review[r]
    BY <2>1, <1>t DEF Added
  <2> QED BY <2>2 DEF ProposalIn
<1>4. ASSUME NEW c \in ReviewCalls, NEW q \in Reviews, Counter(c, q) PROVE goal
  <2>1. review'[r] \in {review[r], [review[r] EXCEPT !.status = "COUNTERED"]}
    BY <1>4, CounterFacts
  <2>2. /\ review'[r].status # "NONE" /\ review'[r].by = review[r].by
        /\ review'[r].price = review[r].price /\ review'[r].wantsOut = review[r].wantsOut
    BY <2>1, <1>t DEF ReviewRows
  <2> QED BY <2>2 DEF ProposalIn
<1>5. ASSUME NEW c \in ReviewCalls, NEW q \in Reviews,
             AcceptPrice(c, q) \/ AcceptCancellation(c, q) \/ Reject(c, q)
      PROVE  goal
  BY <1>2, <1>5 DEF AcceptPrice, AcceptCancellation, Reject
<1>6. ASSUME NEW c \in ReviewCalls,
             \/ ReadProposal(c) \/ ReadAnswer(c) \/ ReadCancel(c) \/ WriteCancel(c)
             \/ ReadPrice(c) \/ CreateGoodsPayment(c) \/ CallFails(c)
      PROVE  goal
  BY <1>1, <1>6 DEF ReadProposal, ReadAnswer, ReadCancel, WriteCancel, ReadPrice,
                    CreateGoodsPayment, CallFails, StartCall
<1>7. CASE GoodsPaymentFails \/ OrderMoves \/ UNCHANGED priceVars
  BY <1>1, <1>7 DEF GoodsPaymentFails, OrderMoves, priceVars
<1> QED BY <1>3, <1>4, <1>5, <1>6, <1>7 DEF PriceNext

\* At first nobody answers.
LEMMA OtherAtFirst == PriceInit => OtherAnswers
BY DEF PriceInit, OtherAnswers, NoCall

\* Every answer begins by reading a proposal of the other party.
LEMMA OtherStep == PriceInv /\ OtherAnswers /\ [PriceNext]_priceVars => OtherAnswers'
<1> SUFFICES ASSUME PriceInv, OtherAnswers, [PriceNext]_priceVars,
                    NEW d \in ReviewCalls, reviewCall'[d].op = "answer",
                    NEW r \in reviewCall'[d].about
             PROVE  reviewCall'[d].by # review'[r].by
  BY DEF OtherAnswers
<1>t. reviewCall \in [ReviewCalls -> CallRecords]
  BY DEF PriceInv, PriceTypeOK, CallRecords
<1>1. ASSUME reviewCall'[d] = reviewCall[d] PROVE reviewCall'[d].by # review'[r].by
  <2>1. r \in Reviews /\ review[r].status # "NONE"
    BY <1>1, <1>t DEF PriceInv, RowsOK, CallRecords
  <2>2. review'[r].by = review[r].by
    BY <2>1, ProposalsStay
  <2> QED BY <1>1, <2>2 DEF OtherAnswers
<1>2. ASSUME NEW c \in ReviewCalls, NEW op \in {"propose", "cancel", "pay"}, NEW by, NEW about, NEW price,
             StartCall(c, op, by, about, price)
      PROVE  reviewCall'[d] = reviewCall[d]
  BY <1>2, <1>t DEF StartCall
<1>3. ASSUME NEW c \in ReviewCalls, reviewCall' = [reviewCall EXCEPT ![c] = NoCall]
      PROVE  reviewCall'[d] = reviewCall[d]
  BY <1>3, <1>t DEF NoCall
<1>4. ASSUME NEW c \in ReviewCalls, ReadAnswer(c) PROVE reviewCall'[d].by # review'[r].by
  <2>1. PICK q \in PendingReviews, by \in Parties, price \in Prices :
          by # review[q].by /\ StartCall(c, "answer", by, {q}, price)
    BY <1>4 DEF ReadAnswer
  <2>2. CASE d = c
    <3>1. reviewCall'[d].by = by /\ reviewCall'[d].about = {q} /\ review' = review
      BY <1>t, <2>1, <2>2 DEF StartCall
    <3> QED BY <2>1, <3>1
  <2>3. CASE d # c
    BY <1>1, <1>t, <2>1, <2>3 DEF StartCall
  <2> QED BY <2>2, <2>3
<1>5. ASSUME NEW c \in ReviewCalls, ReadProposal(c) \/ ReadCancel(c) \/ ReadPrice(c)
      PROVE  reviewCall'[d] = reviewCall[d]
  BY <1>2, <1>5 DEF ReadProposal, ReadCancel, ReadPrice
<1>6. ASSUME NEW c \in ReviewCalls,
             \/ WriteProposal(c) \/ WriteCancel(c) \/ CreateGoodsPayment(c) \/ CallFails(c)
             \/ \E q \in Reviews : \/ AcceptPrice(c, q) \/ AcceptCancellation(c, q)
                                   \/ Counter(c, q) \/ Reject(c, q)
      PROVE  reviewCall'[d] = reviewCall[d]
  <2>1. reviewCall' = [reviewCall EXCEPT ![c] = NoCall]
    BY <1>6 DEF WriteProposal, WriteCancel, CreateGoodsPayment, CallFails, AcceptPrice,
                AcceptCancellation, Counter, Reject, Claimed, EndCall
  <2> QED BY <1>3, <2>1
<1>7. CASE GoodsPaymentFails \/ OrderMoves \/ UNCHANGED priceVars
  BY <1>1, <1>7 DEF GoodsPaymentFails, OrderMoves, priceVars
<1> QED BY <1>1, <1>4, <1>5, <1>6, <1>7 DEF PriceNext

\* A row is put in place of those that are open.
LEMMA RowIsPut ==
  ASSUME PriceInv, [PriceNext]_priceVars,
         NEW i \in Reviews, NEW by \in Parties, NEW price \in Prices, NEW out \in BOOLEAN,
         review[i].status = "NONE",
         review'[i] = [status |-> "PENDING", by |-> by, price |-> price, wantsOut |-> out],
         \A q \in Reviews \ {i} : review'[q] = review[q]
                                  \/ (review[q].status = "PENDING" /\ review'[q].status = "COUNTERED"),
         \A q \in Reviews \ {i} : review'[q].status # "PENDING",
         deal'.finalPrice = deal.finalPrice, goods' = goods
  PROVE  Agreement!Put(i) /\ ProposalIn(i)' = {[by |-> by, price |-> price, leaves |-> out]}
<1>1. /\ ProposalIn(i) = {}
      /\ ProposalIn(i)' = {[by |-> by, price |-> price, leaves |-> out]}
      /\ review'[i].status = "PENDING"
  BY DEF ProposalIn
<1>2. \A q \in Reviews \ {i} : ProposalIn(q)' = ProposalIn(q)
  <2> SUFFICES ASSUME NEW q \in Reviews \ {i} PROVE ProposalIn(q)' = ProposalIn(q)
    OBVIOUS
  <2>1. CASE review[q].status # "NONE"
    BY <2>1, ProposalsStay
  <2>2. CASE review[q].status = "NONE"
    <3>1. review'[q] = review[q]
      BY <2>2
    <3> QED BY <3>1 DEF ProposalIn
  <2> QED BY <2>1, <2>2
<1>3. PendingReviews' = {i}
  BY <1>1 DEF PendingReviews
<1>4. AgreedReviews' = AgreedReviews
  <2>1. \A q \in Reviews : q \in AgreedReviews' <=> q \in AgreedReviews
    BY <1>1 DEF AgreedReviews
  <2> QED BY <2>1 DEF AgreedReviews
<1>5. [r \in Reviews |-> ProposalIn(r)]'
        = [[r \in Reviews |-> ProposalIn(r)] EXCEPT
             ![i] = {[by |-> by, price |-> price, leaves |-> out]}]
  BY <1>1, <1>2
<1>6. \E who \in Parties, t \in [price : Prices, leaves : BOOLEAN] :
        [r \in Reviews |-> ProposalIn(r)]'
          = [[r \in Reviews |-> ProposalIn(r)] EXCEPT
               ![i] = {[by |-> who, price |-> t.price, leaves |-> t.leaves]}]
  <2> DEFINE t == [price |-> price, leaves |-> out]
  <2>1. t \in [price : Prices, leaves : BOOLEAN] /\ t.price = price /\ t.leaves = out
    OBVIOUS
  <2> HIDE DEF t
  <2> QED BY <1>5, <2>1
<1> QED BY <1>1, <1>3, <1>4, <1>6 DEF Agreement!Put

\* The open row is answered.
LEMMA RowIsAnswered ==
  ASSUME PriceInv, [PriceNext]_priceVars, NEW r \in Reviews, PendingReviews = {r},
         NEW to \in {"ACCEPTED", "REJECTED"}, review' = [review EXCEPT ![r].status = to]
  PROVE  /\ UNCHANGED [q \in Reviews |-> ProposalIn(q)]
         /\ PendingReviews' = {}
         /\ AgreedReviews' = IF to = "ACCEPTED" /\ ~review[r].wantsOut
                             THEN AgreedReviews \cup {r} ELSE AgreedReviews
<1>t. review \in [Reviews -> ReviewRows]
  BY DEF PriceInv, PriceTypeOK, ReviewRows
<1>1. /\ review[r].status = "PENDING"
      /\ review'[r].status = to /\ review'[r].wantsOut = review[r].wantsOut
      /\ \A q \in Reviews \ {r} : review'[q] = review[q]
  BY <1>t DEF PendingReviews, ReviewRows
<1>2. \A q \in Reviews : ProposalIn(q)' = ProposalIn(q)
  <2> SUFFICES ASSUME NEW q \in Reviews PROVE ProposalIn(q)' = ProposalIn(q)
    OBVIOUS
  <2>1. CASE q = r
    BY <1>1, <2>1, ProposalsStay
  <2>2. CASE q # r
    BY <1>1, <2>2 DEF ProposalIn
  <2> QED BY <2>1, <2>2
<1>3. PendingReviews' = {}
  BY <1>1 DEF PendingReviews
<1>4. \A q \in Reviews :
        q \in AgreedReviews' <=>
          q \in AgreedReviews \/ (q = r /\ to = "ACCEPTED" /\ ~review[r].wantsOut)
  BY <1>1 DEF AgreedReviews
<1>5. AgreedReviews \subseteq Reviews /\ AgreedReviews' \subseteq Reviews
  BY DEF AgreedReviews
<1> QED BY <1>2, <1>3, <1>4, <1>5

\* Every step is a step of the abstract agreement or leaves it as it is.
LEMMA AgreementIsKept ==
  ASSUME PriceInv, OtherAnswers, [PriceNext]_priceVars
  PROVE  [Agreement!Next]_(Agreement!all)
<1> DEFINE step == [Agreement!Next]_(Agreement!all)
<1>t. /\ review \in [Reviews -> ReviewRows]
      /\ reviewCall \in [ReviewCalls -> CallRecords]
      /\ ProposedOK /\ deal.finalPrice \in Prices
  BY DEF PriceInv, PriceTypeOK, ReviewRows, CallRecords
<1>0. ASSUME review' = review, deal'.finalPrice = deal.finalPrice, goods' = goods PROVE step
  BY <1>0 DEF Agreement!all, ProposalIn, PendingReviews, AgreedReviews
<1>1. ASSUME NEW c \in ReviewCalls, WriteProposal(c) PROVE step
  <2> DEFINE call == reviewCall[c]
  <2>1. PICK i \in Reviews : Added(review, i, call.by, call.price, FALSE)
    BY <1>1 DEF WriteProposal
  <2>2. call.by \in Parties /\ call.price \in Prices
    BY <1>1, <1>t DEF WriteProposal, EndCall, ProposedOK, CallRecords
  <2>3. /\ review[i].status = "NONE" /\ \A q \in Reviews : review[q].status # "PENDING"
        /\ review'[i] = [status |-> "PENDING", by |-> call.by, price |-> call.price,
                         wantsOut |-> FALSE]
        /\ \A q \in Reviews \ {i} : review'[q] = review[q]
        /\ deal' = deal /\ goods' = goods
    BY <1>1, <1>t, <2>1 DEF Added, WriteProposal
  <2>4. PendingReviews = {}
    BY <2>3 DEF PendingReviews
  <2> HIDE DEF call
  <2>5. Agreement!Propose(i)
    BY <2>2, <2>3, <2>4, RowIsPut DEF Agreement!Propose
  <2> QED BY <2>5 DEF Agreement!Next
<1>2. ASSUME NEW c \in ReviewCalls, NEW r \in Reviews, Counter(c, r) PROVE step
  <2> DEFINE call == reviewCall[c]
  <2>1. PICK i \in Reviews, out \in BOOLEAN :
           /\ review[i].status = "NONE" /\ i # r
           /\ review'[i] = [status |-> "PENDING", by |-> call.by,
                            price |-> call.price, wantsOut |-> out]
           /\ review'[r] = [review[r] EXCEPT !.status = "COUNTERED"]
           /\ \A q \in Reviews \ {r, i} : review'[q] = review[q]
    BY <1>2, CounterFacts
  <2>2. PendingReviews = {r}
    BY <1>2, ClaimedFacts DEF Counter
  <2>3. /\ call.by \in Parties /\ call.price \in Prices /\ call.by # review[r].by
        /\ deal' = deal /\ goods' = goods
    BY <1>2, <1>t DEF Counter, Claimed, EndCall, ProposedOK, OtherAnswers, CallRecords
  <2>4. /\ review[r].status = "PENDING" /\ review'[r].status = "COUNTERED"
        /\ \A q \in Reviews \ {i} : review'[q].status # "PENDING"
    BY <1>t, <2>1, <2>2 DEF PendingReviews, ReviewRows
  <2>5. \A old \in ProposalIn(r) : old.by # call.by
    BY <2>3 DEF ProposalIn
  <2> HIDE DEF call
  <2>6. /\ Agreement!Put(i)
        /\ ProposalIn(i)' = {[by |-> call.by, price |-> call.price, leaves |-> out]}
    <3>1. \A q \in Reviews \ {i} :
            review'[q] = review[q] \/ (review[q].status = "PENDING" /\ review'[q].status = "COUNTERED")
      BY <2>1, <2>4
    <3> QED BY <2>1, <2>3, <2>4, <3>1, RowIsPut
  <2>7. \A old \in ProposalIn(r), new \in ProposalIn(i)' : old.by # new.by
    BY <2>5, <2>6
  <2>8. Agreement!Counter(i, r)
    BY <2>2, <2>6, <2>7 DEF Agreement!Counter
  <2> QED BY <2>8 DEF Agreement!Next
<1>3. ASSUME NEW c \in ReviewCalls, NEW r \in Reviews, AcceptPrice(c, r) PROVE step
  <2>1. /\ ~review[r].wantsOut /\ goods' = goods
        /\ review' = [review EXCEPT ![r].status = "ACCEPTED"]
        /\ deal'.finalPrice = review[r].price
    BY <1>3 DEF AcceptPrice, PriceInv, PriceTypeOK
  <2>2. PendingReviews = {r} /\ AgreedReviews = {}
    BY <1>3, ClaimedFacts DEF AcceptPrice
  <2>3. /\ UNCHANGED [q \in Reviews |-> ProposalIn(q)]
        /\ PendingReviews' = {} /\ AgreedReviews' = {r}
    BY <2>1, <2>2, RowIsAnswered
  <2>4. \A t \in ProposalIn(r) : ~t.leaves /\ deal'.finalPrice = t.price
    BY <2>1 DEF ProposalIn
  <2>5. Agreement!Agree(r)
    BY <2>1, <2>2, <2>3, <2>4 DEF Agreement!Agree
  <2> QED BY <2>5 DEF Agreement!Next
<1>4. ASSUME NEW c \in ReviewCalls, NEW r \in Reviews, AcceptCancellation(c, r) \/ Reject(c, r)
      PROVE  step
  <2>1. PICK to \in {"ACCEPTED", "REJECTED"} :
          /\ to = "ACCEPTED" => review[r].wantsOut
          /\ review' = [review EXCEPT ![r].status = to]
    BY <1>4 DEF AcceptCancellation, Reject
  <2>2. goods' = goods /\ deal'.finalPrice = deal.finalPrice
    BY <1>4 DEF AcceptCancellation, Reject, PriceInv, PriceTypeOK
  <2>3. PendingReviews = {r}
    BY <1>4, ClaimedFacts DEF AcceptCancellation, Reject
  <2>4. /\ UNCHANGED [q \in Reviews |-> ProposalIn(q)]
        /\ PendingReviews' = {} /\ AgreedReviews' = AgreedReviews
    BY <2>1, <2>3, RowIsAnswered
  <2>5. Agreement!Close(r)
    BY <2>2, <2>3, <2>4 DEF Agreement!Close
  <2> QED BY <2>5 DEF Agreement!Next
<1>5. ASSUME NEW c \in ReviewCalls, CreateGoodsPayment(c) PROVE step
  <2>1. /\ goods = 0 /\ goods' = reviewCall[c].price /\ UNCHANGED <<deal, review>>
        /\ reviewCall[c].op = "pay"
    BY <1>5 DEF CreateGoodsPayment, EndCall
  <2>2. AgreedReviews # {} /\ reviewCall[c].price = deal.finalPrice
    BY <2>1 DEF PriceInv, BoughtOK, PriceIsAgreedOnce
  <2>3. UNCHANGED <<[q \in Reviews |-> ProposalIn(q)], PendingReviews, AgreedReviews>>
    BY <2>1 DEF ProposalIn, PendingReviews, AgreedReviews
  <2>4. Agreement!Pay
    BY <2>1, <2>2, <2>3 DEF Agreement!Pay
  <2> QED BY <2>4 DEF Agreement!Next
<1>6. CASE GoodsPaymentFails
  <2>1. goods # 0 /\ goods' = 0 /\ UNCHANGED <<deal, review>>
    BY <1>6 DEF GoodsPaymentFails
  <2>2. UNCHANGED <<[q \in Reviews |-> ProposalIn(q)], PendingReviews, AgreedReviews>>
    BY <2>1 DEF ProposalIn, PendingReviews, AgreedReviews
  <2>3. Agreement!PaymentFails
    BY <2>1, <2>2 DEF Agreement!PaymentFails
  <2> QED BY <2>3 DEF Agreement!Next
<1>7. ASSUME NEW c \in ReviewCalls,
             ReadProposal(c) \/ ReadAnswer(c) \/ ReadCancel(c) \/ ReadPrice(c) \/ CallFails(c)
      PROVE  step
  BY <1>0, <1>7 DEF ReadProposal, ReadAnswer, ReadCancel, ReadPrice, CallFails, StartCall
<1>8. ASSUME NEW c \in ReviewCalls, WriteCancel(c) PROVE step
  BY <1>0, <1>8 DEF WriteCancel, PriceInv, PriceTypeOK
<1>9. CASE OrderMoves \/ UNCHANGED priceVars
  BY <1>0, <1>9 DEF OrderMoves, priceVars, PriceInv, PriceTypeOK
<1> QED BY <1>1, <1>2, <1>3, <1>4, <1>5, <1>6, <1>7, <1>8, <1>9 DEF PriceNext

\* At first nothing is proposed, and the order asks for the price it was made with.
LEMMA AgreementBegins == PriceInit => Agreement!Init
<1> SUFFICES ASSUME PriceInit PROVE Agreement!Init
  OBVIOUS
<1>1. \A r \in Reviews : review[r].status = "NONE"
  BY DEF PriceInit, NoReview
<1>2. PendingReviews = {} /\ AgreedReviews = {} /\ \A r \in Reviews : ProposalIn(r) = {}
  BY <1>1 DEF PendingReviews, AgreedReviews, ProposalIn
<1>3. PICK price \in Prices : deal.finalPrice = price
  BY DEF PriceInit
<1> DEFINE t == [price |-> price, leaves |-> FALSE]
<1>4. t \in [price : Prices, leaves : BOOLEAN] /\ t.price = deal.finalPrice
  BY <1>3
<1> HIDE DEF t
<1>5. deal.finalPrice \in {u.price : u \in [price : Prices, leaves : BOOLEAN]}
  BY <1>4
<1> QED BY <1>2, <1>5 DEF Agreement!Init, PriceInit

\* A price is agreed between the two parties, as one of them wrote it and the other
\* accepted it, and it is what is paid, for any number of proposals and of late
\* calls (POST /price-reviews, respond, POST /payments).
THEOREM PriceIsAgreement == PriceSpec => AgreementSpec
BY AgreementBegins, PriceAtFirst, PriceStepKeeps, OtherAtFirst, OtherStep, AgreementIsKept, PTL
   DEF PriceSpec, AgreementSpec, Agreement!Spec
=============================================================================
