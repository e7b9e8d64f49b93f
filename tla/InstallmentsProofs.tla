------------------------- MODULE InstallmentsProofs -------------------------
(***************************************************************************)
(* What holds of Installments for every price, limit, number of requests   *)
(* and number of replaced installments.                                    *)
(***************************************************************************)
EXTENDS Installments, SumTheorems, FiniteSetTheorems, TLAPS

-----------------------------------------------------------------------------
(* Splitting *)

LEMMA DivMod ==
    ASSUME NEW a \in Nat, NEW b \in Nat \ {0}
    PROVE  /\ a \div b \in Nat /\ a % b \in 0 .. b - 1
           /\ a = b * (a \div b) + (a % b)
  BY SMT

\* The count is at least one, at most the amount, and large enough.
LEMMA CountBounds ==
    ASSUME NEW total \in Nat \ {0}, NEW max \in Nat \ {0}
    PROVE  LET count == countOf(total, max)
           IN  count \in 1 .. total /\ total <= count * max
  <1> DEFINE count == countOf(total, max)
             rest == (total + max - 1) % max
  <1>0. total + max - 1 \in Nat
    OBVIOUS
  <1>1. /\ count \in Nat /\ rest \in 0 .. max - 1
        /\ total + max - 1 = max * count + rest
    BY <1>0, DivMod DEF countOf
  <1> HIDE DEF count, rest
  <1>2. total <= count * max
    BY <1>1, SMT
  <1>3. count # 0
    BY <1>1, SMT
  <1>4. count <= total
    BY <1>1, SMT
  <1> QED  BY <1>1, <1>2, <1>3, <1>4 DEF count

\* No part of a split is above the limit.
LEMMA PartsWithinLimit ==
    ASSUME NEW total \in Nat \ {0}, NEW max \in Nat \ {0},
           NEW i \in 1 .. countOf(total, max)
    PROVE  splitInto(total, countOf(total, max))[i] \in 1 .. max
  <1> DEFINE count == countOf(total, max)
             base  == total \div count
             rest  == total % count
  <1>1. count \in 1 .. total /\ total <= count * max
    BY CountBounds
  <1>2. /\ base \in Nat /\ rest \in 0 .. count - 1
        /\ total = count * base + rest
    <2>1. count \in Nat \ {0}
      BY <1>1
    <2> HIDE DEF count
    <2> QED  BY <2>1, DivMod
  <1>3. splitInto(total, count)[i] = base + (IF i <= rest THEN 1 ELSE 0)
    BY <1>1 DEF splitInto
  <1> HIDE DEF count, base, rest
  <1>4. base # 0
    BY <1>1, <1>2, SMT
  <1>5. base <= max
    BY <1>1, <1>2, SMT
  <1>6. CASE rest = 0
    BY <1>1, <1>2, <1>3, <1>4, <1>5, <1>6 DEF count
  <1>7. CASE rest # 0
    <2>1. base < max
      BY <1>1, <1>2, <1>7, SMT
    <2> QED  BY <1>1, <1>2, <1>3, <1>4, <2>1 DEF count
  <1> QED  BY <1>6, <1>7

\* The parts of a split add up to what was split, to the cent.
LEMMA SplitAddsUp ==
    ASSUME NEW total \in Nat, NEW count \in Nat \ {0}
    PROVE  SumFunctionOnSet(splitInto(total, count), 1 .. count) = total
  <1> DEFINE f == splitInto(total, count)
             base == total \div count
             rest == total % count
             Sum(k) == SumFunctionOnSet(f, 1 .. k)
             upTo(k) == k * base + (IF k <= rest THEN k ELSE rest)
             Bad == {k \in 0 .. count : Sum(k) # upTo(k)}
  <1>1. base \in Nat /\ rest \in 0 .. count - 1 /\ total = count * base + rest
    BY DivMod
  <1>2. \A i \in 1 .. count : f[i] = base + (IF i <= rest THEN 1 ELSE 0)
    BY DEF splitInto
  <1> HIDE DEF f, base, rest
  <1>3. Sum(0) = upTo(0)
    <2>1. 1 .. 0 = {} /\ SumFunctionOnSet(f, {}) = 0
      BY SumEmpty
    <2>2. upTo(0) = 0
      BY <1>1
    <2> QED  BY <2>1, <2>2
  <1>4. ASSUME NEW k \in 1 .. count, Sum(k - 1) = upTo(k - 1)
        PROVE  Sum(k) = upTo(k)
    <2>1. /\ IsFiniteSet(1 .. k) /\ k \in 1 .. k /\ (1 .. k) \ {k} = 1 .. (k - 1)
          /\ \A i \in 1 .. k : f[i] \in Int
      <3>1. IsFiniteSet(1 .. k)
        BY FS_Interval
      <3>2. k \in 1 .. k /\ (1 .. k) \ {k} = 1 .. (k - 1)
        OBVIOUS
      <3>3. \A i \in 1 .. k : f[i] \in Int
        BY <1>1, <1>2
      <3> QED  BY <3>1, <3>2, <3>3
    <2>2. Sum(k) = f[k] + Sum(k - 1)
      BY <2>1, SumRemove
    <2>3. (k - 1) * base = k * base - base /\ k * base \in Int
      BY <1>1
    <2>4. upTo(k) = upTo(k - 1) + base + (IF k <= rest THEN 1 ELSE 0)
      BY <1>1, <2>3
    <2>5. upTo(k - 1) \in Int
      BY <1>1, <2>3
    <2> HIDE DEF upTo
    <2> QED  BY <1>1, <1>2, <1>4, <2>2, <2>4, <2>5
  <1>5. Bad = {}
    <2> SUFFICES ASSUME Bad # {} PROVE FALSE
      OBVIOUS
    <2> HIDE DEF Sum, upTo
    <2>0. Bad \subseteq Nat
      OBVIOUS
    <2>1. PICK m \in Bad : \A k \in Bad : m <= k
      <3> HIDE DEF Bad
      <3> QED  BY <2>0, LeastElement
    <2>2. m \in 1 .. count /\ m - 1 \in 0 .. count /\ m - 1 \notin Bad
      BY <1>3, <2>1
    <2> QED  BY <1>4, <2>1, <2>2
  <1>6. Sum(count) = upTo(count)
    BY <1>5
  <1> QED  BY <1>1, <1>6 DEF f

-----------------------------------------------------------------------------
(* Types *)

\* A disputed order goes back to one that was disputed, and a request for a
\* retry is about a child.
ReturnOK ==
    /\ order = "DISPUTED" => prev \in {"PENDING_PAYMENT", "CONFIRMED"}
    /\ \A n \in Requests : request[n].at = "retry" => request[n].pay \in Children

LEMMA CountOfPlan ==
    ASSUME InstallmentsAssumption
    PROVE  N \in Nat \ {0}
  <1> N \in 1 .. Price
    BY CountBounds DEF N, InstallmentsAssumption
  <1> QED  BY DEF InstallmentsAssumption

\* What a new row is, and what the children are.
LEMMA NewRow ==
    ASSUME unused # {}
    PROVE  newRow \in Children /\ pay[newRow] = "NONE"
  BY DEF newRow, unused, existing

\* Requests keep their form: a step of one changes that one only.
Request == [at : {"idle", "begin", "count", "retry"} \cup Settling,
            pay : Payments, rep : {"PAID", "FAILED"}, by : By]

RequestsKept == request' \in [Requests -> Request] /\ ReturnOK'

SameReturn == UNCHANGED <<order, prev>> \/ order' # "DISPUTED"

LEMMA OneRequest ==
    ASSUME TypeOK, ReturnOK, NEW n \in Requests, NEW r \in Request,
           request' = [request EXCEPT ![n] = r],
           r.at = "retry" => r.pay \in Children,
           SameReturn
    PROVE  RequestsKept
  BY DEF TypeOK, ReturnOK, RequestsKept, Request, SameReturn

LEMMA RequestLeaves ==
    ASSUME InstallmentsAssumption, TypeOK, ReturnOK, NEW n \in Requests, leave(n), SameReturn
    PROVE  RequestsKept
  <1>1. Idle \in Request /\ Idle.at = "idle"
    BY DEF Idle, Request, Payments, Parent, By, InstallmentsAssumption
  <1> QED  BY <1>1, OneRequest DEF leave

LEMMA RequestMoves ==
    ASSUME TypeOK, ReturnOK, NEW n \in Requests,
           NEW point \in {"count"} \cup Settling, moveTo(n, point), SameReturn
    PROVE  RequestsKept
  <1> DEFINE r == [request[n] EXCEPT !.at = point]
  <1>1. r \in Request /\ r.at # "retry"
    BY DEF TypeOK, Request, Settling
  <1>2. request' = [request EXCEPT ![n] = r]
    BY DEF moveTo
  <1> QED  BY <1>1, <1>2, OneRequest

LEMMA RequestStarts ==
    ASSUME TypeOK, ReturnOK, NEW n \in Requests,
           NEW point \in {"begin", "count", "retry"}, NEW p \in Payments,
           NEW report \in {"PAID", "FAILED"}, NEW by \in By,
           point = "retry" => p \in Children,
           request' = [request EXCEPT ![n] =
                         [at |-> point, pay |-> p, rep |-> report, by |-> by]],
           SameReturn
    PROVE  RequestsKept
  <1> DEFINE r == [at |-> point, pay |-> p, rep |-> report, by |-> by]
  <1>1. r \in Request /\ (r.at = "retry" => r.pay \in Children)
    BY DEF Request
  <1> HIDE DEF r
  <1>2. request' = [request EXCEPT ![n] = r]
    BY DEF r
  <1> QED  BY <1>1, <1>2, OneRequest

LEMMA RequestsTyped ==
    ASSUME InstallmentsAssumption, TypeOK, ReturnOK, NEW n \in Requests, RequestStep(n)
    PROVE  RequestsKept
  <1>p. Parent \in Payments /\ Children \subseteq Payments
    BY DEF Payments, Parent, Children, InstallmentsAssumption
  <1> USE DEF SameReturn, orderVars, By
  <1>1. ASSUME NEW c \in Children, ChapaNotice(n, c)
        PROVE  RequestsKept
    BY <1>p, <1>1, RequestStarts DEF ChapaNotice, start
  <1>2. ASSUME NEW q \in Payments, AdminConfirm(n, q)
        PROVE  RequestsKept
    BY <1>2, RequestStarts DEF AdminConfirm, start
  <1>3. ASSUME NEW c \in Children, AskRetry(n, c)
        PROVE  RequestsKept
    BY <1>p, <1>3, RequestStarts DEF AskRetry, start
  <1>4. CASE Observe(n)
    BY <1>p, <1>4, RequestStarts DEF Observe, start
  <1>5. CASE finalizeInstallmentPlan(n)
    BY <1>p, <1>5, RequestStarts, RequestLeaves DEF finalizeInstallmentPlan
  <1>6. CASE SettleRead(n)
    BY <1>6, RequestMoves, RequestLeaves DEF SettleRead, Settling
  <1>7. CASE SettleChild(n)
    BY <1>7, RequestMoves DEF SettleChild
  <1>8. CASE Replace(n) \/ SettleFailed(n) \/ SettleParentOnly(n) \/ SettleNoStock(n)
             \/ RequestDies(n)
    BY <1>8, RequestLeaves
       DEF Replace, SettleFailed, SettleParentOnly, SettleNoStock, RequestDies
  <1>9. CASE SettleParent(n)
    BY <1>9, RequestLeaves DEF SettleParent
  <1> QED  BY <1>1, <1>2, <1>3, <1>4, <1>5, <1>6, <1>7, <1>8, <1>9 DEF RequestStep

\* Every step of a request keeps the types ...
LEMMA RequestStepTyped ==
    ASSUME InstallmentsAssumption, TypeOK, ReturnOK, NEW n \in Requests, RequestStep(n)
    PROVE  TypeOK' /\ ReturnOK'
  <1>r. RequestsKept
    BY RequestsTyped
  <1>n. N \in Nat \ {0}
    BY CountOfPlan
  <1>f. request[n].pay \in Payments /\ request[n].by \in By /\ Parent \in Payments
    BY DEF TypeOK, Payments, Parent, InstallmentsAssumption
  <1>e. Recorded(n) \subseteq Payments \X By
    BY <1>f DEF Recorded, event, TypeOK
  <1> USE DEF TypeOK, RequestsKept, Request, orderVars, rowVars, refundVars
  <1>1. CASE \/ \E c \in Children : ChapaNotice(n, c) \/ AskRetry(n, c)
             \/ \E p \in Payments : AdminConfirm(n, p)
             \/ Observe(n)
    BY <1>1, <1>r DEF ChapaNotice, AskRetry, AdminConfirm, Observe, start
  <1>2. CASE Replace(n)
    <2>1. at(n, "retry") => request[n].pay \in Children
      BY DEF ReturnOK, at
    <2>2. CASE sequence[request[n].pay] # 0 /\ unused # {}
      <3>1. newRow \in Children /\ newRow \in Payments
        BY <2>2, NewRow DEF Children, Payments
      <3>2. sequence' \in [Children -> 0 .. N] /\ amount' \in [Children -> Nat]
        BY <1>2, <1>n, <2>1, <2>2, <3>1 DEF Replace, sameSequence, at
      <3>3. pay' \in [Payments -> PaymentStatus \cup {"NONE"}]
        BY <1>2, <2>2, <3>1 DEF Replace, PaymentStatus
      <3> QED  BY <1>2, <1>r, <3>2, <3>3 DEF Replace
    <2>3. CASE ~(sequence[request[n].pay] # 0 /\ unused # {})
      BY <1>2, <1>r, <2>3 DEF Replace
    <2> QED  BY <2>2, <2>3
  <1>3. CASE finalizeInstallmentPlan(n) \/ RequestDies(n)
    BY <1>3, <1>r DEF finalizeInstallmentPlan, RequestDies
  <1>4. CASE SettleRead(n)
    BY <1>4, <1>r, <1>e DEF SettleRead
  <1>5. CASE SettleFailed(n)
    BY <1>5, <1>r, <1>f DEF SettleFailed, PaymentStatus
  <1>6. ASSUME NEW flag \in BOOLEAN, becomesPaid(n, flag)
        PROVE  /\ pay' \in [Payments -> PaymentStatus \cup {"NONE"}]
               /\ paidEvents' \subseteq Payments /\ flagged' \subseteq Payments
               /\ events' \subseteq Payments \X By
               /\ UNCHANGED <<planning, sequence, amount, checkout, refund, closing>>
    BY <1>6, <1>f, <1>e DEF becomesPaid, PaymentStatus
  <1>7. CASE SettleChild(n)
    BY <1>7, <1>r, <1>6 DEF SettleChild, at
  <1>8. CASE SettleParentOnly(n)
    BY <1>8, <1>r, <1>f, <1>6 DEF SettleParentOnly, at
  <1>9. CASE SettleParent(n)
    BY <1>9, <1>r, <1>f, <1>6 DEF SettleParent, Statuses
  <1>10. CASE SettleNoStock(n)
    BY <1>10, <1>r, <1>f DEF SettleNoStock, PaymentStatus
  <1> QED  BY <1>1, <1>2, <1>3, <1>4, <1>5, <1>7, <1>8, <1>9, <1>10 DEF RequestStep

\* ... and so does every other step.
LEMMA OtherStepTyped ==
    ASSUME InstallmentsAssumption, TypeOK, ReturnOK,
           \/ CreatePlan \/ ensureInstallmentChildren \/ PlanningDies
           \/ \E c \in Children : ChildStep(c)
           \/ cancelOrderInTransaction \/ RaiseDispute \/ DismissDispute \/ SellOut
    PROVE  TypeOK' /\ ReturnOK'
  <1>n. N \in Nat \ {0} /\ N <= Rows
    BY CountOfPlan DEF InstallmentsAssumption
  <1>p. Children \subseteq Payments /\ Parent \in Payments
    BY DEF Children, Payments, Parent, InstallmentsAssumption
  <1> USE DEF TypeOK, ReturnOK, orderVars, rowVars, refundVars
  <1>1. CASE CreatePlan \/ PlanningDies
    BY <1>1, <1>p DEF CreatePlan, PlanningDies, PaymentStatus
  <1>2. CASE ensureInstallmentChildren
    <2>1. \A c \in 1 .. N : splitInto(Price, N)[c] \in Nat
      BY PartsWithinLimit DEF N, InstallmentsAssumption
    <2>2. amount' \in [Children -> Nat] /\ sequence' \in [Children -> 0 .. N]
      <3>1. CASE existing = {}
        <4>1. amount' \in [Children -> Nat]
          BY <1>2, <2>1, <3>1 DEF ensureInstallmentChildren, Children
        <4>2. sequence' \in [Children -> 0 .. N]
          BY <1>2, <1>n, <3>1 DEF ensureInstallmentChildren, Children
        <4> QED  BY <4>1, <4>2
      <3>2. CASE existing # {}
        BY <1>2, <3>2 DEF ensureInstallmentChildren
      <3> QED  BY <3>1, <3>2
    <2> QED  BY <1>2, <2>2 DEF ensureInstallmentChildren, PaymentStatus
  <1>3. ASSUME NEW c \in Children, ChildStep(c)
        PROVE  TypeOK' /\ ReturnOK'
    <2> USE <1>p DEF PaymentStatus, RefundStatus
    <2>1. CASE initializeChapa(c) \/ \E d \in {"PAID", "FAILED"} : ProviderDecides(c, d)
      BY <2>1 DEF initializeChapa, ProviderDecides
    <2>2. CASE processRefund(c) \/ finalizeRefund(c) \/ finalizeDies(c)
      BY <2>2 DEF processRefund, finalizeRefund, finalizeDies
    <2>3. CASE finalizeCommits(c)
      BY <2>3 DEF finalizeCommits
    <2>4. CASE failRefund(c) \/ retryRefund(c)
      BY <2>4 DEF failRefund, retryRefund
    <2> QED  BY <1>3, <2>1, <2>2, <2>3, <2>4 DEF ChildStep
  <1>4. CASE cancelOrderInTransaction
    BY <1>4 DEF cancelOrderInTransaction, Statuses, PaymentStatus, RefundStatus
  <1>5. CASE RaiseDispute
    BY <1>5 DEF RaiseDispute, Statuses, DISPUTABLE_STATUSES, ORDER_TRANSITIONS, OrderStatus,
                InstallmentsAssumption
  <1>6. CASE DismissDispute
    BY <1>6 DEF DismissDispute, Statuses
  <1>7. CASE SellOut
    BY <1>7 DEF SellOut
  <1> QED  BY <1>1, <1>2, <1>3, <1>4, <1>5, <1>6, <1>7

\* Every reachable state is well typed, for any price, limit and number of
\* requests (TypeOK).
THEOREM InstallmentsTyped == Spec => [](TypeOK /\ ReturnOK)
  <1>1. Init => TypeOK /\ ReturnOK
    <2>1. N \in Nat
      BY CountOfPlan, InstallmentsAssumption
    <2> USE InstallmentsAssumption
    <2>2. Init => request \in [Requests -> Request] /\ ReturnOK
      BY DEF Init, ReturnOK, Request, By, Idle, Payments, Parent, InstallmentsAssumption
    <2>3. Init => sequence \in [Children -> 0 .. N] /\ amount \in [Children -> Nat]
      BY <2>1 DEF Init
    <2>4. Init => /\ pay \in [Payments -> PaymentStatus \cup {"NONE"}]
                  /\ refund \in [Children -> RefundStatus]
                  /\ closing \in [Children -> {"no", "open", "last"}]
                  /\ checkout \in [Children -> {"none", "open", "PAID", "FAILED"}]
      BY DEF Init, RefundStatus
    <2>5. Init => /\ order \in Statuses /\ prev \in Statuses \cup {"NONE"}
                  /\ inStock \in BOOLEAN /\ planning \in BOOLEAN
                  /\ payout \in {"NONE", "HELD", "ON_HOLD_DISPUTE", "CANCELLED"}
                  /\ provider \in By \cup {"NONE"}
                  /\ paidEvents \subseteq Payments /\ flagged \subseteq Payments
                  /\ events \subseteq Payments \X By
      BY DEF Init, Statuses
    <2>6. Init => disputes \in 0 .. MaxDisputes
      BY DEF Init, InstallmentsAssumption
    <2> QED  BY <2>2, <2>3, <2>4, <2>5, <2>6 DEF TypeOK, Request
  <1>2. TypeOK /\ ReturnOK /\ [Next]_vars => TypeOK' /\ ReturnOK'
    <2> SUFFICES ASSUME TypeOK, ReturnOK, [Next]_vars
                 PROVE  TypeOK' /\ ReturnOK'
      OBVIOUS
    <2>1. CASE UNCHANGED vars
      BY <2>1 DEF vars, orderVars, rowVars, refundVars, TypeOK, ReturnOK
    <2>2. CASE \E n \in Requests : RequestStep(n)
      BY <2>2, RequestStepTyped, InstallmentsAssumption
    <2>3. CASE \/ CreatePlan \/ ensureInstallmentChildren \/ PlanningDies
               \/ \E c \in Children : ChildStep(c)
               \/ cancelOrderInTransaction \/ RaiseDispute \/ DismissDispute \/ SellOut
      BY <2>3, OtherStepTyped, InstallmentsAssumption
    <2> QED  BY <2>1, <2>2, <2>3 DEF Next
  <1> QED  BY <1>1, <1>2, PTL DEF Spec

-----------------------------------------------------------------------------
(* Money *)

\* The whole price was received: every installment, or offline by an admin.
WholePrice == Cardinality(paidEvents \ {Parent}) >= N
Received == <<Parent, "admin">> \in events \/ WholePrice

\* A row of money is a recorded payment; the parent is paid, and about to be
\* paid, only for the whole price.
MoneyOK ==
    /\ \A p \in Payments : pay[p] \in {"PAID", "REFUND_PENDING"} => p \in paidEvents
    /\ pay[Parent] = "PAID" => Received
    /\ payout # "NONE" => Received
    /\ \A n \in Requests :
          request[n].at \in {"begin"} \cup Settling /\ request[n].pay = Parent
              => request[n].by = "admin" \/ WholePrice

\* Events are never taken back.
LEMMA EventsStay ==
    ASSUME TypeOK, [Next]_vars
    PROVE  paidEvents \subseteq paidEvents' /\ events \subseteq events'
  <1> USE DEF rowVars
  <1>1. ASSUME NEW n \in Requests, RequestStep(n)
        PROVE  paidEvents \subseteq paidEvents' /\ events \subseteq events'
    BY <1>1 DEF RequestStep, ChapaNotice, AdminConfirm, AskRetry, Observe, start, Replace,
                finalizeInstallmentPlan, SettleRead, SettleFailed, SettleChild, becomesPaid,
                Recorded, SettleParentOnly, SettleParent, SettleNoStock, RequestDies
  <1>2. ASSUME NEW c \in Children, ChildStep(c)
        PROVE  paidEvents \subseteq paidEvents' /\ events \subseteq events'
    BY <1>2 DEF ChildStep, initializeChapa, ProviderDecides, processRefund, finalizeRefund,
                finalizeCommits, finalizeDies, failRefund, retryRefund
  <1>3. CASE \/ CreatePlan \/ ensureInstallmentChildren \/ PlanningDies
             \/ cancelOrderInTransaction \/ RaiseDispute \/ DismissDispute \/ SellOut
    BY <1>3 DEF CreatePlan, ensureInstallmentChildren, PlanningDies, cancelOrderInTransaction,
                RaiseDispute, DismissDispute, SellOut
  <1>4. CASE UNCHANGED vars
    BY <1>4 DEF vars
  <1> QED  BY <1>1, <1>2, <1>3, <1>4 DEF Next

LEMMA ReceivedStays ==
    ASSUME InstallmentsAssumption, TypeOK, TypeOK',
           paidEvents \subseteq paidEvents', events \subseteq events'
    PROVE  (Received => Received') /\ (WholePrice => WholePrice')
  <1> DEFINE before == paidEvents \ {Parent}
             after  == paidEvents' \ {Parent}
  <1>1. IsFiniteSet(Payments)
    BY FS_Interval DEF Payments, InstallmentsAssumption
  <1>2. IsFiniteSet(before) /\ IsFiniteSet(after)
    BY <1>1, FS_Subset DEF TypeOK
  <1>3. Cardinality(before) <= Cardinality(after)
    BY <1>2, FS_Subset
  <1>4. Cardinality(before) \in Nat /\ Cardinality(after) \in Nat /\ N \in Nat
    BY <1>2, FS_CardinalityType, CountOfPlan
  <1> QED  BY <1>3, <1>4 DEF Received, WholePrice

\* A plan seen complete has been paid for as often as it has installments.
LEMMA CompleteIsWhole ==
    ASSUME InstallmentsAssumption, TypeOK, MoneyOK, allPaid
    PROVE  WholePrice
  <1>1. live \subseteq paidEvents \ {Parent}
    BY DEF allPaid, live, MoneyOK, Children, Payments, Parent
  <1>2. IsFiniteSet(Payments)
    BY FS_Interval DEF Payments, InstallmentsAssumption
  <1>3. IsFiniteSet(paidEvents \ {Parent})
    BY <1>2, FS_Subset DEF TypeOK
  <1>4. Cardinality(live) <= Cardinality(paidEvents \ {Parent})
    BY <1>1, <1>3, FS_Subset
  <1> QED  BY <1>4 DEF allPaid, WholePrice

\* The steps of requests keep MoneyOK ...
LEMMA RequestStepMoney ==
    ASSUME InstallmentsAssumption, TypeOK, ReturnOK, TypeOK', MoneyOK,
           Received => Received', WholePrice => WholePrice',
           NEW n \in Requests, RequestStep(n)
    PROVE  MoneyOK'
  <1>f. request[n].pay \in Payments /\ Parent \in Payments /\ Parent \notin Children
    BY DEF TypeOK, Payments, Parent, Children, InstallmentsAssumption
  <1> USE DEF MoneyOK, orderVars, rowVars
  \* What becomes of the requests, whatever the rows do.
  <1> DEFINE Proper(r) == r.at \in {"begin"} \cup Settling /\ r.pay = Parent
                              => r.by = "admin" \/ WholePrice
             Others == \A m \in Requests \ {n} : request'[m] = request[m]
             MoneyKept == UNCHANGED <<pay, payout, paidEvents>>
  <1>o. ASSUME Others, Proper(request'[n])
        PROVE  \A m \in Requests :
                  request'[m].at \in {"begin"} \cup Settling /\ request'[m].pay = Parent
                      => request'[m].by = "admin" \/ WholePrice'
    BY <1>o
  <1>1. CASE \/ \E c \in Children : ChapaNotice(n, c) \/ AskRetry(n, c)
             \/ \E p \in Payments : AdminConfirm(n, p)
             \/ Observe(n)
    <2>1. MoneyKept /\ Others /\ Proper(request'[n])
      BY <1>1, <1>f DEF ChapaNotice, AskRetry, AdminConfirm, Observe, start, TypeOK, Settling
    <2> QED  BY <2>1, <1>o
  <1>2. CASE finalizeInstallmentPlan(n)
    <2>1. MoneyKept /\ Others /\ Proper(request'[n])
      BY <1>2, CompleteIsWhole
         DEF finalizeInstallmentPlan, leave, Idle, TypeOK, Settling
    <2> QED  BY <2>1, <1>o
  <1>3. CASE Replace(n)
    <2>1. Others /\ Proper(request'[n])
      BY <1>3 DEF Replace, leave, Idle, TypeOK, Settling
    <2>2. /\ \A p \in Payments : pay'[p] = pay[p] \/ (p \in Children /\ pay'[p] = "PENDING")
          /\ UNCHANGED <<payout, paidEvents>>
      BY <1>3, NewRow DEF Replace, TypeOK
    <2> QED  BY <2>1, <2>2, <1>f, <1>o
  <1>4. CASE SettleRead(n)
    <2>1. MoneyKept /\ Others /\ Proper(request'[n])
      BY <1>4 DEF SettleRead, leave, moveTo, at, Idle, TypeOK, Settling
    <2> QED  BY <2>1, <1>o
  <1>5. CASE SettleFailed(n) \/ SettleNoStock(n) \/ RequestDies(n)
    <2>1. Others /\ Proper(request'[n])
      BY <1>5 DEF SettleFailed, SettleNoStock, RequestDies, leave, Idle, TypeOK, Settling
    <2>2. /\ \A p \in Payments : \/ pay'[p] = pay[p]
                                 \/ pay'[p] \in {"FAILED", "RECONCILIATION_REQUIRED"}
          /\ UNCHANGED <<payout, paidEvents>>
      BY <1>5, <1>f DEF SettleFailed, SettleNoStock, RequestDies, TypeOK
    <2> QED  BY <2>1, <2>2, <1>f, <1>o
  <1>6. CASE SettleChild(n)
    <2>1. Others /\ Proper(request'[n])
      BY <1>6 DEF SettleChild, moveTo, TypeOK, Settling
    <2> QED  BY <1>6, <2>1, <1>f, <1>o DEF SettleChild, becomesPaid, TypeOK
  <1>7. CASE SettleParentOnly(n) \/ SettleParent(n)
    <2>1. Others /\ Proper(request'[n])
      <3>1. leave(n)
        BY <1>7 DEF SettleParentOnly, SettleParent
      <3> QED  BY <3>1 DEF leave, Idle, TypeOK, Settling
    <2>2. Received'
      <3>1. request[n].by = "admin" \/ WholePrice
        BY <1>7 DEF SettleParentOnly, SettleParent, at, Settling
      <3>2. CASE request[n].by = "admin"
        BY <1>7, <3>2
           DEF SettleParentOnly, SettleParent, becomesPaid, Recorded, event, Received
      <3>3. CASE WholePrice
        BY <3>3 DEF Received
      <3> QED  BY <3>1, <3>2, <3>3
    <2>3. /\ \A p \in Payments : p # Parent => pay'[p] = pay[p]
          /\ Parent \in paidEvents' /\ paidEvents \subseteq paidEvents'
      BY <1>7, <1>f DEF SettleParentOnly, SettleParent, becomesPaid, TypeOK
    <2> QED  BY <2>1, <2>2, <2>3, <1>o
  <1> QED  BY <1>1, <1>2, <1>3, <1>4, <1>5, <1>6, <1>7 DEF RequestStep

\* ... and so do the others.
LEMMA OtherStepMoney ==
    ASSUME InstallmentsAssumption, TypeOK, ReturnOK, TypeOK', MoneyOK,
           Received => Received', WholePrice => WholePrice',
           \/ CreatePlan \/ ensureInstallmentChildren \/ PlanningDies
           \/ \E c \in Children : ChildStep(c)
           \/ cancelOrderInTransaction \/ RaiseDispute \/ DismissDispute \/ SellOut
    PROVE  MoneyOK'
  <1>p. Parent \in Payments /\ Parent \notin Children /\ Children \subseteq Payments
    BY DEF Parent, Payments, Children, InstallmentsAssumption
  <1> USE DEF MoneyOK, orderVars, rowVars, refundVars
  <1>1. CASE CreatePlan \/ ensureInstallmentChildren \/ PlanningDies
    <2>1. /\ \A p \in Payments : pay'[p] = pay[p] \/ pay'[p] = "PENDING"
          /\ UNCHANGED <<payout, paidEvents, request>>
      BY <1>1 DEF CreatePlan, ensureInstallmentChildren, PlanningDies, TypeOK
    <2> QED  BY <2>1, <1>p
  <1>2. ASSUME NEW c \in Children, ChildStep(c)
        PROVE  MoneyOK'
    <2>1. CASE \/ initializeChapa(c) \/ finalizeCommits(c) \/ processRefund(c)
               \/ \E d \in {"PAID", "FAILED"} : ProviderDecides(c, d)
               \/ finalizeRefund(c) \/ finalizeDies(c)
      <3>1. /\ \A p \in Payments : pay'[p] = pay[p] \/ pay'[p] \in {"PROCESSING", "REFUNDED"}
            /\ UNCHANGED <<payout, paidEvents, request>>
        <4>1. CASE finalizeCommits(c)
          BY <4>1, <1>p DEF finalizeCommits, TypeOK
        <4>2. CASE initializeChapa(c)
          BY <4>2, <1>p DEF initializeChapa, TypeOK
        <4> QED  BY <2>1, <4>1, <4>2
                    DEF ProviderDecides, processRefund, finalizeRefund, finalizeDies
      <3> QED  BY <3>1, <1>p
    <2>2. CASE failRefund(c) \/ retryRefund(c)
      <3>1. /\ \A p \in Payments : p # c => pay'[p] = pay[p]
            /\ pay'[c] = pay[c] \/ pay[c] \in {"PAID", "REFUND_PENDING"}
            /\ UNCHANGED <<payout, paidEvents, request>>
        BY <2>2, <1>p DEF failRefund, retryRefund, TypeOK
      <3> QED  BY <3>1, <1>p
    <2> QED  BY <1>2, <2>1, <2>2 DEF ChildStep
  <1>3. CASE cancelOrderInTransaction
    <2>1. \A p \in Payments : \/ pay'[p] = pay[p]
                              \/ pay[p] = "PAID" /\ pay'[p] = "REFUND_PENDING"
                              \/ pay'[p] = "FAILED"
      BY <1>3 DEF cancelOrderInTransaction
    <2>2. /\ payout = "NONE" => payout' = "NONE"
          /\ UNCHANGED <<paidEvents, request>>
      BY <1>3 DEF cancelOrderInTransaction, CancellablePayouts
    <2> QED  BY <2>1, <2>2, <1>p
  <1>4. CASE RaiseDispute \/ DismissDispute \/ SellOut
    <2>1. /\ UNCHANGED <<pay, paidEvents, request>>
          /\ payout' # "NONE" => payout # "NONE" \/ pay[Parent] = "PAID"
      BY <1>4 DEF RaiseDispute, DismissDispute, SellOut
    <2> QED  BY <2>1
  <1> QED  BY <1>1, <1>2, <1>3, <1>4

\* Money rows are recorded payments, and the parent is paid for the whole price.
LEMMA MoneyCorrect == Spec => []MoneyOK
  <1>1. Init => MoneyOK
    BY InstallmentsAssumption
       DEF Init, MoneyOK, Idle, Settling, Payments, Parent, InstallmentsAssumption
  <1>2. /\ TypeOK /\ ReturnOK /\ MoneyOK /\ [Next]_vars /\ TypeOK'
        => MoneyOK'
    <2> SUFFICES ASSUME TypeOK, ReturnOK, MoneyOK, [Next]_vars, TypeOK'
                 PROVE  MoneyOK'
      OBVIOUS
    <2>1. (Received => Received') /\ (WholePrice => WholePrice')
      BY EventsStay, ReceivedStays, InstallmentsAssumption
    <2>2. CASE UNCHANGED vars
      BY <2>1, <2>2 DEF vars, orderVars, rowVars, MoneyOK
    <2>3. CASE \E n \in Requests : RequestStep(n)
      BY <2>1, <2>3, RequestStepMoney, InstallmentsAssumption
    <2>4. CASE \/ CreatePlan \/ ensureInstallmentChildren \/ PlanningDies
               \/ \E c \in Children : ChildStep(c)
               \/ cancelOrderInTransaction \/ RaiseDispute \/ DismissDispute \/ SellOut
      BY <2>1, <2>4, OtherStepMoney, InstallmentsAssumption
    <2> QED  BY <2>2, <2>3, <2>4 DEF Next
  <1> QED  BY <1>1, <1>2, InstallmentsTyped, PTL DEF Spec

\* The seller's money is held only for the whole price (finalizeInstallmentPlan,
\* replaceFailedInstallment), whoever confirms what by hand.
THEOREM WholePriceHeld == Spec => []PayoutOnlyForWholePrice
  <1>1. MoneyOK => PayoutOnlyForWholePrice
    BY DEF MoneyOK, PayoutOnlyForWholePrice, Received, WholePrice
  <1> QED  BY <1>1, MoneyCorrect, PTL

-----------------------------------------------------------------------------
(* Holds and refunds *)

\* Refunds belong to cancelled orders, which hold nothing for the seller.
RefundOK ==
    /\ order # "CANCELLED" => \A c \in Children : refund[c] = "NONE"
    /\ order = "CANCELLED" => payout \notin {"HELD", "ON_HOLD_DISPUTE"}
    /\ \A c \in Children : closing[c] # "no" => refund[c] # "NONE"

LEMMA RequestStepRefund ==
    ASSUME TypeOK, RefundOK, NEW n \in Requests, RequestStep(n)
    PROVE  RefundOK'
  <1> USE DEF RefundOK, orderVars, rowVars, refundVars
  <1>1. CASE SettleParent(n)
    BY <1>1 DEF SettleParent, becomesPaid, awaitsPayment
  <1>2. CASE SettleChild(n) \/ SettleParentOnly(n)
    BY <1>2 DEF SettleChild, SettleParentOnly, becomesPaid
  <1>3. CASE ~(SettleParent(n) \/ SettleChild(n) \/ SettleParentOnly(n))
    BY <1>3 DEF RequestStep, ChapaNotice, AdminConfirm, AskRetry, Observe, start, Replace,
                finalizeInstallmentPlan, SettleRead, SettleFailed, SettleNoStock, RequestDies
  <1> QED  BY <1>1, <1>2, <1>3

LEMMA OtherStepRefund ==
    ASSUME TypeOK, ReturnOK, RefundOK,
           \/ CreatePlan \/ ensureInstallmentChildren \/ PlanningDies
           \/ \E c \in Children : ChildStep(c)
           \/ cancelOrderInTransaction \/ RaiseDispute \/ DismissDispute \/ SellOut
    PROVE  RefundOK'
  <1> USE DEF RefundOK, orderVars, rowVars, refundVars
  <1>1. CASE CreatePlan \/ ensureInstallmentChildren \/ PlanningDies \/ SellOut
    BY <1>1 DEF CreatePlan, ensureInstallmentChildren, PlanningDies, SellOut
  <1>2. ASSUME NEW c \in Children, ChildStep(c)
        PROVE  RefundOK'
    <2>1. CASE initializeChapa(c) \/ \E d \in {"PAID", "FAILED"} : ProviderDecides(c, d)
      BY <2>1 DEF initializeChapa, ProviderDecides
    <2>2. CASE processRefund(c) \/ finalizeRefund(c) \/ finalizeDies(c)
      BY <2>2 DEF processRefund, finalizeRefund, finalizeDies, TypeOK
    <2>3. CASE finalizeCommits(c)
      BY <2>3 DEF finalizeCommits, TypeOK
    <2>4. CASE failRefund(c) \/ retryRefund(c)
      BY <2>4 DEF failRefund, retryRefund, TypeOK
    <2> QED  BY <1>2, <2>1, <2>2, <2>3, <2>4 DEF ChildStep
  <1>3. CASE cancelOrderInTransaction
    BY <1>3 DEF cancelOrderInTransaction, CancellablePayouts, TypeOK
  <1>4. CASE RaiseDispute
    <2>1. order # "CANCELLED"
      BY <1>4 DEF RaiseDispute, DISPUTABLE_STATUSES, ORDER_TRANSITIONS, OrderStatus
    <2> QED  BY <1>4, <2>1 DEF RaiseDispute
  <1>5. CASE DismissDispute
    BY <1>5 DEF DismissDispute, ReturnOK
  <1> QED  BY <1>1, <1>2, <1>3, <1>4, <1>5

\* Refunds belong to cancelled orders.
LEMMA RefundCorrect == Spec => []RefundOK
  <1>1. Init => RefundOK
    BY DEF Init, RefundOK
  <1>2. TypeOK /\ ReturnOK /\ RefundOK /\ [Next]_vars => RefundOK'
    <2> SUFFICES ASSUME TypeOK, ReturnOK, RefundOK, [Next]_vars
                 PROVE  RefundOK'
      OBVIOUS
    <2>1. CASE UNCHANGED vars
      BY <2>1 DEF vars, orderVars, refundVars, RefundOK
    <2>2. CASE \E n \in Requests : RequestStep(n)
      BY <2>2, RequestStepRefund
    <2>3. CASE \/ CreatePlan \/ ensureInstallmentChildren \/ PlanningDies
               \/ \E c \in Children : ChildStep(c)
               \/ cancelOrderInTransaction \/ RaiseDispute \/ DismissDispute \/ SellOut
      BY <2>3, OtherStepRefund
    <2> QED  BY <2>1, <2>2, <2>3 DEF Next
  <1> QED  BY <1>1, <1>2, InstallmentsTyped, PTL DEF Spec

\* A hold for the seller and a refund to the buyer exclude each other
\* (settlePaymentCore, cancelOrderInTransaction).
THEOREM HoldsExcludeRefunds == Spec => []NoHoldWhileRefunding
  <1>1. RefundOK => NoHoldWhileRefunding
    BY DEF RefundOK, NoHoldWhileRefunding
  <1> QED  BY <1>1, RefundCorrect, PTL

-----------------------------------------------------------------------------
(* Amounts *)

\* What refers to a child refers to a row, and every row fits into a checkout.
RowsOK ==
    /\ \A c \in Children :
          /\ pay[c] # "NONE" => amount[c] \in 1 .. Limit
          /\ \/ sequence[c] # 0 \/ checkout[c] # "none"
             \/ refund[c] # "NONE" \/ closing[c] # "no"
             => pay[c] # "NONE"
    /\ \A n \in Requests : request[n].at # "idle" => pay[request[n].pay] # "NONE"

LEMMA RequestStepRows ==
    ASSUME InstallmentsAssumption, TypeOK, ReturnOK, RowsOK, NEW n \in Requests, RequestStep(n)
    PROVE  RowsOK'
  <1>f. /\ request[n].pay \in Payments /\ Parent \in Payments /\ Parent \notin Children
        /\ Children \subseteq Payments
    BY DEF TypeOK, Payments, Parent, Children, InstallmentsAssumption
  <1> USE DEF RowsOK, orderVars, rowVars, refundVars
  <1> DEFINE RowsStay == \A p \in Payments : pay[p] # "NONE" => pay'[p] # "NONE"
             OneMoves == /\ \A m \in Requests \ {n} : request'[m] = request[m]
                         /\ request'[n].at # "idle" => pay'[request'[n].pay] # "NONE"
             ChildrenKept == UNCHANGED <<sequence, amount, checkout, refund, closing>>
  <1>r. ASSUME RowsStay, OneMoves
        PROVE  \A m \in Requests : request'[m].at # "idle" => pay'[request'[m].pay] # "NONE"
    BY <1>r DEF TypeOK
  <1>1. CASE \/ \E c \in Children : ChapaNotice(n, c) \/ AskRetry(n, c)
             \/ \E p \in Payments : AdminConfirm(n, p)
             \/ Observe(n)
    <2>1. RowsStay /\ OneMoves /\ UNCHANGED rowVars /\ UNCHANGED refundVars
      BY <1>1, <1>f DEF ChapaNotice, AskRetry, AdminConfirm, Observe, start, TypeOK
    <2> QED  BY <2>1, <1>r
  <1>2. CASE finalizeInstallmentPlan(n)
    <2>1. RowsStay /\ OneMoves /\ UNCHANGED rowVars /\ UNCHANGED refundVars
      BY <1>2, <1>f DEF finalizeInstallmentPlan, planOpen, leave, Idle, TypeOK
    <2> QED  BY <2>1, <1>r
  <1>3. CASE Replace(n)
    <2>1. CASE sequence[request[n].pay] # 0 /\ unused # {}
      <3> DEFINE old == request[n].pay
      <3>1. newRow \in Children /\ pay[newRow] = "NONE" /\ old \in Children /\ pay[old] # "NONE"
        BY <1>3, <2>1, NewRow DEF Replace, at, ReturnOK
      <3>2. /\ sequence' = [sequence EXCEPT ![old] = 0, ![newRow] = sequence[old]]
            /\ amount' = [amount EXCEPT ![newRow] = amount[old]]
            /\ pay' = [pay EXCEPT ![newRow] = "PENDING"]
            /\ UNCHANGED <<checkout, refund, closing>>
        BY <1>3, <2>1 DEF Replace, sameSequence
      <3>3. RowsStay /\ OneMoves
        BY <1>3, <1>f, <3>1, <3>2 DEF Replace, leave, Idle, TypeOK
      <3> HIDE DEF old
      <3>4. \A c \in Children :
               /\ pay'[c] # "NONE" => amount'[c] \in 1 .. Limit
               /\ sequence'[c] # 0 => pay'[c] # "NONE"
        BY <1>f, <3>1, <3>2 DEF TypeOK
      <3>5. \A c \in Children : checkout'[c] # "none" \/ refund'[c] # "NONE" \/ closing'[c] # "no"
                                   => pay'[c] # "NONE"
        BY <1>f, <3>2, <3>3
      <3> QED  BY <3>3, <3>4, <3>5, <1>r
    <2>2. CASE ~(sequence[request[n].pay] # 0 /\ unused # {})
      <3>1. RowsStay /\ OneMoves /\ UNCHANGED rowVars /\ UNCHANGED refundVars
        BY <1>3, <2>2 DEF Replace, leave, Idle, TypeOK
      <3> QED  BY <3>1, <1>r
    <2> QED  BY <2>1, <2>2
  <1>4. CASE SettleRead(n) \/ RequestDies(n)
    <2>1. RowsStay /\ OneMoves /\ UNCHANGED rowVars /\ UNCHANGED refundVars
      BY <1>4 DEF SettleRead, RequestDies, leave, moveTo, at, Idle, TypeOK
    <2> QED  BY <2>1, <1>r
  <1>5. CASE SettleFailed(n) \/ SettleNoStock(n)
    <2>0. leave(n)
      BY <1>5 DEF SettleFailed, SettleNoStock
    <2>1. /\ \A p \in Payments : pay'[p] # pay[p] => pay[p] # "NONE" /\ pay'[p] # "NONE"
          /\ ChildrenKept
      BY <1>5, <1>f DEF SettleFailed, SettleNoStock, at, TypeOK
    <2>2. RowsStay /\ OneMoves
      BY <2>0, <2>1 DEF leave, Idle, TypeOK
    <2> QED  BY <2>1, <2>2, <1>f, <1>r
  <1>6. CASE SettleChild(n) \/ SettleParentOnly(n) \/ SettleParent(n)
    <2>1. /\ pay' = [pay EXCEPT ![request[n].pay] = "PAID"]
          /\ pay[request[n].pay] # "NONE"
          /\ ChildrenKept
      BY <1>6 DEF SettleChild, SettleParentOnly, SettleParent, becomesPaid, at, Settling
    <2>2. leave(n) \/ moveTo(n, "count")
      BY <1>6 DEF SettleChild, SettleParentOnly, SettleParent
    <2>3. RowsStay /\ OneMoves
      BY <2>1, <2>2, <1>f DEF leave, moveTo, Idle, TypeOK
    <2>4. \A c \in Children : pay'[c] # "NONE" => pay[c] # "NONE"
      BY <2>1, <1>f DEF TypeOK
    <2> QED  BY <2>1, <2>3, <2>4, <1>f, <1>r
  <1> QED  BY <1>1, <1>2, <1>3, <1>4, <1>5, <1>6 DEF RequestStep

LEMMA OtherStepRows ==
    ASSUME InstallmentsAssumption, TypeOK, RowsOK,
           \/ CreatePlan \/ ensureInstallmentChildren \/ PlanningDies
           \/ \E c \in Children : ChildStep(c)
           \/ cancelOrderInTransaction \/ RaiseDispute \/ DismissDispute \/ SellOut
    PROVE  RowsOK'
  <1>p. Parent \in Payments /\ Parent \notin Children /\ Children \subseteq Payments
    BY DEF Parent, Payments, Children, InstallmentsAssumption
  <1>q. \A n \in Requests : request[n].pay \in Payments
    BY DEF TypeOK
  <1> USE DEF RowsOK, orderVars, rowVars, refundVars
  <1>1. CASE CreatePlan \/ PlanningDies
    BY <1>1, <1>p, <1>q DEF CreatePlan, PlanningDies, TypeOK
  <1>2. CASE ensureInstallmentChildren
    <2>1. CASE existing = {}
      <3>1. \A c \in 1 .. N : splitInto(Price, N)[c] \in 1 .. Limit
        BY PartsWithinLimit DEF N, InstallmentsAssumption
      <3>2. \A c \in Children : pay[c] = "NONE" /\ checkout[c] = "none" /\ refund[c] = "NONE"
                                /\ closing[c] = "no"
        BY <2>1 DEF existing
      <3>3. /\ \A p \in Payments : pay'[p] = IF p \in 1 .. N THEN "PENDING" ELSE pay[p]
            /\ \A c \in Children : sequence'[c] = IF c <= N THEN c ELSE 0
            /\ \A c \in Children : amount'[c] = IF c <= N THEN splitInto(Price, N)[c] ELSE 0
            /\ UNCHANGED <<checkout, refund, closing, request>>
        BY <1>2, <2>1 DEF ensureInstallmentChildren
      <3>4. N \in Nat /\ \A c \in Children : c <= N <=> c \in 1 .. N
        BY CountOfPlan DEF Children
      <3>5. \A c \in Children : /\ pay'[c] # "NONE" => amount'[c] \in 1 .. Limit
                                /\ sequence'[c] # 0 => pay'[c] # "NONE"
        BY <3>1, <3>2, <3>3, <3>4, <1>p
      <3>6. \A n \in Requests : request'[n].at # "idle" => pay'[request'[n].pay] # "NONE"
        BY <3>3, <1>q
      <3> QED  BY <3>2, <3>3, <3>5, <3>6
    <2>2. CASE existing # {}
      BY <1>2, <2>2 DEF ensureInstallmentChildren
    <2> QED  BY <2>1, <2>2
  <1>3. ASSUME NEW c \in Children, ChildStep(c)
        PROVE  RowsOK'
    <2>1. /\ \A p \in Payments : pay[p] # "NONE" => pay'[p] # "NONE"
          /\ \A d \in Children : pay'[d] # "NONE" => pay[d] # "NONE"
      <3>1. CASE finalizeCommits(c)
        BY <1>p, <3>1 DEF finalizeCommits, TypeOK
      <3>2. CASE ~finalizeCommits(c)
        BY <1>3, <1>p, <3>2 DEF ChildStep, initializeChapa, ProviderDecides, processRefund,
                    finalizeRefund, finalizeDies, failRefund, retryRefund, TypeOK
      <3> QED  BY <3>1, <3>2
    <2>2. /\ UNCHANGED <<sequence, amount, request>>
          /\ pay[c] # "NONE"
          /\ \A d \in Children \ {c} : /\ checkout'[d] = checkout[d]
                                       /\ refund'[d] = refund[d] /\ closing'[d] = closing[d]
      BY <1>3 DEF ChildStep, initializeChapa, ProviderDecides, processRefund, finalizeRefund,
                  finalizeCommits, finalizeDies, failRefund, retryRefund, TypeOK
    <2> QED  BY <2>1, <2>2, <1>p, <1>q
  <1>4. CASE cancelOrderInTransaction
    BY <1>4, <1>p, <1>q DEF cancelOrderInTransaction
  <1>5. CASE RaiseDispute \/ DismissDispute \/ SellOut
    BY <1>5 DEF RaiseDispute, DismissDispute, SellOut
  <1> QED  BY <1>1, <1>2, <1>3, <1>4, <1>5

\* Requests, refunds and checkouts refer to rows that exist.
LEMMA RowsCorrect == Spec => []RowsOK
  <1>1. Init => RowsOK
    BY InstallmentsAssumption
       DEF Init, RowsOK, Idle, Children, Payments, Parent, InstallmentsAssumption
  <1>2. TypeOK /\ ReturnOK /\ RowsOK /\ [Next]_vars => RowsOK'
    <2> SUFFICES ASSUME TypeOK, ReturnOK, RowsOK, [Next]_vars
                 PROVE  RowsOK'
      OBVIOUS
    <2>1. CASE UNCHANGED vars
      BY <2>1 DEF vars, orderVars, rowVars, refundVars, RowsOK
    <2>2. CASE \E n \in Requests : RequestStep(n)
      BY <2>2, RequestStepRows, InstallmentsAssumption
    <2>3. CASE \/ CreatePlan \/ ensureInstallmentChildren \/ PlanningDies
               \/ \E c \in Children : ChildStep(c)
               \/ cancelOrderInTransaction \/ RaiseDispute \/ DismissDispute \/ SellOut
      BY <2>3, OtherStepRows, InstallmentsAssumption
    <2> QED  BY <2>1, <2>2, <2>3 DEF Next
  <1> QED  BY <1>1, <1>2, InstallmentsTyped, PTL DEF Spec

\* Every installment the buyer is asked for fits into one checkout, also after
\* replacements (splitInto, replaceFailedInstallment).
THEOREM InstallmentsWithinLimit == Spec => []WithinLimit
  <1>1. RowsOK => WithinLimit
    BY DEF RowsOK, WithinLimit, live
  <1> QED  BY <1>1, RowsCorrect, PTL

\* The plan is created whole and a replacement asks for what the failed
\* installment asked for.
AddsUp == live # {} => SumFunctionOnSet(amount, live) = Price

LEMMA AddsUpStep ==
    ASSUME InstallmentsAssumption, TypeOK, TypeOK', ReturnOK, RowsOK, AddsUp, [Next]_vars
    PROVE  AddsUp'
  <1>f. IsFiniteSet(Children) /\ IsFiniteSet(live) /\ IsFiniteSet(live')
    BY FS_Interval, FS_Subset DEF live, Children, InstallmentsAssumption
  <1>i. /\ \A c \in Children : amount[c] \in Int /\ amount'[c] \in Int
        /\ live \subseteq Children /\ live' \subseteq Children
    BY DEF TypeOK, live
  <1>1. CASE ensureInstallmentChildren /\ existing = {}
    <2>1. N \in Nat \ {0} /\ 1 .. N \subseteq Children
      BY CountOfPlan DEF Children, InstallmentsAssumption
    <2>2. live' = 1 .. N
      BY <1>1, <2>1 DEF ensureInstallmentChildren, live, Children
    <2>3. \A c \in 1 .. N : amount'[c] = splitInto(Price, N)[c]
      BY <1>1, <2>1 DEF ensureInstallmentChildren
    <2>4. IsFiniteSet(1 .. N)
      BY <2>1, FS_Interval
    <2>5. SumFunctionOnSet(amount', 1 .. N) = SumFunctionOnSet(splitInto(Price, N), 1 .. N)
      BY <2>3, <2>4, SumSame
    <2>6. SumFunctionOnSet(splitInto(Price, N), 1 .. N) = Price
      BY <2>1, SplitAddsUp DEF InstallmentsAssumption
    <2> QED  BY <2>2, <2>5, <2>6 DEF AddsUp
  <1>2. ASSUME NEW n \in Requests, Replace(n), sequence[request[n].pay] # 0, unused # {}
        PROVE  AddsUp'
    <2> DEFINE old == request[n].pay
               new == newRow
               rest == live \ {old}
    <2>1. new \in Children /\ pay[new] = "NONE" /\ old \in Children /\ sequence[old] # 0
      BY <1>2, NewRow DEF Replace, at, ReturnOK
    <2>2. new # old /\ sequence[new] = 0 /\ old \in live
      BY <2>1 DEF RowsOK, live
    <2>3. /\ sequence' = [sequence EXCEPT ![old] = 0, ![new] = sequence[old]]
          /\ amount' = [amount EXCEPT ![new] = amount[old]]
      BY <1>2 DEF Replace, sameSequence
    <2> HIDE DEF old, new
    <2>4. /\ new \in live' /\ live' \ {new} = rest
          /\ amount'[new] = amount[old] /\ \A c \in rest : amount'[c] = amount[c]
      BY <2>1, <2>2, <2>3 DEF live, TypeOK
    <2>5. SumFunctionOnSet(amount, live) = amount[old] + SumFunctionOnSet(amount, rest)
      BY <1>f, <1>i, <2>2, SumRemove
    <2>6. SumFunctionOnSet(amount', live') = amount'[new] + SumFunctionOnSet(amount', rest)
      <3>1. \A c \in live' : amount'[c] \in Int
        BY <1>i
      <3>2. SumFunctionOnSet(amount', live')
               = amount'[new] + SumFunctionOnSet(amount', live' \ {new})
        BY <1>f, <2>4, <3>1, SumRemove
      <3> QED  BY <2>4, <3>2
    <2>7. SumFunctionOnSet(amount, rest) = SumFunctionOnSet(amount', rest)
      BY <1>f, <2>4, FS_Subset, SumSame
    <2> QED  BY <2>2, <2>4, <2>5, <2>6, <2>7 DEF AddsUp
  <1>3. CASE UNCHANGED <<sequence, amount>>
    BY <1>3 DEF AddsUp, live
  <1>4. ASSUME NEW n \in Requests, RequestStep(n) PROVE AddsUp'
    BY <1>2, <1>3, <1>4
       DEF RequestStep, ChapaNotice, AdminConfirm, AskRetry, Observe, start, Replace,
       finalizeInstallmentPlan, SettleRead, SettleFailed, SettleChild, becomesPaid,
       SettleParentOnly, SettleParent, SettleNoStock, RequestDies, rowVars
  <1>5. ASSUME NEW c \in Children, ChildStep(c) PROVE AddsUp'
    BY <1>3, <1>5
       DEF ChildStep, initializeChapa, ProviderDecides, processRefund, finalizeRefund,
       finalizeCommits, finalizeDies, failRefund, retryRefund, rowVars
  <1>6. CASE \/ CreatePlan \/ ensureInstallmentChildren \/ PlanningDies
             \/ cancelOrderInTransaction \/ RaiseDispute \/ DismissDispute \/ SellOut
             \/ UNCHANGED vars
    BY <1>1, <1>3, <1>6
       DEF CreatePlan, ensureInstallmentChildren, PlanningDies, cancelOrderInTransaction,
       RaiseDispute, DismissDispute, SellOut, vars, rowVars
  <1> QED  BY <1>4, <1>5, <1>6 DEF Next

\* The installments the buyer is asked for add up to the price, to the cent,
\* for every price and limit and after every replacement, and each fits into
\* one checkout (splitInto, replaceFailedInstallment).
THEOREM InstallmentsAddUp == Spec => []LiveInstallmentsAddUp
  <1>1. Init => AddsUp
    BY DEF Init, AddsUp, live
  <1>2. TypeOK /\ TypeOK' /\ ReturnOK /\ RowsOK /\ AddsUp /\ [Next]_vars => AddsUp'
    BY AddsUpStep, InstallmentsAssumption
  <1>3. AddsUp /\ WithinLimit => LiveInstallmentsAddUp
    BY DEF AddsUp, LiveInstallmentsAddUp
  <1> QED  BY <1>1, <1>2, <1>3, RowsCorrect, InstallmentsTyped, InstallmentsWithinLimit, PTL
              DEF Spec

-----------------------------------------------------------------------------
(* Closing a refunded plan *)

\* Without offline confirmations of installments, a child's checkout says what
\* becomes of it: only one that the provider took money for was ever paid, only
\* one that it refused is failed (before a cancellation), retried or replaced.
ChildOK(c) ==
    /\ c \in paidEvents => /\ checkout[c] = "PAID"
                           /\ pay[c] \in {"PAID", "REFUND_PENDING", "REFUNDED"}
    /\ pay[c] = "PENDING" => checkout[c] = "none"
    /\ pay[c] = "FAILED" /\ order # "CANCELLED" => checkout[c] = "FAILED"
    /\ pay[c] # "NONE" /\ sequence[c] = 0 => checkout[c] = "FAILED"
    /\ pay[c] = "REFUNDED" => c \in paidEvents /\ refund[c] = "COMPLETED"
    /\ closing[c] # "no" => /\ pay[c] \in {"REFUND_PENDING", "REFUNDED"}
                            /\ refund[c] = "PROCESSING"

ReportOK(r) ==
    r.pay \in Children =>
        /\ r.at \in {"begin"} \cup Settling => r.rep = checkout[r.pay]
        /\ r.at = "retry" => checkout[r.pay] = "FAILED"

ChildrenOK ==
    /\ \A c \in Children : ChildOK(c)
    /\ \A n \in Requests : ReportOK(request[n])

\* The plan was seen complete: the parent is settled, or about to be, by it.
Completing(r) ==
    r.at \in {"begin"} \cup Settling /\ r.pay = Parent /\ r.by = "INSTALLMENTS"
Complete == provider = "INSTALLMENTS" \/ \E n \in Requests : Completing(request[n])

OthersReturned(c) ==
    \A d \in Children \ {c} : d \in paidEvents => refund[d] = "COMPLETED"

\* From then on its installments are fixed and paid, and the refund that
\* closes it leaves no other one unreturned.
PlanOK ==
    /\ Complete => /\ live # {} /\ live \subseteq paidEvents
                   /\ \A c \in Children : closing[c] = "last" => OthersReturned(c)
    /\ provider = "INSTALLMENTS" /\ pay[Parent] = "REFUNDED"
          => \A c \in Children : c \in paidEvents => refund[c] = "COMPLETED"

LEMMA RequestStepChildren ==
    ASSUME InstallmentsAssumption, Confirmable \subseteq {Parent}, TypeOK, ReturnOK, RowsOK,
           ChildrenOK, NEW n \in Requests, RequestStep(n)
    PROVE  ChildrenOK'
  <1>f. /\ request[n].pay \in Payments /\ Parent \in Payments /\ Parent \notin Children
        /\ Children \subseteq Payments /\ Payments \subseteq Children \cup {Parent}
    BY DEF TypeOK, Payments, Parent, Children, InstallmentsAssumption
  <1> DEFINE OneMoves == \A m \in Requests \ {n} : request'[m] = request[m]
             RowsKept == UNCHANGED <<order, rowVars, refundVars>>
  <1>r. ASSUME OneMoves, ReportOK(request'[n]), UNCHANGED checkout, \A c \in Children : ChildOK(c)'
        PROVE  ChildrenOK'
    BY <1>r DEF ChildrenOK, ReportOK
  <1>k. ASSUME RowsKept PROVE \A c \in Children : ChildOK(c)'
    BY <1>k DEF ChildrenOK, ChildOK, rowVars, refundVars
  <1>l. ASSUME leave(n) PROVE OneMoves /\ ReportOK(request'[n])
    BY <1>f, <1>l DEF leave, Idle, TypeOK, ReportOK, Settling
  <1>m. ASSUME NEW point \in Settling, moveTo(n, point), at(n, "begin")
        PROVE  OneMoves /\ ReportOK(request'[n])
    BY <1>m DEF moveTo, at, TypeOK, ReportOK, ChildrenOK, Settling
  <1> USE DEF orderVars, rowVars, refundVars
  <1>1. ASSUME NEW c \in Children, ChapaNotice(n, c) \/ AskRetry(n, c) PROVE ChildrenOK'
    <2>1. OneMoves /\ ReportOK(request'[n])
      BY <1>1 DEF ChapaNotice, AskRetry, start, TypeOK, ReportOK, ChildrenOK, ChildOK, Settling
    <2> QED  BY <1>1, <2>1, <1>r, <1>k DEF ChapaNotice, AskRetry, start
  <1>2. CASE \/ \E p \in Payments : AdminConfirm(n, p)
             \/ Observe(n) \/ finalizeInstallmentPlan(n)
    <2>1. OneMoves /\ ReportOK(request'[n])
      BY <1>2, <1>f, <1>l DEF AdminConfirm, Observe, finalizeInstallmentPlan, start, TypeOK, ReportOK
    <2> QED  BY <1>2, <2>1, <1>r, <1>k DEF AdminConfirm, Observe, finalizeInstallmentPlan, start
  <1>3. CASE Replace(n) /\ sequence[request[n].pay] # 0 /\ unused # {}
    <2> DEFINE old == request[n].pay
               new == newRow
    <2>1. /\ new \in Children /\ pay[new] = "NONE" /\ old \in Children
          /\ checkout[old] = "FAILED" /\ sequence[old] # 0
      BY <1>3, NewRow DEF Replace, at, ReturnOK, ChildrenOK, ReportOK
    <2>2. /\ sequence' = [sequence EXCEPT ![old] = 0, ![new] = sequence[old]]
          /\ pay' = [pay EXCEPT ![new] = "PENDING"]
          /\ UNCHANGED <<order, checkout, paidEvents, refund, closing>>
      BY <1>3 DEF Replace, sameSequence
    <2> HIDE DEF old, new
    <2>3. checkout[new] = "none" /\ closing[new] = "no" /\ new \notin paidEvents /\ new # old
      BY <2>1 DEF RowsOK, ChildrenOK, ChildOK
    <2>4. \A c \in Children : ChildOK(c)'
      BY <2>1, <2>2, <2>3, <1>f DEF TypeOK, ChildrenOK, ChildOK
    <2> QED  BY <1>3, <2>4, <1>r, <1>l DEF Replace
  <1>4. CASE Replace(n) /\ ~(sequence[request[n].pay] # 0 /\ unused # {})
    BY <1>4, <1>r, <1>k, <1>l DEF Replace
  <1>5. CASE SettleRead(n)
    <2>1. OneMoves /\ ReportOK(request'[n])
      BY <1>5, <1>l, <1>m DEF SettleRead, Settling
    <2> QED  BY <1>5, <2>1, <1>r, <1>k DEF SettleRead
  <1>6. CASE SettleFailed(n)
    <2> DEFINE p == request[n].pay
    <2>1. p \in Children => checkout[p] = "FAILED" /\ pay[p] # "NONE" /\ closing[p] = "no"
      BY <1>6, <1>f DEF SettleFailed, at, ChildrenOK, ReportOK, RowsOK, RowLocked, Settling
    <2>2. pay' = [pay EXCEPT ![p] = "FAILED"]
          /\ UNCHANGED <<order, sequence, checkout, paidEvents, refund, closing>>
      BY <1>6 DEF SettleFailed
    <2>3. \A c \in Children : ChildOK(c)'
      BY <2>1, <2>2, <1>f DEF TypeOK, ChildrenOK, ChildOK
    <2> QED  BY <1>6, <2>3, <1>r, <1>l DEF SettleFailed
  <1>7. CASE SettleChild(n)
    <2> DEFINE p == request[n].pay
    <2>1. /\ p \in Children /\ checkout[p] = "PAID" /\ closing[p] = "no"
          /\ pay[p] # "NONE"
      BY <1>7, <1>f DEF SettleChild, ChildrenOK, ReportOK, RowLocked, RowsOK
    <2>2. /\ pay' = [pay EXCEPT ![p] = "PAID"] /\ paidEvents' = paidEvents \cup {p}
          /\ UNCHANGED <<order, sequence, checkout, refund, closing>>
      BY <1>7 DEF SettleChild, becomesPaid
    <2>3. \A c \in Children : ChildOK(c)'
      BY <2>1, <2>2, <1>f DEF TypeOK, ChildrenOK, ChildOK
    <2>4. OneMoves /\ ReportOK(request'[n])
      BY <1>7 DEF SettleChild, moveTo, TypeOK, ReportOK, Settling
    <2> QED  BY <2>2, <2>3, <2>4, <1>r
  <1>8. CASE SettleParentOnly(n) \/ SettleParent(n) \/ SettleNoStock(n)
    <2>1. /\ \A c \in Children : /\ pay'[c] = pay[c]
                                 /\ c \in paidEvents' <=> c \in paidEvents
          /\ order' # "CANCELLED" => order # "CANCELLED"
          /\ UNCHANGED <<sequence, checkout, refund, closing>>
      BY <1>8, <1>f DEF SettleParentOnly, SettleParent, SettleNoStock, becomesPaid, awaitsPayment, TypeOK
    <2>2. \A c \in Children : ChildOK(c)'
      BY <2>1 DEF ChildrenOK, ChildOK
    <2>3. leave(n)
      BY <1>8 DEF SettleParentOnly, SettleParent, SettleNoStock
    <2> QED  BY <2>1, <2>2, <2>3, <1>r, <1>l
  <1>9. CASE RequestDies(n)
    BY <1>9, <1>r, <1>k, <1>l DEF RequestDies
  <1> QED  BY <1>1, <1>2, <1>3, <1>4, <1>5, <1>6, <1>7, <1>8, <1>9 DEF RequestStep

LEMMA OtherStepChildren ==
    ASSUME InstallmentsAssumption, TypeOK, ReturnOK, MoneyOK, RefundOK, RowsOK, ChildrenOK,
           \/ CreatePlan \/ ensureInstallmentChildren \/ PlanningDies
           \/ \E c \in Children : ChildStep(c)
           \/ cancelOrderInTransaction \/ RaiseDispute \/ DismissDispute \/ SellOut
    PROVE  ChildrenOK'
  <1>p. Parent \in Payments /\ Parent \notin Children /\ Children \subseteq Payments
    BY DEF Parent, Payments, Children, InstallmentsAssumption
  <1> USE DEF orderVars, rowVars, refundVars
  \* A step that changes the orders and the plan only.
  <1>k. ASSUME UNCHANGED <<sequence, checkout, paidEvents, refund, closing, request>>,
               \A c \in Children : pay'[c] = pay[c],
               order' # "CANCELLED" => order # "CANCELLED"
        PROVE  ChildrenOK'
    <2>1. \A c \in Children : ChildOK(c)'
      BY <1>k DEF ChildrenOK, ChildOK
    <2> QED  BY <2>1, <1>k DEF ChildrenOK, ReportOK
  <1>1. CASE CreatePlan \/ PlanningDies \/ (ensureInstallmentChildren /\ existing # {})
    BY <1>1, <1>k, <1>p DEF CreatePlan, PlanningDies, ensureInstallmentChildren, TypeOK
  <1>2. CASE ensureInstallmentChildren /\ existing = {}
    <2>1. \A c \in Children : /\ pay[c] = "NONE" /\ checkout[c] = "none" /\ closing[c] = "no"
                              /\ c \notin paidEvents
      BY <1>2 DEF existing, RowsOK, ChildrenOK, ChildOK
    <2>2. /\ \A c \in Children : /\ pay'[c] = IF c \in 1 .. N THEN "PENDING" ELSE "NONE"
                                 /\ sequence'[c] = IF c <= N THEN c ELSE 0
          /\ UNCHANGED <<order, checkout, paidEvents, refund, closing, request>>
      BY <1>2, <1>p, <2>1 DEF ensureInstallmentChildren
    <2>3. N \in Nat /\ \A c \in Children : c <= N <=> c \in 1 .. N
      BY CountOfPlan DEF Children
    <2>4. \A c \in Children : pay'[c] # "NONE" => sequence'[c] # 0
      BY <2>2, <2>3 DEF Children
    <2>5. \A c \in Children : ChildOK(c)'
      BY <2>1, <2>2, <2>4 DEF ChildOK
    <2> QED  BY <2>2, <2>5 DEF ChildrenOK, ReportOK
  <1>3. ASSUME NEW c \in Children, ChildStep(c)
        PROVE  ChildrenOK'
    <2>c. ASSUME ChildOK(c)', UNCHANGED <<order, sequence, paidEvents, request>>,
                 \A d \in Children \ {c} : /\ pay'[d] = pay[d] /\ checkout'[d] = checkout[d]
                                           /\ refund'[d] = refund[d] /\ closing'[d] = closing[d],
                 checkout'[c] = checkout[c] \/ checkout[c] \in {"none", "open"}
          PROVE  ChildrenOK'
      <3>1. \A d \in Children : ChildOK(d)'
        <4> SUFFICES ASSUME NEW d \in Children \ {c} PROVE ChildOK(d)'
          BY <2>c
        <4> QED  BY <2>c DEF ChildrenOK, ChildOK
      <3>2. \A n \in Requests : ReportOK(request[n])'
        <4> SUFFICES ASSUME NEW n \in Requests PROVE ReportOK(request[n])'
          OBVIOUS
        <4>1. request[n].rep \in {"PAID", "FAILED"}
          BY DEF TypeOK
        <4> QED  BY <4>1, <2>c DEF ChildrenOK, ReportOK
      <3> QED  BY <2>c, <3>1, <3>2 DEF ChildrenOK
    <2>o. ChildOK(c)
      BY DEF ChildrenOK
    <2>1. CASE initializeChapa(c)
      BY <2>1, <2>c, <2>o, <1>p DEF initializeChapa, TypeOK, ChildOK
    <2>2. ASSUME NEW d \in {"PAID", "FAILED"}, ProviderDecides(c, d)
          PROVE  ChildrenOK'
      BY <2>2, <2>c, <2>o, <1>p DEF ProviderDecides, TypeOK, ChildOK
    <2>3. CASE processRefund(c)
      BY <2>3, <2>c, <2>o, <1>p DEF processRefund, TypeOK, ChildOK
    <2>4. CASE finalizeRefund(c)
      <3>1. pay[c] \in {"REFUND_PENDING", "REFUNDED"}
        <4>1. \A s \in PaymentStatus \cup {"NONE"} :
                 s # "NONE" /\ canTransition(s, "REFUNDED") => s \in {"REFUND_PENDING", "REFUNDED"}
          BY DEF PaymentStatus, canTransition, TRANSITIONS
        <4>2. pay[c] # "NONE" /\ pay[c] \in PaymentStatus \cup {"NONE"}
          BY <2>4, <1>p DEF finalizeRefund, RowsOK, TypeOK
        <4> QED  BY <2>4, <4>1, <4>2 DEF finalizeRefund
      <3> QED  BY <2>4, <3>1, <2>c, <2>o, <1>p DEF finalizeRefund, TypeOK, ChildOK
    <2>5. CASE finalizeCommits(c)
      <3>1. c \in paidEvents
        BY <2>5, <2>o, <1>p DEF finalizeCommits, ChildOK, MoneyOK
      <3>2. /\ pay'[c] = "REFUNDED" /\ refund'[c] = "COMPLETED" /\ closing'[c] = "no"
            /\ \A d \in Children \ {c} : /\ pay'[d] = pay[d] /\ refund'[d] = refund[d]
                                         /\ closing'[d] = closing[d]
            /\ UNCHANGED <<order, sequence, checkout, paidEvents, request>>
        BY <2>5, <1>p DEF finalizeCommits, TypeOK
      <3>3. ChildOK(c)'
        BY <3>1, <3>2, <2>o DEF ChildOK
      <3> QED  BY <3>2, <3>3, <2>c
    <2>6. CASE finalizeDies(c)
      BY <2>6, <2>c, <2>o, <1>p DEF finalizeDies, TypeOK, ChildOK
    <2>7. CASE failRefund(c) \/ retryRefund(c)
      <3>1. c \in paidEvents => pay'[c] \in {"PAID", "REFUND_PENDING", "REFUNDED"}
        BY <2>7, <2>o, <1>p DEF failRefund, retryRefund, TypeOK, ChildOK
      <3> QED  BY <2>7, <3>1, <2>c, <2>o, <1>p DEF failRefund, retryRefund, TypeOK, ChildOK
    <2> QED  BY <1>3, <2>1, <2>2, <2>3, <2>4, <2>5, <2>6, <2>7 DEF ChildStep
  <1>4. CASE cancelOrderInTransaction
    <2>1. \A c \in Children : refund[c] = "NONE" /\ closing[c] = "no" /\ pay[c] # "REFUNDED"
      BY <1>4 DEF cancelOrderInTransaction, RefundOK, ChildrenOK, ChildOK
    <2>2. /\ order' = "CANCELLED"
          /\ \A c \in Children : pay'[c] = CASE pay[c] = "PAID" -> "REFUND_PENDING"
                                            [] pay[c] = "PENDING" -> "FAILED"
                                            [] OTHER -> pay[c]
          /\ UNCHANGED <<sequence, checkout, paidEvents, closing, request>>
      BY <1>4, <1>p DEF cancelOrderInTransaction
    <2>3. \A c \in Children : ChildOK(c)'
      BY <2>1, <2>2 DEF ChildrenOK, ChildOK
    <2> QED  BY <2>2, <2>3 DEF ChildrenOK, ReportOK
  <1>5. CASE RaiseDispute \/ DismissDispute \/ SellOut
    <2>1. RaiseDispute => order # "CANCELLED"
      BY DEF RaiseDispute, DISPUTABLE_STATUSES, ORDER_TRANSITIONS, OrderStatus
    <2>2. /\ order # "CANCELLED"
          /\ UNCHANGED <<sequence, checkout, paidEvents, refund, closing, request, pay>>
      BY <1>5, <2>1 DEF RaiseDispute, DismissDispute, SellOut
    <2> QED  BY <2>2, <1>k
  <1> QED  BY <1>1, <1>2, <1>3, <1>4, <1>5

\* A settled refund is never undone.
LEMMA ReturnedStays ==
    ASSUME TypeOK, RefundOK, ChildrenOK, [Next]_vars, NEW c \in Children, refund[c] = "COMPLETED"
    PROVE  refund'[c] = "COMPLETED"
  <1> USE DEF rowVars, refundVars
  <1>1. CASE UNCHANGED refund
    BY <1>1
  <1>2. ASSUME NEW n \in Requests, RequestStep(n) PROVE UNCHANGED refund
    BY <1>2 DEF RequestStep, ChapaNotice, AdminConfirm, AskRetry, Observe, start, Replace,
                finalizeInstallmentPlan, SettleRead, SettleFailed, SettleChild, becomesPaid,
                SettleParentOnly, SettleParent, SettleNoStock, RequestDies
  <1>3. ASSUME NEW d \in Children, ChildStep(d) PROVE refund'[c] = "COMPLETED"
    BY <1>1, <1>3 DEF ChildStep, initializeChapa, ProviderDecides, processRefund, finalizeRefund,
                finalizeCommits, finalizeDies, failRefund, retryRefund, TypeOK
  <1>4. CASE cancelOrderInTransaction
    BY <1>4 DEF cancelOrderInTransaction, RefundOK
  <1>5. CASE \/ CreatePlan \/ ensureInstallmentChildren \/ PlanningDies
             \/ RaiseDispute \/ DismissDispute \/ SellOut \/ UNCHANGED vars
    BY <1>1, <1>5 DEF CreatePlan, ensureInstallmentChildren, PlanningDies,
                RaiseDispute, DismissDispute, SellOut, vars
  <1> QED  BY <1>1, <1>2, <1>3, <1>4, <1>5 DEF Next

\* A plan in which an installment is being returned is not seen complete.
LEMMA NotCompleteWhileClosing ==
    ASSUME TypeOK, ChildrenOK, MoneyOK, NEW c \in Children, closing[c] # "no"
    PROVE  ~allPaid
  <1>1. pay[c] \in {"REFUND_PENDING", "REFUNDED"} /\ c \in Payments
    BY DEF ChildrenOK, ChildOK, Children, Payments
  <1>2. checkout[c] = "PAID"
    BY <1>1 DEF ChildrenOK, ChildOK, MoneyOK
  <1>3. sequence[c] # 0
    BY <1>1, <1>2 DEF ChildrenOK, ChildOK
  <1> QED  BY <1>1, <1>3 DEF allPaid, live

\* What makes a plan complete, when it was not.
LEMMA CompleteFrom ==
    ASSUME TypeOK, [Next]_vars, Complete'
    PROVE  Complete \/ \E n \in Requests : finalizeInstallmentPlan(n) /\ allPaid
  <1> USE DEF rowVars
  <1>1. ASSUME NEW n \in Requests, RequestStep(n),
               ~(finalizeInstallmentPlan(n) /\ allPaid)
        PROVE  Complete
    <2>1. CASE SettleParentOnly(n) \/ SettleParent(n)
      <3>1. /\ provider' = request[n].by /\ leave(n)
            /\ request[n].pay = Parent /\ request[n].at \in Settling
        BY <2>1 DEF SettleParentOnly, SettleParent, at, Settling
      <3>2. \A m \in Requests : Completing(request'[m]) => Completing(request[m])
        BY <3>1 DEF leave, Idle, TypeOK, Completing, Settling
      <3> QED  BY <3>1, <3>2 DEF Complete, Completing
    <2>2. CASE ~(SettleParentOnly(n) \/ SettleParent(n))
      <3>1. UNCHANGED provider
        BY <1>1, <2>2 DEF RequestStep, ChapaNotice, AdminConfirm, AskRetry, Observe, start, Replace,
                finalizeInstallmentPlan, SettleRead, SettleFailed, SettleChild, becomesPaid,
                SettleNoStock, RequestDies
      <3>2. \A m \in Requests : Completing(request'[m]) => Completing(request[m])
        <4>1. CASE leave(n)
          BY <4>1 DEF leave, Idle, TypeOK, Completing, Settling
        <4>2. ASSUME NEW p \in Payments, NEW point \in {"begin", "count", "retry"},
                     NEW rep, NEW by \in By, start(n, point, p, rep, by),
                     point = "begin" => by # "INSTALLMENTS"
              PROVE  \A m \in Requests : Completing(request'[m]) => Completing(request[m])
          BY <4>2 DEF start, TypeOK, Completing, Settling
        <4>3. CASE SettleChild(n)
          BY <4>3 DEF SettleChild, moveTo, TypeOK, Completing, Settling
        <4>4. CASE SettleRead(n)
          BY <4>4, <4>1 DEF SettleRead, moveTo, at, TypeOK, Completing, Settling
        <4>5. \A c \in Children : c \in Payments
          BY DEF Children, Payments
        <4>6. CASE \/ \E c \in Children : ChapaNotice(n, c) \/ AskRetry(n, c)
                   \/ \E p \in Payments : AdminConfirm(n, p)
          BY <4>2, <4>5, <4>6 DEF ChapaNotice, AskRetry, AdminConfirm, By
        <4>7. CASE Observe(n)
          BY <4>7 DEF Observe, start, TypeOK, Completing, Settling
        <4> QED  BY <1>1, <2>2, <4>1, <4>3, <4>4, <4>6, <4>7
                 DEF RequestStep, Replace, finalizeInstallmentPlan, SettleFailed, SettleNoStock, RequestDies
      <3> QED  BY <3>1, <3>2 DEF Complete
    <2> QED  BY <2>1, <2>2
  <1>2. ASSUME UNCHANGED <<provider, request>> PROVE Complete
    BY <1>2 DEF Complete
  <1>3. ASSUME NEW c \in Children, ChildStep(c) PROVE Complete
    <2>1. UNCHANGED <<provider, request>>
      BY <1>3 DEF ChildStep, initializeChapa, ProviderDecides, processRefund, finalizeRefund,
                  finalizeCommits, finalizeDies, failRefund, retryRefund
    <2> QED  BY <1>2, <2>1
  <1>4. CASE \/ CreatePlan \/ ensureInstallmentChildren \/ PlanningDies \/ cancelOrderInTransaction
             \/ RaiseDispute \/ DismissDispute \/ SellOut \/ UNCHANGED vars
    BY <1>2, <1>4 DEF CreatePlan, ensureInstallmentChildren, PlanningDies, cancelOrderInTransaction,
                RaiseDispute, DismissDispute, SellOut, vars
  <1> QED  BY <1>1, <1>3, <1>4 DEF Next

\* A complete plan gets no installment, loses none and is paid no other one.
LEMMA CompleteStays ==
    ASSUME InstallmentsAssumption, TypeOK, ReturnOK, RowsOK, ChildrenOK, [Next]_vars, Complete,
           live # {}, live \subseteq paidEvents
    PROVE  /\ live' = live
           /\ \A c \in Children : c \in paidEvents' <=> c \in paidEvents
  <1>p. Parent \notin Children
    BY DEF Parent, Children
  <1>e. existing # {}
    BY DEF RowsOK, live, existing
  <1> USE DEF rowVars
  <1>1. CASE UNCHANGED <<sequence, paidEvents>>
    BY <1>1 DEF live
  <1>2. ASSUME NEW n \in Requests, Replace(n) PROVE UNCHANGED <<sequence, paidEvents>>
    <2> DEFINE c == request[n].pay
    <2>1. c \in Children /\ checkout[c] = "FAILED"
      BY <1>2 DEF Replace, at, ReturnOK, ChildrenOK, ReportOK
    <2>2. sequence[c] = 0
      BY <2>1 DEF ChildrenOK, ChildOK, live
    <2> QED  BY <1>2, <2>2 DEF Replace
  <1>3. ASSUME NEW n \in Requests, SettleChild(n)
        PROVE  UNCHANGED sequence /\ \A c \in Children : c \in paidEvents' <=> c \in paidEvents
    <2> DEFINE c == request[n].pay
    <2>1. c \in Children /\ checkout[c] = "PAID" /\ pay[c] # "NONE"
      BY <1>3 DEF SettleChild, ChildrenOK, ReportOK, RowsOK, TypeOK, Payments, Children, Parent
    <2>2. c \in live
      BY <2>1 DEF ChildrenOK, ChildOK, live
    <2> QED  BY <1>3, <2>2 DEF SettleChild, becomesPaid
  <1>4. ASSUME NEW n \in Requests, SettleParentOnly(n) \/ SettleParent(n)
        PROVE  UNCHANGED sequence /\ \A c \in Children : c \in paidEvents' <=> c \in paidEvents
    BY <1>4, <1>p DEF SettleParentOnly, SettleParent, becomesPaid
  <1>5. ASSUME NEW n \in Requests, RequestStep(n)
        PROVE  UNCHANGED sequence /\ \A c \in Children : c \in paidEvents' <=> c \in paidEvents
    BY <1>2, <1>3, <1>4, <1>5
       DEF RequestStep, ChapaNotice, AdminConfirm, AskRetry, Observe, start,
       finalizeInstallmentPlan, SettleRead, SettleFailed, SettleNoStock, RequestDies
  <1>6. ASSUME NEW c \in Children, ChildStep(c) PROVE UNCHANGED <<sequence, paidEvents>>
    BY <1>6 DEF ChildStep, initializeChapa, ProviderDecides, processRefund, finalizeRefund,
                finalizeCommits, finalizeDies, failRefund, retryRefund
  <1>7. CASE \/ CreatePlan \/ ensureInstallmentChildren \/ PlanningDies \/ cancelOrderInTransaction
             \/ RaiseDispute \/ DismissDispute \/ SellOut \/ UNCHANGED vars
    BY <1>1, <1>7, <1>e DEF CreatePlan, ensureInstallmentChildren, PlanningDies,
       cancelOrderInTransaction, RaiseDispute, DismissDispute, SellOut, vars
  <1> QED  BY <1>1, <1>5, <1>6, <1>7 DEF Next, live

\* A step that begins the closing refund of c, or closes the parent.
LEMMA ClosingFrom ==
    ASSUME InstallmentsAssumption, TypeOK, [Next]_vars
    PROVE  /\ \A c \in Children : closing'[c] = "last" =>
                 \/ closing[c] = "last"
                 \/ finalizeRefund(c) /\ ~stillHeld(c)
           /\ provider' = "INSTALLMENTS" /\ pay'[Parent] = "REFUNDED" =>
                 \/ provider = "INSTALLMENTS" /\ pay[Parent] = "REFUNDED"
                 \/ /\ provider = "INSTALLMENTS"
                    /\ \E c \in Children : closing[c] = "last" /\ finalizeCommits(c)
  <1>p. Parent \in Payments /\ Parent \notin Children /\ Children \subseteq Payments
    BY DEF Parent, Payments, Children, InstallmentsAssumption
  <1> USE DEF rowVars, refundVars
  <1>1. CASE UNCHANGED <<closing, provider>> /\ (pay'[Parent] = "REFUNDED" => pay[Parent] = "REFUNDED")
    BY <1>1
  <1>2. ASSUME NEW n \in Requests, RequestStep(n)
        PROVE  /\ UNCHANGED closing
               /\ \/ UNCHANGED provider /\ (pay'[Parent] = "REFUNDED" => pay[Parent] = "REFUNDED")
                  \/ pay'[Parent] # "REFUNDED"
    <2>1. CASE SettleParentOnly(n) \/ SettleParent(n)
      BY <2>1, <1>p DEF SettleParentOnly, SettleParent, becomesPaid, TypeOK
    <2>2. CASE SettleChild(n) \/ SettleFailed(n) \/ SettleNoStock(n)
      BY <2>2, <1>p DEF SettleChild, SettleFailed, SettleNoStock, becomesPaid, TypeOK
    <2>3. CASE Replace(n)
      BY <2>3, <1>p, NewRow DEF Replace, TypeOK
    <2> QED  BY <1>2, <2>1, <2>2, <2>3 DEF RequestStep, ChapaNotice, AdminConfirm, AskRetry, Observe,
                start, finalizeInstallmentPlan, SettleRead, RequestDies
  <1>3. ASSUME NEW c \in Children, ChildStep(c)
        PROVE  /\ UNCHANGED provider
               /\ \A d \in Children : closing'[d] = "last" =>
                     closing[d] = "last" \/ (finalizeRefund(d) /\ ~stillHeld(d))
               /\ pay'[Parent] = "REFUNDED" =>
                     pay[Parent] = "REFUNDED" \/ (closing[c] = "last" /\ finalizeCommits(c))
    <2>1. CASE finalizeRefund(c)
      BY <2>1 DEF finalizeRefund, TypeOK
    <2>2. CASE finalizeCommits(c)
      BY <2>2, <1>p DEF finalizeCommits, TypeOK
    <2> QED  BY <1>3, <1>p, <2>1, <2>2 DEF ChildStep, initializeChapa, ProviderDecides, processRefund,
                finalizeDies, failRefund, retryRefund, TypeOK
  <1>4. CASE \/ CreatePlan \/ ensureInstallmentChildren \/ PlanningDies \/ cancelOrderInTransaction
             \/ RaiseDispute \/ DismissDispute \/ SellOut \/ UNCHANGED vars
    <2>1. Parent \notin 1 .. N
      BY DEF Parent
    <2> QED  BY <1>1, <1>4, <1>p, <2>1 DEF CreatePlan, ensureInstallmentChildren, PlanningDies,
                cancelOrderInTransaction, RaiseDispute, DismissDispute, SellOut, vars, TypeOK
  <1> QED  BY <1>2, <1>3, <1>4 DEF Next

\* Every step of the system keeps the plan.
LEMMA StepPlan ==
    ASSUME InstallmentsAssumption, TypeOK, ReturnOK, MoneyOK, RefundOK, RowsOK, ChildrenOK,
           PlanOK, [Next]_vars
    PROVE  PlanOK'
  <1>r. \A c \in Children : refund[c] = "COMPLETED" => refund'[c] = "COMPLETED"
    BY ReturnedStays
  <1>c. Complete => /\ live # {} /\ live \subseteq paidEvents
                    /\ live' = live
                    /\ \A c \in Children : c \in paidEvents' <=> c \in paidEvents
    BY CompleteStays DEF PlanOK
  <1>n. ASSUME NEW n \in Requests, finalizeInstallmentPlan(n), allPaid
        PROVE  /\ UNCHANGED <<sequence, paidEvents, closing>>
               /\ live # {} /\ live \subseteq paidEvents
    <2>1. UNCHANGED <<sequence, paidEvents, closing>>
      BY <1>n DEF finalizeInstallmentPlan, rowVars, refundVars
    <2>2. live # {}
      BY <1>n, CountOfPlan, FS_EmptySet DEF allPaid
    <2>3. live \subseteq paidEvents
      BY <1>n DEF allPaid, live, MoneyOK, Children, Payments
    <2> QED  BY <2>1, <2>2, <2>3
  <1>1. ASSUME Complete' PROVE live' # {} /\ live' \subseteq paidEvents'
    <2>1. CASE Complete
      BY <1>c, <2>1 DEF live
    <2>2. CASE \E n \in Requests : finalizeInstallmentPlan(n) /\ allPaid
      BY <1>n, <2>2 DEF live
    <2> QED  BY <1>1, <2>1, <2>2, CompleteFrom
  <1>2. ASSUME Complete', NEW c \in Children, closing'[c] = "last" PROVE OthersReturned(c)'
    <2>1. CASE Complete /\ closing[c] = "last"
      BY <1>c, <1>r, <2>1 DEF PlanOK, OthersReturned
    <2>2. CASE Complete /\ ~stillHeld(c)
      <3>1. \A d \in Children \ {c} : d \in paidEvents => refund[d] = "COMPLETED"
        BY <2>2 DEF stillHeld, ChildrenOK, ChildOK
      <3> QED  BY <1>c, <1>r, <2>2, <3>1 DEF OthersReturned
    <2>3. CASE \E n \in Requests : finalizeInstallmentPlan(n) /\ allPaid
      <3>1. closing[c] # "no"
        BY <1>2, <1>n, <2>3
      <3> QED  BY <2>3, <3>1, NotCompleteWhileClosing
    <2> QED  BY <1>2, <2>1, <2>2, <2>3, CompleteFrom, ClosingFrom
  <1>3. ASSUME provider' = "INSTALLMENTS", pay'[Parent] = "REFUNDED"
        PROVE  \A c \in Children : c \in paidEvents' => refund'[c] = "COMPLETED"
    <2>1. CASE provider = "INSTALLMENTS" /\ pay[Parent] = "REFUNDED"
      BY <1>c, <1>r, <2>1 DEF PlanOK, Complete
    <2>2. ASSUME provider = "INSTALLMENTS",
                 NEW c \in Children, closing[c] = "last", finalizeCommits(c)
          PROVE  \A d \in Children : d \in paidEvents' => refund'[d] = "COMPLETED"
      <3>1. Complete /\ OthersReturned(c)
        BY <2>2 DEF Complete, PlanOK
      <3>2. refund'[c] = "COMPLETED"
        BY <2>2 DEF finalizeCommits, TypeOK
      <3> QED  BY <1>c, <1>r, <3>1, <3>2 DEF OthersReturned
    <2> QED  BY <1>3, <2>1, <2>2, ClosingFrom
  <1> QED  BY <1>1, <1>2, <1>3 DEF PlanOK

LEMMA PlanCorrect == Spec => [](Confirmable \subseteq {Parent} => ChildrenOK /\ PlanOK)
  <1> DEFINE Inv == Confirmable \subseteq {Parent} => ChildrenOK /\ PlanOK
  <1>1. Init => Inv
    <2> SUFFICES ASSUME Init PROVE ChildrenOK /\ PlanOK
      OBVIOUS
    <2>1. /\ \A c \in Children : c \in Payments /\ pay[c] = "NONE" /\ closing[c] = "no"
          /\ \A n \in Requests : request[n] = Idle
          /\ paidEvents = {} /\ provider = "NONE"
      BY DEF Init, Children, Payments
    <2>2. Parent \notin Children
      BY DEF Parent, Children
    <2>3. ChildrenOK
      BY <2>1, <2>2 DEF ChildrenOK, ChildOK, ReportOK, Idle
    <2>4. PlanOK
      BY <2>1 DEF PlanOK, Complete, Completing, Idle, Settling
    <2> QED  BY <2>3, <2>4
  <1>2. TypeOK /\ ReturnOK /\ MoneyOK /\ RefundOK /\ RowsOK /\ Inv /\ [Next]_vars => Inv'
    <2> SUFFICES ASSUME TypeOK, ReturnOK, MoneyOK, RefundOK, RowsOK, ChildrenOK, PlanOK,
                        [Next]_vars, Confirmable \subseteq {Parent}
                 PROVE  ChildrenOK' /\ PlanOK'
      OBVIOUS
    <2>1. PlanOK'
      BY StepPlan, InstallmentsAssumption
    <2>2. CASE UNCHANGED vars
      <3>1. UNCHANGED <<order, pay, sequence, checkout, paidEvents, refund, closing, request>>
        BY <2>2 DEF vars, orderVars, rowVars, refundVars
      <3>2. \A c \in Children : ChildOK(c)'
        BY <3>1 DEF ChildrenOK, ChildOK
      <3>3. \A n \in Requests : ReportOK(request[n])'
        BY <3>1 DEF ChildrenOK, ReportOK
      <3> QED  BY <2>1, <3>2, <3>3 DEF ChildrenOK
    <2>3. CASE \E n \in Requests : RequestStep(n)
      BY <2>1, <2>3, RequestStepChildren, InstallmentsAssumption
    <2>4. CASE \/ CreatePlan \/ ensureInstallmentChildren \/ PlanningDies
               \/ \E c \in Children : ChildStep(c)
               \/ cancelOrderInTransaction \/ RaiseDispute \/ DismissDispute \/ SellOut
      BY <2>1, <2>4, OtherStepChildren, InstallmentsAssumption
    <2> QED  BY <2>1, <2>2, <2>3, <2>4 DEF Next
  <1> QED  BY <1>1, <1>2, InstallmentsTyped, MoneyCorrect, RefundCorrect, RowsCorrect, PTL
              DEF Spec

\* The plan's own refund, which no provider is asked for, is closed only when
\* every installment the buyer paid was returned, for any number of
\* installments, replacements and requests, and however late their reports
\* come (markParentRefundedIfComplete).
THEOREM RefundsAreComplete == Spec => []RefundedPlanReturnedAll
  <1>1. TypeOK /\ (Confirmable \subseteq {Parent} => ChildrenOK /\ PlanOK)
            => RefundedPlanReturnedAll
    <2>1. TypeOK => paidEvents \ {Parent} \subseteq Children
      BY InstallmentsAssumption DEF TypeOK, Payments, Children, Parent, InstallmentsAssumption
    <2> QED  BY <2>1 DEF PlanOK, RefundedPlanReturnedAll
  <1> QED  BY <1>1, InstallmentsTyped, PlanCorrect, PTL

-----------------------------------------------------------------------------
(* What a plan promises *)

\* The plan's own settlement of the parent, which happens once: its event is
\* looked up, and inserted, while no other one is under way.
PlanSettles(r) == r.at \in Settling /\ r.pay = Parent /\ r.by = "INSTALLMENTS"
Seen == <<Parent, "INSTALLMENTS">> \in events

SettlesParent(r) ==
    r.at \in {"begin"} \cup Settling /\ r.pay = Parent
        => r.by \in {"admin", "INSTALLMENTS"} /\ r.rep = "PAID"

ParentOK ==
    /\ \A n \in Requests : SettlesParent(request[n])
    /\ provider = "INSTALLMENTS" => Seen
    /\ \A n \in Requests : PlanSettles(request[n]) => ~Seen
    /\ \A n, m \in Requests : PlanSettles(request[n]) /\ PlanSettles(request[m]) => n = m

\* Nothing but what was paid is returned.
ReturnsPaid == \A c \in Children : refund[c] # "NONE" => c \in paidEvents

\* A request that does not go on to settle leaves the rest as it was.
LEMMA OtherReport ==
    ASSUME TypeOK, ParentOK, NEW n \in Requests, NEW r,
           request' = [request EXCEPT ![n] = r], SettlesParent(r), ~PlanSettles(r),
           Seen' <=> Seen, provider' = provider
    PROVE  ParentOK'
  BY DEF TypeOK, ParentOK, PlanSettles, SettlesParent

LEMMA SettleReadParent ==
    ASSUME TypeOK, ParentOK, NEW n \in Requests, SettleRead(n)
    PROVE  ParentOK'
  <1>1. SettlesParent(Idle) /\ ~PlanSettles(Idle)
    BY DEF SettlesParent, PlanSettles, Idle, Settling
  <1>2. provider' = provider
    BY DEF SettleRead, rowVars
  <1>3. \A m \in Requests \ {n} : PlanSettles(request[m]) => event(n) # <<Parent, "INSTALLMENTS">>
    BY DEF SettleRead, SameEventOpen, PlanSettles, event
  <1>4. CASE leave(n) /\ events' \in {events, Recorded(n)}
    <2>1. \A m \in Requests : request'[m] = IF m = n THEN Idle ELSE request[m]
      BY <1>4 DEF leave, TypeOK
    <2>2. Seen' => Seen \/ event(n) = <<Parent, "INSTALLMENTS">>
      BY <1>4 DEF Seen, Recorded
    <2>3. Seen => Seen'
      BY <1>4 DEF Seen, Recorded
    <2> QED  BY <1>1, <1>2, <1>3, <2>1, <2>2, <2>3 DEF ParentOK, SettlesParent, PlanSettles
  <1>5. ASSUME NEW point \in Settling, moveTo(n, point), event(n) \notin events, UNCHANGED events
        PROVE  ParentOK'
    <2> DEFINE r == [request[n] EXCEPT !.at = point]
    <2>1. /\ r.at = point /\ r.pay = request[n].pay /\ r.by = request[n].by /\ r.rep = request[n].rep
          /\ \A m \in Requests : request'[m] = IF m = n THEN r ELSE request[m]
      BY <1>5 DEF moveTo, TypeOK
    <2>2. SettlesParent(r)
      BY <2>1 DEF SettleRead, at, ParentOK, SettlesParent
    <2>3. PlanSettles(r) => event(n) = <<Parent, "INSTALLMENTS">>
      BY <2>1 DEF PlanSettles, event
    <2>4. Seen' <=> Seen
      BY <1>5 DEF Seen
    <2> HIDE DEF r
    <2>5. PlanSettles(r) => ~Seen
      BY <1>5, <2>3 DEF Seen
    <2> QED
      BY <1>2, <1>3, <2>1, <2>2, <2>3, <2>4, <2>5 DEF ParentOK, SettlesParent, PlanSettles
  <1> QED  BY <1>4, <1>5 DEF SettleRead, Settling

LEMMA RequestStepParent ==
    ASSUME InstallmentsAssumption, TypeOK, ParentOK, NEW n \in Requests, RequestStep(n)
    PROVE  ParentOK'
  <1>f. /\ Parent \notin Children
        /\ SettlesParent(Idle) /\ ~PlanSettles(Idle)
    BY DEF Parent, Children, SettlesParent, PlanSettles, Idle, Settling
  <1> USE DEF rowVars
  <1>1. ASSUME NEW point, NEW p, NEW report, NEW by, start(n, point, p, report, by),
               point \notin Settling,
               point = "begin" => p \in Children \/ (by = "admin" /\ report = "PAID")
        PROVE  ParentOK'
    <2> DEFINE r == [at |-> point, pay |-> p, rep |-> report, by |-> by]
    <2>1. SettlesParent(r) /\ ~PlanSettles(r)
      BY <1>1, <1>f DEF SettlesParent, PlanSettles
    <2> HIDE DEF r
    <2>2. request' = [request EXCEPT ![n] = r]
      BY <1>1 DEF start, r
    <2> QED  BY <1>1, <2>1, <2>2, OtherReport DEF start, Seen
  <1>2. CASE \/ \E c \in Children : ChapaNotice(n, c)
             \/ \E p \in Payments : AdminConfirm(n, p)
             \/ \E c \in Children : AskRetry(n, c)
             \/ Observe(n)
    BY <1>1, <1>2 DEF ChapaNotice, AdminConfirm, AskRetry, Observe, Settling
  <1>3. CASE Replace(n) \/ SettleFailed(n) \/ SettleNoStock(n) \/ RequestDies(n)
    BY <1>3, <1>f, OtherReport
       DEF Replace, SettleFailed, SettleNoStock, RequestDies, leave, Seen
  <1>4. CASE finalizeInstallmentPlan(n)
    <2> DEFINE r == [at |-> "begin", pay |-> Parent, rep |-> "PAID", by |-> "INSTALLMENTS"]
    <2>1. SettlesParent(r) /\ ~PlanSettles(r)
      BY DEF SettlesParent, PlanSettles, Settling
    <2> HIDE DEF r
    <2>2. request' = [request EXCEPT ![n] = r] \/ request' = [request EXCEPT ![n] = Idle]
      BY <1>4 DEF finalizeInstallmentPlan, leave, r
    <2> QED  BY <1>4, <1>f, <2>1, <2>2, OtherReport DEF finalizeInstallmentPlan, Seen
  <1>5. CASE SettleRead(n)
    BY <1>5, SettleReadParent
  <1>6. CASE SettleChild(n)
    <2> DEFINE r == [request[n] EXCEPT !.at = "count"]
    <2>1. r.at = "count"
      BY DEF TypeOK
    <2>2. SettlesParent(r) /\ ~PlanSettles(r)
      BY <2>1 DEF SettlesParent, PlanSettles, Settling
    <2>3. request' = [request EXCEPT ![n] = r]
      BY <1>6 DEF SettleChild, moveTo
    <2>4. Seen' <=> Seen
      BY <1>6 DEF SettleChild, becomesPaid, Recorded, event, Seen
    <2> HIDE DEF r
    <2> QED  BY <1>6, <2>2, <2>3, <2>4, OtherReport DEF SettleChild
  <1>7. CASE SettleParentOnly(n) \/ SettleParent(n)
    <2>1. /\ request[n].at \in Settling /\ request[n].pay = Parent
          /\ provider' = request[n].by /\ events' = Recorded(n)
          /\ \A m \in Requests : request'[m] = IF m = n THEN Idle ELSE request[m]
      BY <1>7 DEF SettleParentOnly, SettleParent, becomesPaid, leave, at, Settling, TypeOK
    <2>2. CASE request[n].by = "INSTALLMENTS"
      <3>1. \A m \in Requests \ {n} : ~PlanSettles(request[m])
        BY <2>1, <2>2 DEF ParentOK, PlanSettles
      <3>2. Seen'
        BY <2>1, <2>2 DEF Seen, Recorded, event
      <3> QED  BY <1>f, <2>1, <3>1, <3>2 DEF ParentOK, SettlesParent, PlanSettles
    <2>3. CASE request[n].by # "INSTALLMENTS"
      <3>1. Seen' <=> Seen
        BY <2>1, <2>3 DEF Seen, Recorded, event
      <3> QED  BY <1>f, <2>1, <2>3, <3>1 DEF ParentOK, SettlesParent, PlanSettles
    <2> QED  BY <2>2, <2>3
  <1> QED  BY <1>2, <1>3, <1>4, <1>5, <1>6, <1>7 DEF RequestStep

\* What all the invariants together say of a state.
PlanInv ==
    /\ TypeOK /\ ReturnOK /\ MoneyOK /\ RefundOK /\ RowsOK
    /\ ChildrenOK /\ PlanOK /\ ParentOK /\ ReturnsPaid

promised == <<received, offline, seller, returning, returned, closed>>

\* Before the cancellation nothing is being returned and the plan is open.
LEMMA OpenPlan ==
    ASSUME PlanInv, order # "CANCELLED"
    PROVE  returning = {} /\ returned = {} /\ ~closed
  <1>1. \A c \in Children : refund[c] = "NONE"
    BY DEF PlanInv, RefundOK
  <1>2. ~closed
    <2> SUFFICES ASSUME closed PROVE FALSE
      OBVIOUS
    <2>1. \E c \in Children : c \in paidEvents
      BY DEF PlanInv, PlanOK, Complete, closed, live
    <2>2. \A c \in Children : c \in paidEvents => refund[c] = "COMPLETED"
      BY DEF PlanInv, PlanOK, closed
    <2> QED  BY <1>1, <2>1, <2>2
  <1> QED  BY <1>1, <1>2 DEF returning, returned

\* The seller's part is held: the price was received.
LEMMA HoldIsPromised ==
    ASSUME InstallmentsAssumption, PlanInv, MoneyOK', payout = "NONE", payout' = "HELD", order # "CANCELLED",
           received' = received, offline => offline', closed' = closed, refund' = refund
    PROVE  Plan!Hold
  <1>1. seller = "NONE" /\ seller' = "HELD"
    BY DEF seller
  <1>2. offline' \/ received \in whole
    <2>1. received \in SUBSET Children
      BY DEF PlanInv, TypeOK, received, Payments, Parent, Children, InstallmentsAssumption
    <2>2. offline' \/ Cardinality(received) >= N
      BY DEF MoneyOK, Received, WholePrice, received, offline
    <2> QED  BY <2>1, <2>2 DEF whole
  <1>3. ~closed /\ offline' \in BOOLEAN
    BY OpenPlan DEF offline
  <1>4. UNCHANGED <<received, returning, returned, closed>>
    BY DEF returning, returned
  <1>5. offline => offline'
    OBVIOUS
  <1> QED  BY <1>1, <1>2, <1>3, <1>4, <1>5, Zenon DEF Plan!Hold

LEMMA RequestStepPlan ==
    ASSUME InstallmentsAssumption, PlanInv, TypeOK', MoneyOK', RefundedPlanReturnedAll',
           Confirmable \subseteq {Parent}, NEW n \in Requests, RequestStep(n)
    PROVE  [Plan!Next]_promised
  <1> USE DEF orderVars, rowVars, refundVars, promised, Plan!Next
  <1>f. /\ Parent \notin Children /\ Parent \in Payments
        /\ Payments \subseteq Children \cup {Parent} /\ Children \subseteq Payments
    BY DEF Parent, Children, Payments, InstallmentsAssumption
  <1>n. /\ pay \in [Payments -> PaymentStatus \cup {"NONE"}]
        /\ request[n].pay \in Payments
    BY DEF PlanInv, TypeOK
  <1>1. ASSUME UNCHANGED <<order, payout, provider, paidEvents, events, refund>>,
               closed' = closed
        PROVE  UNCHANGED promised
    BY <1>1 DEF received, offline, seller, returning, returned
  <1>2. CASE \/ \E c \in Children : ChapaNotice(n, c)
             \/ \E p \in Payments : AdminConfirm(n, p)
             \/ \E c \in Children : AskRetry(n, c)
             \/ Observe(n) \/ finalizeInstallmentPlan(n) \/ RequestDies(n)
    <2>1. UNCHANGED <<order, payout, provider, paidEvents, events, refund, pay>>
      BY <1>2 DEF ChapaNotice, AdminConfirm, AskRetry, Observe, start, finalizeInstallmentPlan,
                  RequestDies
    <2> QED  BY <1>1, <2>1 DEF closed
  <1>3. CASE Replace(n)
    <2>1. UNCHANGED <<order, payout, provider, paidEvents, events, refund>>
      BY <1>3 DEF Replace
    <2>2. pay'[Parent] = pay[Parent]
      BY <1>3, <1>f, <1>n, NewRow DEF Replace
    <2> QED  BY <1>1, <2>1, <2>2 DEF closed
  <1>4. CASE SettleRead(n)
    <2>1. /\ UNCHANGED <<order, payout, pay, provider, paidEvents, refund>>
          /\ events' \in {events, Recorded(n)}
      BY <1>4 DEF SettleRead
    <2>2. UNCHANGED <<received, seller, returning, returned, closed>>
      BY <2>1 DEF received, seller, returning, returned, closed
    <2>3. offline' = offline \/ offline' = TRUE
      BY <2>1 DEF offline, Recorded
    <2>4. closed' \in BOOLEAN
      BY DEF closed
    <2> QED  BY <2>2, <2>3, <2>4 DEF Plan!TakeOffline
  <1>5. CASE SettleFailed(n)
    <2>1. UNCHANGED <<order, payout, provider, paidEvents, events, refund>>
      BY <1>5 DEF SettleFailed
    <2>2. request[n].pay # Parent
      BY <1>5 DEF SettleFailed, at, PlanInv, ParentOK, SettlesParent, Settling
    <2>3. pay'[Parent] = pay[Parent]
      BY <1>5, <1>f, <1>n, <2>2 DEF SettleFailed
    <2> QED  BY <1>1, <2>1, <2>3 DEF closed
  <1>6. CASE SettleChild(n)
    <2> DEFINE c == request[n].pay
    <2>1. /\ c \in Children
          /\ UNCHANGED <<order, payout, provider, refund>>
          /\ paidEvents' = paidEvents \cup {c} /\ events' = Recorded(n)
      BY <1>6, <1>f, <1>n DEF SettleChild, becomesPaid
    <2>2. pay'[Parent] = pay[Parent]
      BY <1>6, <1>f, <1>n DEF SettleChild, becomesPaid
    <2>3. /\ received' = received \cup {c}
          /\ offline' = offline
          /\ UNCHANGED <<seller, returning, returned, closed>>
      BY <1>f, <2>1, <2>2
         DEF received, offline, seller, returning, returned, closed, Recorded, event
    <2>4. CASE c \in received
      BY <2>3, <2>4
    <2>5. CASE c \notin received
      <3>1. refund[c] = "NONE"
        BY <1>f, <2>1, <2>5 DEF received, PlanInv, ReturnsPaid
      <3>2. c \in paidEvents' \ {Parent} /\ refund'[c] # "COMPLETED"
        BY <1>f, <2>1, <3>1
      <3>3. ~closed
        BY <2>3, <3>2 DEF RefundedPlanReturnedAll, closed
      <3> QED  BY <2>1, <2>3, <2>5, <3>3 DEF Plan!Receive
    <2> QED  BY <2>4, <2>5
  <1>7. ASSUME SettleParentOnly(n) \/ SettleParent(n)
        PROVE  /\ request[n].at \in Settling /\ request[n].pay = Parent
               /\ received' = received /\ ~closed'
               /\ \/ request[n].by = "admin" /\ offline' = TRUE
                  \/ request[n].by = "INSTALLMENTS" /\ offline' = offline /\ ~closed
               /\ UNCHANGED refund
    <2>1. /\ request[n].at \in Settling /\ request[n].pay = Parent
          /\ paidEvents' = paidEvents \cup {Parent} /\ events' = Recorded(n)
          /\ pay'[Parent] = "PAID"
          /\ UNCHANGED refund
      BY <1>7, <1>f, <1>n DEF SettleParentOnly, SettleParent, becomesPaid, at, Settling
    <2>2. request[n].by \in {"admin", "INSTALLMENTS"}
      BY <2>1 DEF PlanInv, ParentOK, SettlesParent
    <2>3. received' = received /\ ~closed'
      BY <2>1 DEF received, closed
    <2>4. CASE request[n].by = "admin"
      BY <2>1, <2>3, <2>4 DEF offline, Recorded, event
    <2>5. CASE request[n].by = "INSTALLMENTS"
      <3>1. provider # "INSTALLMENTS"
        BY <2>1, <2>5 DEF PlanInv, ParentOK, PlanSettles
      <3> QED  BY <2>1, <2>3, <2>5, <3>1 DEF offline, Recorded, event, closed
    <2> QED  BY <2>2, <2>4, <2>5
  <1>8. CASE SettleParentOnly(n)
    <2>1. UNCHANGED <<order, payout>>
      BY <1>8 DEF SettleParentOnly
    <2>2. UNCHANGED <<received, seller, returning, returned>> /\ closed' = FALSE
      BY <1>7, <1>8, <2>1 DEF seller, returning, returned, closed
    <2> QED  BY <1>7, <1>8, <2>2 DEF Plan!TakeOffline, closed
  <1>9. CASE SettleParent(n)
    <2>1. /\ order = "PENDING_PAYMENT" /\ order' = "CONFIRMED"
          /\ payout' = IF payout = "NONE" THEN "HELD" ELSE payout
      BY <1>9 DEF SettleParent, awaitsPayment
    <2>2. ~closed
      BY <2>1, OpenPlan
    <2>3. closed' = closed
      BY <1>7, <1>9, <2>2 DEF closed
    <2>4. CASE payout = "NONE"
      <3>0. received' = received /\ refund' = refund
        BY <1>7, <1>9
      <3>a. offline' \/ offline' = offline
        BY <1>7, <1>9
      <3>b. offline => offline'
        BY <3>a, Zenon
      <3>1. payout' = "HELD" /\ order # "CANCELLED"
        BY <2>1, <2>4
      <3>2. Plan!Hold
        BY <2>3, <2>4, <3>0, <3>b, <3>1, HoldIsPromised, Zenon
      <3> QED  BY <3>2
    <2>5. CASE payout # "NONE"
      <3>1. UNCHANGED <<received, seller, returning, returned, closed>>
        BY <1>7, <1>9, <2>1, <2>3, <2>5 DEF seller, returning, returned
      <3> QED  BY <1>7, <1>9, <2>3, <3>1 DEF Plan!TakeOffline, closed
    <2> QED  BY <2>4, <2>5
  <1>10. CASE SettleNoStock(n)
    <2>1. UNCHANGED <<order, payout, provider, paidEvents, events, refund>>
      BY <1>10 DEF SettleNoStock
    <2>2. pay'[Parent] \in {pay[Parent], "RECONCILIATION_REQUIRED"}
      BY <1>10, <1>f, <1>n DEF SettleNoStock
    <2>3. ~closed
      BY <1>10, OpenPlan DEF SettleNoStock, awaitsPayment
    <2> QED  BY <1>1, <2>1, <2>2, <2>3 DEF closed
  <1> QED  BY <1>2, <1>3, <1>4, <1>5, <1>6, <1>8, <1>9, <1>10 DEF RequestStep

LEMMA ChildStepPlan ==
    ASSUME InstallmentsAssumption, PlanInv, RefundedPlanReturnedAll',
           Confirmable \subseteq {Parent}, NEW c \in Children, ChildStep(c)
    PROVE  [Plan!Next]_promised
  <1> USE DEF orderVars, rowVars, refundVars, promised, Plan!Next
  <1>f. /\ Parent \notin Children /\ Parent \in Payments
        /\ Payments \subseteq Children \cup {Parent} /\ Children \subseteq Payments
    BY DEF Parent, Children, Payments, InstallmentsAssumption
  <1>n. /\ pay \in [Payments -> PaymentStatus \cup {"NONE"}]
        /\ refund \in [Children -> RefundStatus]
        /\ paidEvents \subseteq Payments
    BY DEF PlanInv, TypeOK
  <1>1. CASE \/ initializeChapa(c) \/ \E d \in {"PAID", "FAILED"} : ProviderDecides(c, d)
             \/ finalizeRefund(c) \/ finalizeDies(c)
    <2>1. /\ UNCHANGED <<order, payout, provider, paidEvents, events, refund>>
          /\ pay'[Parent] = pay[Parent]
      BY <1>1, <1>f, <1>n DEF initializeChapa, ProviderDecides, finalizeRefund, finalizeDies
    <2> QED  BY <2>1 DEF received, offline, seller, returning, returned, closed
  <1>2. CASE processRefund(c) \/ failRefund(c) \/ retryRefund(c)
    <2>1. /\ UNCHANGED <<order, payout, provider, paidEvents, events>>
          /\ pay'[Parent] = pay[Parent]
      BY <1>2, <1>f, <1>n DEF processRefund, failRefund, retryRefund
    <2>2. /\ refund[c] \in {"REQUESTED", "PROCESSING", "FAILED"}
          /\ refund'[c] \in {"REQUESTED", "PROCESSING", "FAILED"}
          /\ \A d \in Children \ {c} : refund'[d] = refund[d]
      BY <1>2, <1>n DEF processRefund, failRefund, retryRefund
    <2>3. returning' = returning /\ returned' = returned
      BY <2>2 DEF returning, returned
    <2> QED  BY <2>1, <2>3 DEF received, offline, seller, closed
  <1>3. CASE finalizeCommits(c)
    <2>1. /\ refund[c] = "PROCESSING" /\ refund'[c] = "COMPLETED"
          /\ \A d \in Children \ {c} : refund'[d] = refund[d]
          /\ UNCHANGED <<order, payout, provider, paidEvents, events>>
          /\ pay'[Parent] \in {pay[Parent], "REFUNDED"}
      BY <1>3, <1>f, <1>n DEF finalizeCommits, PlanInv, ChildrenOK, ChildOK
    <2>2. /\ c \in returning \ returned
          /\ returned' = returned \cup {c}
          /\ UNCHANGED <<received, offline, seller, returning>>
      BY <2>1 DEF received, offline, seller, returning, returned
    <2>3. closed' \in BOOLEAN /\ (closed => closed')
      BY <2>1 DEF closed
    <2>4. closed' => received \subseteq returned'
      BY <1>f, <1>n, <2>1 DEF closed, RefundedPlanReturnedAll, received, returned
    <2> QED  BY <2>2, <2>3, <2>4, Zenon DEF Plan!Return
  <1> QED  BY <1>1, <1>2, <1>3 DEF ChildStep

LEMMA OtherStepPlan ==
    ASSUME InstallmentsAssumption, PlanInv, MoneyOK',
           \/ CreatePlan \/ ensureInstallmentChildren \/ PlanningDies
           \/ cancelOrderInTransaction \/ RaiseDispute \/ DismissDispute \/ SellOut
    PROVE  [Plan!Next]_promised
  <1> USE DEF orderVars, rowVars, refundVars, promised, Plan!Next
  <1>f. Parent \in Payments /\ Parent \notin 1 .. N
    BY CountOfPlan DEF Parent, Payments, InstallmentsAssumption
  <1>n. /\ pay \in [Payments -> PaymentStatus \cup {"NONE"}]
        /\ refund \in [Children -> RefundStatus]
        /\ paidEvents \subseteq Payments
    BY DEF PlanInv, TypeOK
  <1>1. CASE CreatePlan \/ ensureInstallmentChildren \/ PlanningDies \/ SellOut
    <2>1. /\ UNCHANGED <<order, payout, provider, paidEvents, events, refund>>
          /\ pay'[Parent] = "REFUNDED" <=> pay[Parent] = "REFUNDED"
      BY <1>1, <1>f, <1>n DEF CreatePlan, ensureInstallmentChildren, PlanningDies, SellOut
    <2>2. UNCHANGED <<received, offline, seller, returning, returned>>
      BY <2>1 DEF received, offline, seller, returning, returned
    <2>3. closed' = closed
      BY <2>1 DEF closed
    <2> QED  BY <2>2, <2>3
  <1>2. CASE cancelOrderInTransaction
    <2> DEFINE S == {c \in Children : pay[c] = "PAID"}
    <2>1. /\ order # "CANCELLED" /\ order' = "CANCELLED"
          /\ payout' \in {"NONE", "CANCELLED"}
          /\ UNCHANGED <<provider, paidEvents, events>>
          /\ pay'[Parent] = "REFUNDED" <=> pay[Parent] = "REFUNDED"
          /\ refund' = [c \in Children |-> IF c \in S THEN "REQUESTED" ELSE refund[c]]
      BY <1>2, <1>f, <1>n DEF cancelOrderInTransaction, CancellablePayouts, PlanInv, TypeOK
    <2>2. /\ \A c \in Children : refund[c] = "NONE"
          /\ returning = {} /\ returned = {}
      BY <2>1, OpenPlan DEF PlanInv, RefundOK
    <2>3. returning' = S /\ returned' = {}
      BY <2>1, <2>2 DEF returning, returned
    <2>4. seller # "OVER" /\ seller' = "OVER"
      BY <2>1 DEF seller
    <2>5. S \subseteq received
      BY DEF PlanInv, MoneyOK, received, Children, Payments, Parent, InstallmentsAssumption
    <2>6. UNCHANGED <<received, offline, returned>>
      BY <2>1, <2>2, <2>3 DEF received, offline
    <2>7. closed' = closed
      BY <2>1 DEF closed
    <2>8. S \in SUBSET Children
      OBVIOUS
    <2> HIDE DEF S
    <2>9. Plan!Cancel(S)
      BY <2>2, <2>3, <2>4, <2>5, <2>6, <2>7 DEF Plan!Cancel
    <2> QED  BY <2>8, <2>9
  <1>3. CASE RaiseDispute
    <2>1. order # "CANCELLED"
      BY <1>3 DEF RaiseDispute, DISPUTABLE_STATUSES, ORDER_TRANSITIONS, OrderStatus
    <2>2. UNCHANGED <<received, offline, seller, returning, returned, closed>>
      BY <1>3, <2>1 DEF RaiseDispute, received, offline, seller, returning, returned, closed
    <2> QED  BY <2>2
  <1>4. CASE DismissDispute
    <2>1. /\ order = "DISPUTED" /\ order' # "CANCELLED"
          /\ payout' = IF payout = "ON_HOLD_DISPUTE" \/ (payout = "NONE" /\ pay[Parent] = "PAID")
                       THEN "HELD" ELSE payout
      BY <1>4 DEF DismissDispute, PlanInv, ReturnOK
    <2>2. UNCHANGED <<received, offline, returning, returned, closed>> /\ refund' = refund
      BY <1>4 DEF DismissDispute, received, offline, returning, returned, closed
    <2>3. CASE payout = "NONE" /\ payout' = "HELD"
      <3>1. offline => offline'
        BY <2>2, Zenon
      <3>2. Plan!Hold
        BY <2>1, <2>2, <2>3, <3>1, HoldIsPromised
      <3> QED  BY <3>2
    <2>4. CASE ~(payout = "NONE" /\ payout' = "HELD")
      <3>1. seller' = seller
        BY <2>1, <2>4 DEF seller
      <3> QED  BY <2>2, <3>1
    <2> QED  BY <2>3, <2>4
  <1> QED  BY <1>1, <1>2, <1>3, <1>4

\* Nothing is returned that was not paid, and the plan settles its parent once.
LEMMA ReturnsCorrect == Spec => [](ParentOK /\ ReturnsPaid)
  <1>1. Init => ParentOK /\ ReturnsPaid
    BY DEF Init, ParentOK, ReturnsPaid, SettlesParent, PlanSettles, Seen, Idle, Settling
  <1>2. /\ TypeOK /\ MoneyOK /\ RefundOK /\ ParentOK /\ ReturnsPaid /\ [Next]_vars
        => ParentOK' /\ ReturnsPaid'
    <2> SUFFICES ASSUME TypeOK, MoneyOK, RefundOK, ParentOK, ReturnsPaid, [Next]_vars
                 PROVE  ParentOK' /\ ReturnsPaid'
      OBVIOUS
    <2>1. ParentOK'
      <3>1. CASE \E n \in Requests : RequestStep(n)
        BY <3>1, RequestStepParent, InstallmentsAssumption
      <3>2. CASE UNCHANGED <<request, events, provider>>
        BY <3>2 DEF ParentOK, Seen
      <3>3. (\E n \in Requests : RequestStep(n)) \/ UNCHANGED <<request, events, provider>>
        BY DEF Next, vars, rowVars, refundVars, orderVars, ChildStep, initializeChapa,
               ProviderDecides, processRefund, finalizeRefund, finalizeCommits, finalizeDies,
               failRefund, retryRefund, CreatePlan, ensureInstallmentChildren, PlanningDies,
               cancelOrderInTransaction, RaiseDispute, DismissDispute, SellOut
      <3> QED  BY <3>1, <3>2, <3>3
    <2>2. ASSUME NEW c \in Children, refund'[c] # "NONE"
          PROVE  refund[c] # "NONE" \/ pay[c] = "PAID"
      <3>1. CASE UNCHANGED refund
        BY <2>2, <3>1
      <3>2. ASSUME NEW d \in Children, ChildStep(d) PROVE refund[c] # "NONE"
        BY <2>2, <3>1, <3>2
           DEF ChildStep, initializeChapa, ProviderDecides, processRefund, finalizeRefund,
               finalizeCommits, finalizeDies, failRefund, retryRefund, TypeOK, RefundOK,
               refundVars
      <3>3. CASE cancelOrderInTransaction
        BY <2>2, <3>3 DEF cancelOrderInTransaction, TypeOK
      <3>4. ASSUME NEW n \in Requests, RequestStep(n) PROVE UNCHANGED refund
        BY <3>4 DEF RequestStep, ChapaNotice, AdminConfirm, AskRetry, Observe, start, Replace,
                    finalizeInstallmentPlan, SettleRead, SettleFailed, SettleChild, becomesPaid,
                    SettleParentOnly, SettleParent, SettleNoStock, RequestDies, refundVars
      <3>5. CASE \/ CreatePlan \/ ensureInstallmentChildren \/ PlanningDies
                 \/ RaiseDispute \/ DismissDispute \/ SellOut \/ UNCHANGED vars
        BY <3>1, <3>5 DEF CreatePlan, ensureInstallmentChildren, PlanningDies,
                          RaiseDispute, DismissDispute, SellOut, vars, refundVars
      <3> QED  BY <3>1, <3>2, <3>3, <3>4, <3>5 DEF Next
    <2>3. \A c \in Children : pay[c] = "PAID" => c \in paidEvents
      BY DEF MoneyOK, Children, Payments
    <2>4. paidEvents \subseteq paidEvents'
      BY EventsStay
    <2>5. ReturnsPaid'
      BY <2>2, <2>3, <2>4 DEF ReturnsPaid
    <2> QED  BY <2>1, <2>5
  <1> QED  BY <1>1, <1>2, InstallmentsTyped, MoneyCorrect, RefundCorrect, PTL DEF Spec

\* Every step of a payment in installments is one of the abstract plan, for any
\* price, limit, number of rows and of requests: the part of the seller is held for the
\* whole price and never after the cancellation, and what is returned is returned once.
\* An admin's confirmation of a child is excluded, as for RefundedPlanReturnedAll.
THEOREM InstallmentsImplementPlan ==
    ASSUME Confirmable \subseteq {Parent}
    PROVE  Spec => PlanSpec
  <1>1. Init => Plan!Init
    BY DEF Init, Plan!Init, received, offline, seller, returning, returned, closed
  <1>2. /\ TypeOK /\ ReturnOK /\ MoneyOK /\ RefundOK /\ RowsOK
        /\ (Confirmable \subseteq {Parent} => ChildrenOK /\ PlanOK)
        /\ ParentOK /\ ReturnsPaid
        /\ TypeOK' /\ MoneyOK' /\ RefundedPlanReturnedAll' /\ [Next]_vars
        => [Plan!Next]_promised
    <2> SUFFICES ASSUME PlanInv, TypeOK', MoneyOK', RefundedPlanReturnedAll', [Next]_vars
                 PROVE  [Plan!Next]_promised
      BY DEF PlanInv
    <2>1. CASE \E n \in Requests : RequestStep(n)
      BY <2>1, RequestStepPlan, InstallmentsAssumption
    <2>2. CASE \E c \in Children : ChildStep(c)
      BY <2>2, ChildStepPlan, InstallmentsAssumption
    <2>3. CASE \/ CreatePlan \/ ensureInstallmentChildren \/ PlanningDies
               \/ cancelOrderInTransaction \/ RaiseDispute \/ DismissDispute \/ SellOut
      BY <2>3, OtherStepPlan, InstallmentsAssumption
    <2>4. CASE UNCHANGED vars
      BY <2>4 DEF vars, orderVars, rowVars, refundVars, promised, received, offline, seller,
                  returning, returned, closed
    <2> QED  BY <2>1, <2>2, <2>3, <2>4 DEF Next
  <1> QED  BY <1>1, <1>2, InstallmentsTyped, MoneyCorrect, RefundCorrect, RowsCorrect,
              PlanCorrect, ReturnsCorrect, RefundsAreComplete, PTL
           DEF Spec, PlanSpec, Plan!Spec, Plan!plan, promised
=============================================================================
