------------------------------- MODULE Outbox -------------------------------
(***************************************************************************)
(* The maintenance cycle of services/maintenanceService.js and, as the job *)
(* in it whose repetition is felt outside, the sending of queued SMS.      *)
(*                                                                         *)
(* Every server starts a cycle on a timer; the advisory lock belongs to a  *)
(* transaction around the cycle and keeps cycles apart.  The jobs use      *)
(* connections of their own: when that transaction times out, or rolls     *)
(* back because another job of the cycle threw, the lock is free and this  *)
(* job goes on.                                                            *)
(***************************************************************************)
EXTENDS Integers

CONSTANTS
  Cycles,        \* cycles that can be at work at one time
  Messages,      \* rows of SmsOutboxEntry
  NoCycle,       \* the lock is free
  MaxStops,      \* bound on the stops of a server in the middle of a cycle
  MaxOverlaps    \* bound on the locks lost before the job's end

ASSUME OutboxAssumption ==
  /\ NoCycle \notin Cycles
  /\ MaxStops \in Nat /\ MaxOverlaps \in Nat

VARIABLES
  outbox,      \* the rows: status and attempts
  jobLock,     \* the cycle whose transaction holds the advisory lock
  batch,       \* per cycle: the entries left to send, the attempts read with
               \* them, and the outcome of the call to the gateway it is in
  delivered,   \* history: texts that reached the phone
  unmarked,    \* history: of these, the ones that were not marked SENT
  refused,     \* history: calls that the gateway or the marking failed
  stops,       \* history: servers stopped
  overlaps     \* history: locks lost early

outboxVars ==
  <<outbox, jobLock, batch, delivered, unmarked, refused, stops, overlaps>>

MaxSmsAttempts == 3     \* SMS_MAX_ATTEMPTS

Pending(m) == outbox[m].status = "PENDING"

NoBatch == [left |-> {}, seen |-> [m \in Messages |-> 0], sending |-> {}]

OutboxInit ==
  /\ outbox = [m \in Messages |-> [status |-> "PENDING", attempts |-> 0]]
  /\ jobLock = NoCycle
  /\ batch = [k \in Cycles |-> NoBatch]
  /\ delivered = [m \in Messages |-> 0]
  /\ unmarked  = [m \in Messages |-> 0]
  /\ refused   = [m \in Messages |-> 0]
  /\ stops = 0
  /\ overlaps = 0

Busy(k) == batch[k] # NoBatch

\* A cycle that starts whoever holds the lock.
StartUnlocked(k) ==
  /\ ~Busy(k)
  /\ \E m \in Messages : Pending(m)
  /\ batch' = [batch EXCEPT ![k] = [left |-> {m \in Messages : Pending(m)},
                                   seen |-> [m \in Messages |-> outbox[m].attempts],
                                   sending |-> {}]]
  /\ jobLock' = k
  /\ UNCHANGED <<outbox, delivered, unmarked, refused, stops, overlaps>>

\* runMaintenanceCycle: the lock, and the entries as they are at that moment.
StartCycle(k) ==
  /\ ~Busy(k)
  /\ jobLock = NoCycle
  /\ \E m \in Messages : Pending(m)
  /\ jobLock' = k
  /\ batch' = [batch EXCEPT
                ![k] = [left |-> {m \in Messages : Pending(m)},
                        seen |-> [m \in Messages |-> outbox[m].attempts],
                        sending |-> {}]]
  /\ UNCHANGED <<outbox, delivered, unmarked, refused, stops, overlaps>>

\* The gateway takes the text or not, and says so or not.
SendSms(k, m) ==
  /\ m \in batch[k].left
  /\ batch[k].sending = {}
  /\ \E reached, failed \in BOOLEAN :
       /\ reached \/ failed
       /\ batch' = [batch EXCEPT ![k].sending = {[text |-> m, failed |-> failed]},
                                 ![k].left = @ \ {m}]
       /\ delivered' = IF reached THEN [delivered EXCEPT ![m] = @ + 1] ELSE delivered
       /\ unmarked' = IF reached /\ failed THEN [unmarked EXCEPT ![m] = @ + 1] ELSE unmarked
       /\ refused' = IF failed THEN [refused EXCEPT ![m] = @ + 1] ELSE refused
  /\ UNCHANGED <<outbox, jobLock, stops, overlaps>>

\* The batch without the call that was answered; its end ends the cycle.
Rest(k) ==
  IF batch[k].left = {} THEN NoBatch ELSE [batch[k] EXCEPT !.sending = {}]

Unlocked(k) == IF batch[k].left = {} /\ jobLock = k THEN NoCycle ELSE jobLock

MarkSent(k, m) ==
  /\ [text |-> m, failed |-> FALSE] \in batch[k].sending
  /\ outbox' = [outbox EXCEPT ![m].status = "SENT"]
  /\ batch' = [batch EXCEPT ![k] = Rest(k)]
  /\ jobLock' = Unlocked(k)
  /\ UNCHANGED <<delivered, unmarked, refused, stops, overlaps>>

\* A text that is tried for ever.
MarkFailedOnly(k, m) ==
  /\ [text |-> m, failed |-> TRUE] \in batch[k].sending
  /\ outbox' = [outbox EXCEPT ![m].attempts = batch[k].seen[m] + 1]
  /\ batch' = [batch EXCEPT ![k] = Rest(k)]
  /\ jobLock' = Unlocked(k)
  /\ UNCHANGED <<delivered, unmarked, refused, stops, overlaps>>

\* The attempts are the ones that were read, and one more.
MarkFailed(k, m) ==
  LET tries == batch[k].seen[m] + 1
  IN  /\ [text |-> m, failed |-> TRUE] \in batch[k].sending
      /\ outbox' = [outbox EXCEPT
                     ![m].attempts = tries,
                     ![m].status = IF tries >= MaxSmsAttempts THEN "FAILED" ELSE @]
      /\ batch' = [batch EXCEPT ![k] = Rest(k)]
      /\ jobLock' = Unlocked(k)
      /\ UNCHANGED <<delivered, unmarked, refused, stops, overlaps>>

\* The transaction of the lock ends before the job does.
LoseLock(k) ==
  /\ jobLock = k
  /\ overlaps < MaxOverlaps
  /\ jobLock' = NoCycle
  /\ overlaps' = overlaps + 1
  /\ UNCHANGED <<outbox, batch, delivered, unmarked, refused, stops>>

\* A lock that outlives the connection of its server.
StopStranded(k) ==
  /\ Busy(k)
  /\ stops < MaxStops
  /\ stops' = stops + 1
  /\ batch' = [batch EXCEPT ![k] = NoBatch]
  /\ UNCHANGED <<outbox, jobLock, delivered, unmarked, refused, overlaps>>

\* The server stops: its transactions end, what it was about to mark is lost.
StopCycle(k) ==
  /\ Busy(k)
  /\ stops < MaxStops
  /\ stops' = stops + 1
  /\ batch' = [batch EXCEPT ![k] = NoBatch]
  /\ jobLock' = IF jobLock = k THEN NoCycle ELSE jobLock
  /\ unmarked' = [m \in Messages |->
                   IF [text |-> m, failed |-> FALSE] \in batch[k].sending
                   THEN unmarked[m] + 1 ELSE unmarked[m]]
  /\ UNCHANGED <<outbox, delivered, refused, overlaps>>

CycleStep(k) ==
  \/ StartCycle(k)
  \/ \E m \in Messages : SendSms(k, m) \/ MarkSent(k, m) \/ MarkFailed(k, m)

OutboxNext == \E k \in Cycles : CycleStep(k) \/ LoseLock(k) \/ StopCycle(k)

OutboxSpec == OutboxInit /\ [][OutboxNext]_outboxVars

-----------------------------------------------------------------------------

\* The rows, the copies of them and the counters have their types.
OutboxTypeOK ==
  /\ outbox \in [Messages -> [status : {"PENDING", "SENT", "FAILED"},
                              attempts : 0..MaxSmsAttempts]]
  /\ jobLock \in Cycles \cup {NoCycle}
  /\ batch \in [Cycles ->
       [left : SUBSET Messages, seen : [Messages -> 0..MaxSmsAttempts],
        sending : SUBSET [text : Messages, failed : BOOLEAN]]]
  /\ {delivered, unmarked, refused} \subseteq [Messages -> Nat]
  /\ stops \in 0..MaxStops /\ overlaps \in 0..MaxOverlaps

\* sendPendingSms: a text marked SENT has reached the phone, one given up was
\* refused SMS_MAX_ATTEMPTS times; and as long as the lock of withJobLock keeps
\* cycles apart, a text reaches the phone again only after a delivery that
\* could not be recorded.
TextsAreAccountedFor ==
  \A m \in Messages :
    /\ outbox[m].status = "SENT" => delivered[m] > 0
    /\ outbox[m].status = "FAILED" => refused[m] >= MaxSmsAttempts
    /\ overlaps = 0 => delivered[m] <= 1 + unmarked[m]

\* The calls to the gateway whose outcome is not marked yet.
Sending == UNION {batch[k].sending : k \in Cycles}

Delivery == INSTANCE Delivery WITH
  Texts      <- Messages,
  Limit      <- MaxSmsAttempts,
  status     <- [m \in Messages |-> outbox[m].status],
  tries      <- [m \in Messages |-> outbox[m].attempts],
  trying     <- Sending,
  unrecorded <- unmarked,
  void       <- overlaps # 0

\* Every step is one of the abstract delivery: as long as the lock keeps cycles
\* apart, a text is tried only while it waits, a failure counts once, the last of
\* SMS_MAX_ATTEMPTS gives it up, and one marked SENT or FAILED is never sent or
\* marked again, whichever server stops in the middle of a call (sendPendingSms,
\* withJobLock).
DeliverySpec == Delivery!Spec
=============================================================================
