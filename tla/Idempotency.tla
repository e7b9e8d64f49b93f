----------------------------- MODULE Idempotency -----------------------------
(***************************************************************************)
(* middleware/idempotency.js: requests with one Idempotency-Key, user,     *)
(* scope and body, and the one record the unique index allows them.        *)
(*                                                                         *)
(* A request creates the record, or finds it and is answered from it, or   *)
(* takes over one whose life has ended.  The middleware stores the answer  *)
(* by the record's id after the handler has answered, and deletes the      *)
(* record when the handler failed.  Between any two of these steps the     *)
(* server may stop.                                                        *)
(***************************************************************************)
EXTENDS Integers, FiniteSets

CONSTANT
  Attempts     \* requests of the client, each sent once

ASSUME IdempotencyAssumption == IsFiniteSet(Attempts)

VARIABLES
  record,      \* the row of IdempotencyRequest
  attempt,     \* where each request stands, and the id it works under
  effects,     \* history: handlers that committed
  unstored,    \* history: of these, the ones whose answer was never stored
  overrun      \* history: has a handler outlived its record's ttl?

idemVars == <<record, attempt, effects, unstored, overrun>>

NoRecord == [id |-> 0, status |-> "NONE", lapsed |-> FALSE]

Stages == {"sent", "found", "running", "answered", "refused", "replayed", "finished"}

IdemInit ==
  /\ record = NoRecord
  /\ attempt = [a \in Attempts |-> [stage |-> "sent", id |-> 0, ok |-> FALSE]]
  /\ effects = 0
  /\ unstored = 0
  /\ overrun = FALSE

At(a, stage) == attempt[a].stage = stage
Goes(a, stage) == attempt' = [attempt EXCEPT ![a].stage = stage]

Working == {a \in Attempts : attempt[a].stage \in {"running", "answered"}}

\* Ids are never used again: a new one is above those any request holds.
FreshId(i) == i # 0 /\ \A a \in Attempts : attempt[a].id # i

-----------------------------------------------------------------------------

CreateRecord(a) ==
  /\ At(a, "sent")
  /\ record.status = "NONE"
  /\ \E i \in 1..Cardinality(Attempts) :
       /\ FreshId(i)
       /\ record' = [id |-> i, status |-> "PROCESSING", lapsed |-> FALSE]
       /\ attempt' = [attempt EXCEPT ![a] = [stage |-> "running", id |-> i, ok |-> FALSE]]
  /\ UNCHANGED <<effects, unstored, overrun>>

Replay(a) ==
  /\ At(a, "sent")
  /\ record.status = "COMPLETED"
  /\ Goes(a, "replayed")
  /\ UNCHANGED <<record, effects, unstored, overrun>>

\* 409 "already being processed".
Refuse(a) ==
  /\ At(a, "sent")
  /\ record.status = "PROCESSING" /\ ~record.lapsed
  /\ Goes(a, "refused")
  /\ UNCHANGED <<record, effects, unstored, overrun>>

FindLapsed(a) ==
  /\ At(a, "sent")
  /\ record.status = "PROCESSING" /\ record.lapsed
  /\ attempt' = [attempt EXCEPT ![a].stage = "found", ![a].id = record.id]
  /\ UNCHANGED <<record, effects, unstored, overrun>>

\* A takeover that does not ask again whether the life is over.
TakesOverById(a) == record.id = attempt[a].id /\ record.status = "PROCESSING"

\* updateMany where the record is still PROCESSING and its life is over.
TakesOver(a) ==
  record.id = attempt[a].id /\ record.status = "PROCESSING" /\ record.lapsed

TakeOver(a) ==
  /\ At(a, "found")
  /\ TakesOver(a)
  /\ record' = [record EXCEPT !.lapsed = FALSE]
  /\ Goes(a, "running")
  /\ UNCHANGED <<effects, unstored, overrun>>

TakeOverRefused(a) ==
  /\ At(a, "found")
  /\ ~TakesOver(a)
  /\ Goes(a, "refused")
  /\ UNCHANGED <<record, effects, unstored, overrun>>

\* The handler behind the middleware commits or fails, and answers.  One that
\* answers with an error has committed nothing.
Answer(a) ==
  /\ At(a, "running")
  /\ \E ok \in BOOLEAN :
       /\ attempt' = [attempt EXCEPT ![a].stage = "answered", ![a].ok = ok]
       /\ effects' = IF ok THEN effects + 1 ELSE effects
  /\ UNCHANGED <<record, unstored, overrun>>

\* persist: an update by id, which throws and is logged when the row is gone.
Store(a) ==
  LET there == record.id = attempt[a].id /\ record.status # "NONE"
  IN  /\ At(a, "answered")
      /\ attempt[a].ok
      /\ record' = IF there THEN [record EXCEPT !.status = "COMPLETED"] ELSE record
      /\ unstored' = IF there THEN unstored ELSE unstored + 1
      /\ Goes(a, "finished")
      /\ UNCHANGED <<effects, overrun>>

Discard(a) ==
  /\ At(a, "answered")
  /\ ~attempt[a].ok
  /\ record' = IF record.id = attempt[a].id THEN NoRecord ELSE record
  /\ Goes(a, "finished")
  /\ UNCHANGED <<effects, unstored, overrun>>

\* The server stops, or the database refuses to store the answer.
Stop(a) ==
  /\ a \in Working
  /\ unstored' = IF At(a, "answered") /\ attempt[a].ok THEN unstored + 1 ELSE unstored
  /\ Goes(a, "finished")
  /\ UNCHANGED <<record, effects, overrun>>

RecordLapses ==
  /\ record.status = "PROCESSING" /\ ~record.lapsed
  /\ record' = [record EXCEPT !.lapsed = TRUE]
  /\ overrun' = (overrun \/ Working # {})
  /\ UNCHANGED <<attempt, effects, unstored>>

IdemNext ==
  \/ \E a \in Attempts :
       \/ CreateRecord(a) \/ Replay(a) \/ Refuse(a)
       \/ FindLapsed(a) \/ TakeOver(a) \/ TakeOverRefused(a)
       \/ Answer(a) \/ Store(a) \/ Discard(a) \/ Stop(a)
  \/ RecordLapses

IdemSpec == IdemInit /\ [][IdemNext]_idemVars

-----------------------------------------------------------------------------

\* The record and the requests have the values of the schema.
IdemTypeOK ==
  /\ record \in [id : 0..Cardinality(Attempts),
                 status : {"NONE", "PROCESSING", "COMPLETED"}, lapsed : BOOLEAN]
  /\ attempt \in [Attempts -> [stage : Stages, id : 0..Cardinality(Attempts), ok : BOOLEAN]]
  /\ effects \in Nat /\ unstored \in Nat /\ overrun \in BOOLEAN

\* As long as no handler outlives its record, one request at a time runs the
\* handler under a key and none does once an answer is stored; the handler
\* commits a second time only if the answer of the first was lost with a
\* server or a connection (idempotencyMiddleware: P2002, takeover, persist).
OneRunAtATime ==
  ~overrun =>
    /\ \A a, b \in Working : a = b
    /\ record.status = "COMPLETED" => Working = {}
    /\ effects <= 1 + unstored

\* Handlers that have committed, and their answers are not stored yet.
Acted == {a \in Attempts : At(a, "answered") /\ attempt[a].ok}

SingleEffect == INSTANCE SingleEffect WITH
  Requests <- Attempts,
  working  <- Working,
  acted    <- Acted,
  answered <- record.status = "COMPLETED",
  lost     <- unstored,
  void     <- overrun

\* Every step is one of the abstract promise: as long as no handler outlives its
\* record, one repetition at a time runs the handler, none does once an answer is
\* stored, and an effect is stored with its answer or the answer is lost, whatever
\* is taken over, deleted or cut off by a stop (idempotencyMiddleware: P2002,
\* takeover, persist).
SingleEffectSpec == SingleEffect!Spec
=============================================================================
