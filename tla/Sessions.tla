------------------------------ MODULE Sessions ------------------------------
(***************************************************************************)
(* The sign-in sessions of one account: services/refreshSessionService.js  *)
(* and its callers in routes/auth.js.  A login starts a family with one    *)
(* session; a refresh replaces the session of the token it is given by a   *)
(* new one; a logout, a password reset or a used token revokes.            *)
(*                                                                         *)
(* A refresh reads the session, claims it (which locks its row until the   *)
(* transaction ends) and creates the next one.  A revocation updates the   *)
(* rows that its statement sees when it starts, each when it is unlocked.  *)
(***************************************************************************)
EXTENDS Integers, FiniteSets

CONSTANTS
  Rows,          \* ids of rows of RefreshSession
  Families,      \* familyIds
  Refreshes      \* requests that can be at work at one time

VARIABLES
  session,       \* the rows; an unused id has an empty family
  refresh        \* what each request has read, claimed or seen

sessionVars == <<session, refresh>>

NoSession == [family |-> {}, rotated |-> FALSE, revoked |-> FALSE]
NoRefresh == [op |-> "idle", sessions |-> {}, family |-> {}]

SessionsInit ==
  /\ session = [s \in Rows |-> NoSession]
  /\ refresh = [q \in Refreshes |-> NoRefresh]

Unused == {s \in Rows : session[s].family = {}}
RowsOf(f) == {s \in Rows : session[s].family = {f}}

\* rotateRefreshSession takes a session that is neither used up nor over.
Usable(s) == ~session[s].rotated /\ ~session[s].revoked

\* The row is locked by a refresh that has claimed it.
Locked(s) == \E q \in Refreshes : refresh[q].op = "claimed" /\ s \in refresh[q].sessions

\* Of the requests that wait for a lock, none has done anything yet.
Revoked(rows, which) ==
  [s \in Rows |-> IF s \in which /\ ~rows[s].revoked THEN [rows[s] EXCEPT !.revoked = TRUE]
                                                     ELSE rows[s]]

-----------------------------------------------------------------------------

\* issueSession at the end of a login: a family of its own.
Login(s, f) ==
  /\ s \in Unused
  /\ RowsOf(f) = {}
  /\ session' = [session EXCEPT ![s] = [NoSession EXCEPT !.family = {f}]]
  /\ UNCHANGED refresh

\* POST /refresh: the first read of the session in the transaction.  One that is
\* older than its ttl is as one that was used: when that is, is left open.
ReadSession(q, s) ==
  /\ refresh[q] = NoRefresh
  /\ session[s].family # {}
  /\ \E op \in {"rotate", "reused"} :
       /\ op = "rotate" => Usable(s)
       /\ refresh' = [refresh EXCEPT
            ![q] = [op |-> op, sessions |-> {s}, family |-> session[s].family]]
  /\ UNCHANGED session

\* An update by id, whatever the row is by then.
ClaimById(q, s) ==
  /\ refresh[q].op = "rotate" /\ s \in refresh[q].sessions
  /\ ~Locked(s)
  /\ refresh' = [refresh EXCEPT ![q].op = "claimed"]
  /\ UNCHANGED session

\* updateMany where revokedAt and rotatedAt are null, and it found the row.
ClaimSession(q, s) ==
  /\ refresh[q].op = "rotate" /\ s \in refresh[q].sessions
  /\ ~Locked(s)
  /\ Usable(s)
  /\ refresh' = [refresh EXCEPT ![q].op = "claimed"]
  /\ UNCHANGED session

\* The same update, and another request was first.
ClaimFails(q, s) ==
  /\ refresh[q].op = "rotate" /\ s \in refresh[q].sessions
  /\ ~Locked(s)
  /\ ~Usable(s)
  /\ refresh' = [refresh EXCEPT ![q].op = "reused"]
  /\ UNCHANGED session

\* The next session is created and the transaction commits both.
CommitRotation(q, s, next) ==
  /\ refresh[q].op = "claimed" /\ s \in refresh[q].sessions
  /\ next \in Unused
  /\ session' = [session EXCEPT ![s].rotated = TRUE,
                                ![next] = [NoSession EXCEPT !.family = refresh[q].family]]
  /\ refresh' = [refresh EXCEPT ![q] = NoRefresh]

\* The transaction of a refresh is rolled back.
AbandonRefresh(q) ==
  /\ refresh[q].op \in {"rotate", "claimed"}
  /\ refresh' = [refresh EXCEPT ![q] = NoRefresh]
  /\ UNCHANGED session

-----------------------------------------------------------------------------

\* A revocation sees the rows that are committed when its statement starts:
\* those of a family (revokeFamily, or a token used again) or of the account
\* (revokeAllSessions).
StartRevocation(q) ==
  /\ \/ /\ refresh[q].op = "reused"
        /\ refresh' = [refresh EXCEPT ![q].op = "revoke",
             ![q].sessions = {s \in Rows : session[s].family = refresh[q].family}]
     \/ /\ refresh[q] = NoRefresh
        /\ \E fs \in {{f} : f \in Families} \cup {Families} :
             refresh' = [refresh EXCEPT
               ![q] = [op |-> "revoke", sessions |-> UNION {RowsOf(f) : f \in fs}, family |-> {}]]
  /\ UNCHANGED session

Revoke(q) ==
  /\ refresh[q].op = "revoke"
  /\ \A s \in refresh[q].sessions : ~Locked(s)
  /\ session' = Revoked(session, refresh[q].sessions)
  /\ refresh' = [refresh EXCEPT ![q] = NoRefresh]

SessionsNext ==
  \/ \E s \in Rows, f \in Families : Login(s, f)
  \/ \E q \in Refreshes :
       \/ \E s \in Rows : \/ ReadSession(q, s) \/ ClaimSession(q, s) \/ ClaimFails(q, s)
                          \/ \E next \in Rows : CommitRotation(q, s, next)
       \/ AbandonRefresh(q) \/ StartRevocation(q) \/ Revoke(q)

SessionsSpec == SessionsInit /\ [][SessionsNext]_sessionVars

-----------------------------------------------------------------------------

FamilyOrNone == {{}} \cup {{f} : f \in Families}

\* The rows and the requests have the values of the schema.
SessionsTypeOK ==
  /\ session \in [Rows -> [family : FamilyOrNone, rotated : BOOLEAN, revoked : BOOLEAN]]
  /\ refresh \in [Refreshes ->
                   [op : {"idle", "rotate", "claimed", "reused", "revoke"},
                    sessions : SUBSET Rows, family : FamilyOrNone]]

\* A family of sessions is a chain: however many tabs refresh at the same time
\* and whatever is revoked meanwhile, one session of it can be used at most
\* (rotateRefreshSession: "one-time rotation", routes/auth.js:275).
FamilyIsAChain ==
  \A f \in Families : \A s, t \in RowsOf(f) : Usable(s) /\ Usable(t) => s = t

\* The sessions of a family that can be used.
UsableOf(f) == {s \in RowsOf(f) : Usable(s)}

Chain == INSTANCE Chain WITH
  Links  <- Rows,
  Chains <- Families,
  links  <- [f \in Families |-> RowsOf(f)],
  last   <- [f \in Families |-> UsableOf(f)]

\* Every step is one of the abstract chain: a refresh uses up the only session of
\* its family that can be used and leaves one in its place, a session used up or
\* revoked is never usable again, and no family is begun twice, whatever is
\* refreshed and revoked at the same time (rotateRefreshSession, revokeFamily,
\* revokeAllSessions).
ChainSpec == Chain!Spec
=============================================================================
