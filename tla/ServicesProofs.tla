---------------------------- MODULE ServicesProofs ----------------------------
(***************************************************************************)
(* Proofs about Services, for any number of requests, rows, texts, cycles  *)
(* and payments.  What StandingPriceProofs shows of Standing and           *)
(* PriceReview is used here; Sessions, Idempotency, Outbox, Digital, Ads   *)
(* and Books follow one after the other, and the last section puts all     *)
(* together.                                                               *)
(***************************************************************************)
EXTENDS Services, StandingPriceProofs, FiniteSetTheorems

-----------------------------------------------------------------------------
\* Sessions.

SessionRows == [family : FamilyOrNone, rotated : BOOLEAN, revoked : BOOLEAN]

RefreshRecords ==
  [op : {"idle", "rotate", "claimed", "reused", "revoke"},
   sessions : SUBSET Rows, family : FamilyOrNone]

\* A refresh is about one session, which exists, in the family it remembers.
AboutOK ==
  \A q \in Refreshes :
    refresh[q].op \in {"rotate", "claimed", "reused"} =>
      \A s \in refresh[q].sessions :
        /\ session[s].family = refresh[q].family /\ session[s].family # {}
        /\ refresh[q].sessions = {s}

\* A session that is claimed is locked by one refresh, and can still be used.
ClaimOK ==
  \A q \in Refreshes :
    refresh[q].op = "claimed" =>
      \A s \in refresh[q].sessions :
        /\ Usable(s)
        /\ \A r \in Refreshes : refresh[r].op = "claimed" /\ s \in refresh[r].sessions => r = q

ChainInv == SessionsTypeOK /\ AboutOK /\ ClaimOK /\ FamilyIsAChain

-----------------------------------------------------------------------------

\* Nobody is signed in at first.
LEMMA ChainAtFirst == SessionsInit => ChainInv
<1> SUFFICES ASSUME SessionsInit PROVE ChainInv
  OBVIOUS
<1>1. NoSession \in SessionRows /\ NoSession.family = {}
  BY DEF NoSession, SessionRows, FamilyOrNone
<1>2. NoRefresh \in RefreshRecords /\ NoRefresh.op = "idle"
  BY DEF NoRefresh, RefreshRecords, FamilyOrNone
<1>3. SessionsTypeOK
  BY <1>1, <1>2 DEF SessionsInit, SessionsTypeOK, SessionRows, RefreshRecords
<1>4. AboutOK /\ ClaimOK
  BY <1>2 DEF SessionsInit, AboutOK, ClaimOK
<1>5. FamilyIsAChain
  BY <1>1 DEF SessionsInit, FamilyIsAChain, RowsOf
<1> QED BY <1>3, <1>4, <1>5 DEF ChainInv

\* A request that reads or claims, ends or starts to revoke leaves the sessions.
LEMMA RequestMoves ==
  ASSUME ChainInv, NEW q \in Refreshes, NEW to \in RefreshRecords,
         session' = session, refresh' = [refresh EXCEPT ![q] = to],
         to.op \in {"rotate", "claimed", "reused"} =>
           \A s \in to.sessions :
             session[s].family = to.family /\ session[s].family # {} /\ to.sessions = {s},
         to.op = "claimed" => \A s \in to.sessions : Usable(s) /\ ~Locked(s)
  PROVE  ChainInv'
<1>1. /\ refresh \in [Refreshes -> RefreshRecords]
      /\ refresh' \in [Refreshes -> RefreshRecords]
      /\ refresh'[q] = to
      /\ \A r \in Refreshes : r # q => refresh'[r] = refresh[r]
  BY DEF ChainInv, SessionsTypeOK, RefreshRecords
<1>2. SessionsTypeOK'
  BY <1>1 DEF ChainInv, SessionsTypeOK, RefreshRecords, FamilyOrNone
<1>3. AboutOK'
  BY <1>1 DEF ChainInv, AboutOK
<1>4. ClaimOK'
  BY <1>1 DEF ChainInv, ClaimOK, Usable, Locked
<1>5. FamilyIsAChain'
  BY DEF ChainInv, FamilyIsAChain, RowsOf, Usable
<1> QED BY <1>2, <1>3, <1>4, <1>5 DEF ChainInv

\* A login starts a chain of one.
LEMMA LoginKeeps ==
  ASSUME ChainInv, NEW s \in Rows, NEW f \in Families, Login(s, f)
  PROVE  ChainInv'
<1> DEFINE row == [NoSession EXCEPT !.family = {f}]
<1>1. row \in SessionRows /\ row.family = {f}
  BY DEF NoSession, SessionRows, FamilyOrNone
<1>2. /\ session[s].family = {} /\ RowsOf(f) = {}
      /\ session' = [session EXCEPT ![s] = row] /\ refresh' = refresh
  BY DEF Login, Unused
<1> HIDE DEF row
<1>3. /\ session' \in [Rows -> SessionRows] /\ session'[s] = row
      /\ \A t \in Rows : t # s => session'[t] = session[t]
  BY <1>1, <1>2 DEF ChainInv, SessionsTypeOK, SessionRows
<1>4. SessionsTypeOK'
  BY <1>2, <1>3 DEF ChainInv, SessionsTypeOK, SessionRows, FamilyOrNone
<1>5. \A q \in Refreshes :
        refresh[q].op \in {"rotate", "claimed", "reused"} =>
          refresh[q].sessions \subseteq Rows /\ s \notin refresh[q].sessions
  BY <1>2 DEF ChainInv, AboutOK, SessionsTypeOK
<1>6. AboutOK'
  BY <1>2, <1>3, <1>5 DEF ChainInv, AboutOK
<1>7. ClaimOK'
  BY <1>2, <1>3, <1>5 DEF ChainInv, ClaimOK, Usable
<1>8. FamilyIsAChain'
  <2> SUFFICES ASSUME NEW g \in Families, NEW t \in RowsOf(g)', NEW u \in RowsOf(g)',
                      Usable(t)', Usable(u)'
               PROVE  t = u
    BY DEF FamilyIsAChain
  <2>1. t \in Rows /\ u \in Rows /\ session'[t].family = {g} /\ session'[u].family = {g}
    BY DEF RowsOf
  <2>2. CASE g = f
    BY <1>1, <1>2, <1>3, <2>1, <2>2 DEF RowsOf
  <2>3. CASE g # f
    <3>1. t # s /\ u # s
      BY <1>1, <1>3, <2>1, <2>3
    <3> QED BY <1>3, <2>1, <3>1 DEF ChainInv, FamilyIsAChain, RowsOf, Usable
  <2> QED BY <2>2, <2>3
<1> QED BY <1>4, <1>6, <1>7, <1>8 DEF ChainInv

\* A rotation puts the next session in the place of the one it used up.
LEMMA RotationKeeps ==
  ASSUME ChainInv, NEW q \in Refreshes, NEW s \in Rows, NEW next \in Rows,
         CommitRotation(q, s, next)
  PROVE  ChainInv'
<1> DEFINE fam == refresh[q].family
           row == [NoSession EXCEPT !.family = fam]
           old == [session[s] EXCEPT !.rotated = TRUE]
<1>1. /\ refresh[q].op = "claimed" /\ s \in refresh[q].sessions
      /\ session[next].family = {}
      /\ session' = [session EXCEPT ![s].rotated = TRUE, ![next] = row]
      /\ refresh' = [refresh EXCEPT ![q] = NoRefresh]
  BY DEF CommitRotation, Unused
<1>2. session[s].family = fam /\ fam # {} /\ refresh[q].sessions = {s} /\ Usable(s) /\ next # s
  BY <1>1 DEF ChainInv, AboutOK, ClaimOK
<1>3. fam \in FamilyOrNone /\ session \in [Rows -> SessionRows]
      /\ refresh \in [Refreshes -> RefreshRecords]
  BY DEF ChainInv, SessionsTypeOK, SessionRows, RefreshRecords
<1>4. row \in SessionRows /\ row.family = fam
  BY <1>3 DEF NoSession, SessionRows
<1>5. old \in SessionRows /\ old.family = fam /\ old.rotated = TRUE
  BY <1>2, <1>3 DEF SessionRows
<1>6. /\ session'[s] = old /\ session'[next] = row
      /\ \A t \in Rows : t # s /\ t # next => session'[t] = session[t]
      /\ session' \in [Rows -> SessionRows]
  BY <1>1, <1>2, <1>3, <1>4, <1>5 DEF SessionRows
<1> HIDE DEF row, old
<1>7. /\ NoRefresh \in RefreshRecords /\ NoRefresh.op = "idle"
      /\ refresh' \in [Refreshes -> RefreshRecords]
      /\ refresh'[q] = NoRefresh
      /\ \A r \in Refreshes : r # q => refresh'[r] = refresh[r]
  BY <1>1, <1>3 DEF NoRefresh, RefreshRecords, FamilyOrNone
<1>8. SessionsTypeOK'
  BY <1>6, <1>7 DEF SessionsTypeOK, SessionRows, RefreshRecords, FamilyOrNone
<1>9. \A r \in Refreshes :
        /\ refresh[r].sessions \subseteq Rows
        /\ refresh[r].op \in {"rotate", "claimed", "reused"} => next \notin refresh[r].sessions
        /\ refresh[r].op = "claimed" /\ r # q => s \notin refresh[r].sessions
  BY <1>1, <1>3 DEF ChainInv, AboutOK, ClaimOK, RefreshRecords
<1>10. AboutOK'
  <2> SUFFICES ASSUME NEW r \in Refreshes, refresh'[r].op \in {"rotate", "claimed", "reused"},
                      NEW t \in refresh'[r].sessions
               PROVE  /\ session'[t].family = refresh'[r].family /\ session'[t].family # {}
                      /\ refresh'[r].sessions = {t}
    BY DEF AboutOK
  <2>1. r # q /\ refresh'[r] = refresh[r]
    BY <1>7
  <2>2. t \in Rows /\ t # next
    BY <1>9, <2>1
  <2>3. session'[t].family = session[t].family
    BY <1>2, <1>5, <1>6, <2>2
  <2> QED BY <2>1, <2>3 DEF ChainInv, AboutOK
<1>11. ClaimOK'
  <2> SUFFICES ASSUME NEW r \in Refreshes, refresh'[r].op = "claimed", NEW t \in refresh'[r].sessions
               PROVE  /\ Usable(t)'
                      /\ \A p \in Refreshes :
                           refresh'[p].op = "claimed" /\ t \in refresh'[p].sessions => p = r
    BY DEF ClaimOK
  <2>1. r # q /\ refresh'[r] = refresh[r]
    BY <1>7
  <2>2. t \in Rows /\ t # next /\ t # s
    BY <1>9, <2>1
  <2>3. session'[t] = session[t]
    BY <1>6, <2>2
  <2> QED BY <1>7, <2>1, <2>3 DEF ChainInv, ClaimOK, Usable
<1>12. FamilyIsAChain'
  <2> SUFFICES ASSUME NEW g \in Families, NEW t \in RowsOf(g)', NEW u \in RowsOf(g)',
                      Usable(t)', Usable(u)'
               PROVE  t = u
    BY DEF FamilyIsAChain
  <2>1. /\ t \in Rows /\ u \in Rows /\ session'[t].family = {g} /\ session'[u].family = {g}
        /\ t # s /\ u # s
    BY <1>5, <1>6 DEF RowsOf, Usable
  <2>2. \A v \in Rows : v # next /\ v # s /\ session'[v].family = {g} /\ Usable(v)'
                          => session[v].family = {g} /\ Usable(v)
    BY <1>6 DEF Usable
  <2>3. CASE fam = {g}
    \* s was the one that could be used.
    <3>1. \A v \in Rows : session[v].family = {g} /\ Usable(v) => v = s
      BY <1>2, <2>3 DEF ChainInv, FamilyIsAChain, RowsOf
    <3> QED BY <2>1, <2>2, <3>1
  <2>4. CASE fam # {g}
    <3>1. t # next /\ u # next
      BY <1>4, <1>6, <2>1, <2>4
    <3> QED BY <2>1, <2>2, <3>1 DEF ChainInv, FamilyIsAChain, RowsOf
  <2> QED BY <2>3, <2>4
<1> QED BY <1>8, <1>10, <1>11, <1>12 DEF ChainInv

\* A revocation waits for the rows that are locked, and makes nothing usable.
LEMMA RevocationKeeps ==
  ASSUME ChainInv, NEW q \in Refreshes, Revoke(q)
  PROVE  ChainInv'
<1> DEFINE which == refresh[q].sessions
<1>1. /\ refresh[q].op = "revoke" /\ \A s \in which : ~Locked(s)
      /\ session' = Revoked(session, which)
      /\ refresh' = [refresh EXCEPT ![q] = NoRefresh]
  BY DEF Revoke
<1>2. session \in [Rows -> SessionRows] /\ refresh \in [Refreshes -> RefreshRecords]
  BY DEF ChainInv, SessionsTypeOK, SessionRows, RefreshRecords
<1>3. /\ session' \in [Rows -> SessionRows]
      /\ \A s \in Rows : /\ session'[s].family = session[s].family
                         /\ session'[s].rotated = session[s].rotated
                         /\ session[s].revoked => session'[s].revoked
                         /\ s \notin which => session'[s] = session[s]
  BY <1>1, <1>2 DEF Revoked, SessionRows
<1>4. /\ NoRefresh.op = "idle"
      /\ refresh' \in [Refreshes -> RefreshRecords]
      /\ refresh'[q] = NoRefresh
      /\ \A r \in Refreshes : r # q => refresh'[r] = refresh[r]
  BY <1>1, <1>2 DEF NoRefresh, RefreshRecords, FamilyOrNone
<1>5. SessionsTypeOK'
  BY <1>3, <1>4 DEF SessionsTypeOK, SessionRows, RefreshRecords, FamilyOrNone
<1>6. AboutOK'
  BY <1>2, <1>3, <1>4 DEF ChainInv, AboutOK, RefreshRecords
<1>7. ClaimOK'
  <2> SUFFICES ASSUME NEW r \in Refreshes, refresh'[r].op = "claimed", NEW t \in refresh'[r].sessions
               PROVE  /\ Usable(t)'
                      /\ \A p \in Refreshes :
                           refresh'[p].op = "claimed" /\ t \in refresh'[p].sessions => p = r
    BY DEF ClaimOK
  <2>1. r # q /\ refresh'[r] = refresh[r]
    BY <1>4
  <2>2. t \in Rows /\ t \notin which
    BY <1>1, <1>2, <2>1 DEF Locked, RefreshRecords
  <2>3. session'[t] = session[t]
    BY <1>3, <2>2
  <2> QED BY <1>4, <2>1, <2>3 DEF ChainInv, ClaimOK, Usable
<1>8. FamilyIsAChain'
  BY <1>3 DEF ChainInv, FamilyIsAChain, RowsOf, Usable
<1> QED BY <1>5, <1>6, <1>7, <1>8 DEF ChainInv

\* Every step keeps a family a chain.
LEMMA ChainStep == ChainInv /\ [SessionsNext]_sessionVars => ChainInv'
<1> SUFFICES ASSUME ChainInv, [SessionsNext]_sessionVars PROVE ChainInv'
  OBVIOUS
<1>t. /\ refresh \in [Refreshes -> RefreshRecords] /\ session \in [Rows -> SessionRows]
      /\ NoRefresh \in RefreshRecords /\ NoRefresh.op = "idle"
  BY DEF ChainInv, SessionsTypeOK, RefreshRecords, SessionRows, NoRefresh, FamilyOrNone
<1>1. ASSUME NEW s \in Rows, NEW f \in Families, Login(s, f) PROVE ChainInv'
  BY <1>1, LoginKeeps
<1>2. ASSUME NEW q \in Refreshes, NEW s \in Rows, ReadSession(q, s) PROVE ChainInv'
  <2>1. PICK op \in {"rotate", "reused"} :
          refresh' = [refresh EXCEPT
            ![q] = [op |-> op, sessions |-> {s}, family |-> session[s].family]]
    BY <1>2 DEF ReadSession
  <2>2. session' = session /\ session[s].family # {}
    BY <1>2 DEF ReadSession
  <2> DEFINE to == [op |-> op, sessions |-> {s}, family |-> session[s].family]
  <2>3. /\ to \in RefreshRecords /\ to.op # "claimed"
        /\ to.sessions = {s} /\ to.family = session[s].family
    BY <1>t DEF RefreshRecords, SessionRows
  <2> HIDE DEF to
  <2>4. refresh' = [refresh EXCEPT ![q] = to]
    BY <2>1 DEF to
  <2> QED BY <2>2, <2>3, <2>4, RequestMoves
<1>3. ASSUME NEW q \in Refreshes, NEW s \in Rows, ClaimSession(q, s) \/ ClaimFails(q, s)
      PROVE  ChainInv'
  <2>1. /\ refresh[q].op = "rotate" /\ s \in refresh[q].sessions /\ session' = session
        /\ ~Locked(s)
    BY <1>3 DEF ClaimSession, ClaimFails
  <2>2. /\ refresh[q].sessions = {s}
        /\ session[s].family = refresh[q].family /\ session[s].family # {}
    BY <2>1 DEF ChainInv, AboutOK
  <2>3. PICK op \in {"claimed", "reused"} :
          refresh' = [refresh EXCEPT ![q].op = op] /\ (op = "claimed" => Usable(s))
    BY <1>3 DEF ClaimSession, ClaimFails
  <2> DEFINE to == [refresh[q] EXCEPT !.op = op]
  <2>4. /\ to \in RefreshRecords /\ to.op = op
        /\ to.sessions = {s} /\ to.family = refresh[q].family
    BY <1>t, <2>2 DEF RefreshRecords
  <2> HIDE DEF to
  <2>5. refresh' = [refresh EXCEPT ![q] = to]
    BY <2>3 DEF to
  <2>6. /\ \A x \in to.sessions :
             session[x].family = to.family /\ session[x].family # {} /\ to.sessions = {x}
        /\ to.op = "claimed" => \A x \in to.sessions : Usable(x) /\ ~Locked(x)
    BY <2>1, <2>2, <2>3, <2>4
  <2> QED BY <2>1, <2>4, <2>5, <2>6, RequestMoves
<1>4. ASSUME NEW q \in Refreshes, NEW s \in Rows, NEW next \in Rows, CommitRotation(q, s, next)
      PROVE  ChainInv'
  BY <1>4, RotationKeeps
<1>5. ASSUME NEW q \in Refreshes, AbandonRefresh(q) PROVE ChainInv'
  BY <1>5, <1>t, RequestMoves DEF AbandonRefresh
<1>6. ASSUME NEW q \in Refreshes, StartRevocation(q) PROVE ChainInv'
  <2>1. session' = session
    BY <1>6 DEF StartRevocation
  <2>2. PICK to \in RefreshRecords : to.op = "revoke" /\ refresh' = [refresh EXCEPT ![q] = to]
    <3>1. CASE refresh[q].op = "reused" /\
               refresh' = [refresh EXCEPT ![q].op = "revoke",
                 ![q].sessions = {s \in Rows : session[s].family = refresh[q].family}]
      <4> DEFINE which == {s \in Rows : session[s].family = refresh[q].family}
                 to == [refresh[q] EXCEPT !.op = "revoke", !.sessions = which]
      <4>1. which \in SUBSET Rows
        OBVIOUS
      <4> HIDE DEF which
      <4>2. to \in RefreshRecords /\ to.op = "revoke"
        BY <1>t, <4>1 DEF RefreshRecords
      <4>3. refresh' = [refresh EXCEPT ![q] = to]
        BY <1>t, <3>1 DEF which
      <4> QED BY <4>2, <4>3
    <3>2. CASE \E fs \in {{f} : f \in Families} \cup {Families} :
                 refresh' = [refresh EXCEPT
                   ![q] = [op |-> "revoke", sessions |-> UNION {RowsOf(f) : f \in fs}, family |-> {}]]
      <4>1. PICK fs \in {{f} : f \in Families} \cup {Families} :
              refresh' = [refresh EXCEPT
                ![q] = [op |-> "revoke", sessions |-> UNION {RowsOf(f) : f \in fs}, family |-> {}]]
        BY <3>2
      <4>2. UNION {RowsOf(f) : f \in fs} \in SUBSET Rows
        BY DEF RowsOf
      <4>3. [op |-> "revoke", sessions |-> UNION {RowsOf(f) : f \in fs}, family |-> {}]
              \in RefreshRecords
        BY <4>2 DEF RefreshRecords, FamilyOrNone
      <4> QED BY <4>1, <4>3
    <3> QED BY <1>6, <3>1, <3>2 DEF StartRevocation
  <2> QED BY <2>1, <2>2, RequestMoves
<1>7. ASSUME NEW q \in Refreshes, Revoke(q) PROVE ChainInv'
  BY <1>7, RevocationKeeps
<1>8. CASE UNCHANGED sessionVars
  BY <1>8 DEF ChainInv, SessionsTypeOK, AboutOK, ClaimOK, FamilyIsAChain, RowsOf, Usable, sessionVars
<1> QED BY <1>1, <1>2, <1>3, <1>4, <1>5, <1>6, <1>7, <1>8 DEF SessionsNext

\* Whatever refreshes, logs out or is revoked at the same time, one session of
\* a family can be used at most (rotateRefreshSession).
THEOREM FamiliesAreChains == SessionsSpec => []FamilyIsAChain
<1>1. ChainInv => FamilyIsAChain
  BY DEF ChainInv
<1> QED BY <1>1, ChainAtFirst, ChainStep, PTL DEF SessionsSpec

\* What the sessions are to a step of the chain.
LEMMA ChainIdle ==
  session' = session => UNCHANGED <<[f \in Families |-> RowsOf(f)],
                                    [f \in Families |-> UsableOf(f)]>>
BY DEF RowsOf, UsableOf, Usable

\* A login begins a chain of one session.
LEMMA LoginBegins ==
  ASSUME ChainInv, NEW s \in Rows, NEW f \in Families, Login(s, f)
  PROVE  Chain!Begin(f, s)
<1>1. /\ session[s].family = {} /\ RowsOf(f) = {}
      /\ session' = [session EXCEPT ![s] = [NoSession EXCEPT !.family = {f}]]
  BY DEF Login, Unused
<1>2. session \in [Rows -> SessionRows]
  BY DEF ChainInv, SessionsTypeOK, SessionRows
<1>3. /\ session'[s].family = {f} /\ ~session'[s].rotated /\ ~session'[s].revoked
      /\ \A r \in Rows : r # s => session'[r] = session[r]
  BY <1>1, <1>2 DEF NoSession
<1>4. \A c \in Families : s \notin RowsOf(c)
  BY <1>1 DEF RowsOf
<1>5. RowsOf(f)' = {s} /\ UsableOf(f)' = {s}
  BY <1>1, <1>3 DEF RowsOf, UsableOf, Usable
<1>6. ASSUME NEW g \in Families, g # f PROVE RowsOf(g)' = RowsOf(g) /\ UsableOf(g)' = UsableOf(g)
  <2>1. s \notin RowsOf(g) /\ s \notin RowsOf(g)'
    BY <1>3, <1>4, <1>6 DEF RowsOf
  <2>2. RowsOf(g)' = RowsOf(g)
    BY <1>3, <2>1 DEF RowsOf
  <2> QED BY <1>3, <2>1, <2>2 DEF RowsOf, UsableOf, Usable
<1> QED BY <1>1, <1>4, <1>5, <1>6 DEF Chain!Begin, Chain!New

\* A refresh that commits holds the only session that can be used, and puts the
\* next one in its place.
LEMMA RotationForges ==
  ASSUME ChainInv, NEW q \in Refreshes, NEW s \in Rows, NEW next \in Rows,
         CommitRotation(q, s, next)
  PROVE  \E f \in Families : Chain!Forge(f, s, next)
<1> DEFINE fam == refresh[q].family
<1>1. /\ refresh[q].op = "claimed" /\ s \in refresh[q].sessions /\ session[next].family = {}
      /\ session' = [session EXCEPT ![s].rotated = TRUE,
                                    ![next] = [NoSession EXCEPT !.family = fam]]
  BY DEF CommitRotation, Unused
<1>2. session \in [Rows -> SessionRows]
  BY DEF ChainInv, SessionsTypeOK, SessionRows
<1>3. session[s].family = fam /\ fam # {} /\ Usable(s)
  BY <1>1 DEF ChainInv, AboutOK, ClaimOK
<1>4. PICK f \in Families : fam = {f}
  BY <1>2, <1>3 DEF SessionRows, FamilyOrNone
<1>5. s # next
  BY <1>1, <1>3
<1>6. /\ session'[next].family = {f} /\ ~session'[next].rotated /\ ~session'[next].revoked
      /\ session'[s].family = {f} /\ session'[s].rotated
      /\ \A r \in Rows : r # s /\ r # next => session'[r] = session[r]
  BY <1>1, <1>2, <1>3, <1>4, <1>5 DEF NoSession, SessionRows
<1>7. \A c \in Families : next \notin RowsOf(c)
  BY <1>1 DEF RowsOf
<1>8. s \in RowsOf(f) /\ UsableOf(f) = {s}
  BY <1>3, <1>4 DEF RowsOf, UsableOf, ChainInv, FamilyIsAChain
<1>9. RowsOf(f)' = RowsOf(f) \cup {next}
  BY <1>3, <1>4, <1>6 DEF RowsOf
<1>10. UsableOf(f)' = {next}
  <2>1. next \in UsableOf(f)'
    BY <1>6, <1>9 DEF UsableOf, Usable
  <2>2. ASSUME NEW r \in Rows, r \in UsableOf(f)', r # next PROVE FALSE
    <3>1. r # s
      BY <2>2, <1>6 DEF UsableOf, Usable
    <3>2. session'[r] = session[r]
      BY <3>1, <2>2, <1>6
    <3>3. r \in UsableOf(f)
      BY <2>2, <3>2 DEF UsableOf, Usable, RowsOf
    <3> QED BY <3>1, <3>3, <1>8
  <2> QED BY <2>1, <2>2 DEF UsableOf, RowsOf
<1>11. ASSUME NEW g \in Families, g # f PROVE RowsOf(g)' = RowsOf(g) /\ UsableOf(g)' = UsableOf(g)
  <2>1. /\ s \notin RowsOf(g) /\ s \notin RowsOf(g)'
        /\ next \notin RowsOf(g) /\ next \notin RowsOf(g)'
    BY <1>3, <1>4, <1>6, <1>7, <1>11 DEF RowsOf
  <2>2. RowsOf(g)' = RowsOf(g)
    BY <1>6, <2>1 DEF RowsOf
  <2> QED BY <1>6, <2>1, <2>2 DEF RowsOf, UsableOf, Usable
<1>12. Chain!Forge(f, s, next)
  BY <1>7, <1>8, <1>9, <1>10, <1>11 DEF Chain!Forge, Chain!New
<1> QED BY <1>12

\* A revocation cuts the chains whose usable session it writes, and no other.
LEMMA RevocationCuts ==
  ASSUME ChainInv, NEW q \in Refreshes, Revoke(q)
  PROVE  \E C \in SUBSET Families : Chain!Cut(C)
<1> DEFINE which == refresh[q].sessions
           C == {c \in Families : \E s \in UsableOf(c) : s \in which}
<1>1. session' = Revoked(session, which)
  BY DEF Revoke
<1>2. session \in [Rows -> SessionRows]
  BY DEF ChainInv, SessionsTypeOK, SessionRows
<1>3. \A s \in Rows : /\ session'[s].family = session[s].family
                      /\ session'[s].rotated = session[s].rotated
                      /\ session'[s].revoked <=> session[s].revoked \/ s \in which
  BY <1>1, <1>2 DEF Revoked, SessionRows
<1>4. \A c \in Families : RowsOf(c)' = RowsOf(c)
  BY <1>3 DEF RowsOf
<1>5. \A c \in Families : UsableOf(c)' = UsableOf(c) \ which
  BY <1>3 DEF RowsOf, UsableOf, Usable
<1>6. \A c \in Families : \A s, t \in UsableOf(c) : s = t
  BY DEF UsableOf, ChainInv, FamilyIsAChain
<1>7. \A c \in Families : UsableOf(c)' = IF c \in C THEN {} ELSE UsableOf(c)
  BY <1>5, <1>6
<1> HIDE DEF C
<1>8. Chain!Cut(C)
  BY <1>4, <1>7 DEF Chain!Cut
<1> QED BY <1>8 DEF C

\* Every step of the requests is a step of the chains or leaves them as they are.
LEMMA ChainIsKept ==
  ASSUME ChainInv, [SessionsNext]_sessionVars
  PROVE  [Chain!Next]_<<[f \in Families |-> RowsOf(f)], [f \in Families |-> UsableOf(f)]>>
<1> DEFINE step == [Chain!Next]_<<[f \in Families |-> RowsOf(f)],
                                  [f \in Families |-> UsableOf(f)]>>
<1>1. ASSUME NEW s \in Rows, NEW f \in Families, Login(s, f) PROVE step
  <2>1. Chain!Begin(f, s)
    BY <1>1, LoginBegins
  <2> QED BY <2>1 DEF Chain!Next
<1>2. ASSUME NEW q \in Refreshes, NEW s \in Rows, NEW next \in Rows, CommitRotation(q, s, next)
      PROVE  step
  <2>1. PICK f \in Families : Chain!Forge(f, s, next)
    BY <1>2, RotationForges
  <2> QED BY <2>1 DEF Chain!Next
<1>3. ASSUME NEW q \in Refreshes, Revoke(q) PROVE step
  <2>1. PICK C \in SUBSET Families : Chain!Cut(C)
    BY <1>3, RevocationCuts
  <2> QED BY <2>1 DEF Chain!Next
<1>4. ASSUME session' = session PROVE step
  BY <1>4, ChainIdle
<1>5. ASSUME NEW q \in Refreshes,
             \/ \E s \in Rows : ReadSession(q, s) \/ ClaimSession(q, s) \/ ClaimFails(q, s)
             \/ AbandonRefresh(q) \/ StartRevocation(q)
      PROVE  step
  BY <1>4, <1>5 DEF ReadSession, ClaimSession, ClaimFails, AbandonRefresh, StartRevocation
<1>6. CASE UNCHANGED sessionVars
  BY <1>4, <1>6 DEF sessionVars
<1> QED BY <1>1, <1>2, <1>3, <1>5, <1>6 DEF SessionsNext

\* At first there is no session.
LEMMA ChainBegins == SessionsInit => Chain!Init
<1> SUFFICES ASSUME SessionsInit PROVE Chain!Init
  OBVIOUS
<1>1. \A s \in Rows : session[s].family = {}
  BY DEF SessionsInit, NoSession
<1>2. \A f \in Families : RowsOf(f) = {} /\ UsableOf(f) = {}
  BY <1>1 DEF RowsOf, UsableOf
<1> QED BY <1>2 DEF Chain!Init

\* The sessions of every family are a chain that is used link by link and is never
\* good again once cut, for any number of overlapping refreshes and revocations
\* (rotateRefreshSession, revokeFamily, revokeAllSessions).
THEOREM SessionsAreChains == SessionsSpec => ChainSpec
BY ChainBegins, ChainAtFirst, ChainStep, ChainIsKept, PTL DEF SessionsSpec, ChainSpec, Chain!Spec

-----------------------------------------------------------------------------
\* Idempotency.

\* The one request that works under the key works under the record.
WorkOK ==
  /\ \A x, y \in Working : x = y
  /\ \A x \in Working :
       record.id = attempt[x].id /\ record.status = "PROCESSING" /\ ~record.lapsed

\* An effect whose answer is stored, or about to be.
Accounted ==
  record.status = "COMPLETED" \/ \E x \in Attempts : At(x, "answered") /\ attempt[x].ok

EffectsOK ==
  /\ Accounted  => effects = 1 + unstored
  /\ ~Accounted => effects = unstored

IdemInv == IdemTypeOK /\ (~overrun => WorkOK /\ EffectsOK)

AttemptRows == [stage : Stages, id : 0..Cardinality(Attempts), ok : BOOLEAN]

\* No request works at first.
LEMMA IdemAtFirst == IdemInit => IdemInv
<1> SUFFICES ASSUME IdemInit PROVE IdemInv
  OBVIOUS
<1>1. Cardinality(Attempts) \in Nat
  BY IdempotencyAssumption, FS_CardinalityType
<1>2. /\ 0 \in 0..Cardinality(Attempts)
      /\ [stage |-> "sent", id |-> 0, ok |-> FALSE] \in AttemptRows
  BY <1>1 DEF AttemptRows, Stages
<1>t. IdemTypeOK
  BY <1>2 DEF IdemInit, IdemTypeOK, NoRecord, AttemptRows
<1>3. WorkOK /\ EffectsOK
  BY DEF IdemInit, WorkOK, EffectsOK, Accounted, Working, At, NoRecord
<1> QED BY <1>t, <1>3 DEF IdemInv

\* One request moves to another stage, or to work under a record.
LEMMA AttemptMoves ==
  ASSUME IdemTypeOK, NEW x \in Attempts, NEW to \in AttemptRows,
         attempt' = [attempt EXCEPT ![x] = to]
  PROVE  /\ attempt' \in [Attempts -> AttemptRows]
         /\ attempt'[x] = to
         /\ \A y \in Attempts : y # x => attempt'[y] = attempt[y]
BY DEF IdemTypeOK, AttemptRows

\* Every step keeps the values of the schema.
LEMMA IdemTypeStep == IdemTypeOK /\ [IdemNext]_idemVars => IdemTypeOK'
<1> SUFFICES ASSUME IdemTypeOK, [IdemNext]_idemVars PROVE IdemTypeOK'
  OBVIOUS
<1>c. Cardinality(Attempts) \in Nat
  BY IdempotencyAssumption, FS_CardinalityType
<1>t. attempt \in [Attempts -> AttemptRows]
  BY DEF IdemTypeOK, AttemptRows
<1>1. ASSUME NEW x \in Attempts, CreateRecord(x) PROVE IdemTypeOK'
  BY <1>1, <1>c, <1>t DEF CreateRecord, IdemTypeOK, AttemptRows, Stages
<1>2. ASSUME NEW x \in Attempts,
             Replay(x) \/ Refuse(x) \/ FindLapsed(x) \/ TakeOverRefused(x) \/ Answer(x)
      PROVE  IdemTypeOK'
  BY <1>2, <1>t DEF Replay, Refuse, FindLapsed, TakeOverRefused, Answer, Goes, IdemTypeOK,
                    AttemptRows, Stages
<1>3. ASSUME NEW x \in Attempts, TakeOver(x) \/ Store(x) \/ Discard(x) \/ Stop(x)
      PROVE  IdemTypeOK'
  <2>1. \E stage \in Stages : attempt' = [attempt EXCEPT ![x].stage = stage]
    BY <1>3 DEF TakeOver, Store, Discard, Stop, Goes, Stages
  <2>2. attempt' \in [Attempts -> AttemptRows]
    BY <2>1, <1>t DEF AttemptRows
  <2>3. /\ record' \in [id : 0..Cardinality(Attempts),
                        status : {"NONE", "PROCESSING", "COMPLETED"}, lapsed : BOOLEAN]
        /\ effects' \in Nat /\ unstored' \in Nat /\ overrun' \in BOOLEAN
    <3>1. CASE TakeOver(x)
      BY <3>1 DEF TakeOver, IdemTypeOK
    <3>2. CASE Store(x)
      BY <3>2 DEF Store, IdemTypeOK
    <3>3. CASE Discard(x)
      BY <3>3, <1>c DEF Discard, NoRecord, IdemTypeOK
    <3>4. CASE Stop(x)
      BY <3>4 DEF Stop, IdemTypeOK
    <3> QED BY <1>3, <3>1, <3>2, <3>3, <3>4
  <2> QED BY <2>2, <2>3 DEF IdemTypeOK, AttemptRows
<1>4. CASE RecordLapses
  BY <1>4 DEF RecordLapses, IdemTypeOK
<1>5. CASE UNCHANGED idemVars
  BY <1>5 DEF idemVars, IdemTypeOK
<1> QED BY <1>1, <1>2, <1>3, <1>4, <1>5 DEF IdemNext

\* Every step keeps the requests apart as long as none outlives its record.
LEMMA IdemStep == IdemInv /\ [IdemNext]_idemVars => IdemInv'
<1> SUFFICES ASSUME IdemInv, [IdemNext]_idemVars, ~overrun' PROVE WorkOK' /\ EffectsOK'
  BY IdemTypeStep DEF IdemInv
<1>0. ~overrun /\ WorkOK /\ EffectsOK
  <2>1. overrun \in BOOLEAN
    BY DEF IdemInv, IdemTypeOK
  <2>2. CASE \E x \in Attempts :
               \/ CreateRecord(x) \/ Replay(x) \/ Refuse(x)
               \/ FindLapsed(x) \/ TakeOver(x) \/ TakeOverRefused(x)
    BY <2>2 DEF IdemInv, CreateRecord, Replay, Refuse, FindLapsed, TakeOver, TakeOverRefused
  <2>3. CASE \E x \in Attempts : Answer(x) \/ Store(x) \/ Discard(x) \/ Stop(x)
    BY <2>3 DEF IdemInv, Answer, Store, Discard, Stop
  <2>4. CASE RecordLapses
    BY <2>1, <2>4 DEF IdemInv, RecordLapses
  <2>5. CASE UNCHANGED idemVars
    BY <2>5 DEF IdemInv, idemVars
  <2> QED BY <2>2, <2>3, <2>4, <2>5 DEF IdemNext
<1>t. /\ attempt \in [Attempts -> AttemptRows]
      /\ record \in [id : 0..Cardinality(Attempts),
                     status : {"NONE", "PROCESSING", "COMPLETED"}, lapsed : BOOLEAN]
      /\ effects \in Nat /\ unstored \in Nat
  BY DEF IdemInv, IdemTypeOK, AttemptRows
<1>1. ASSUME NEW x \in Attempts, CreateRecord(x) PROVE WorkOK' /\ EffectsOK'
  BY <1>0, <1>1, <1>t DEF CreateRecord, WorkOK, EffectsOK, Accounted, Working, At, AttemptRows
<1>2. ASSUME NEW x \in Attempts,
             Replay(x) \/ Refuse(x) \/ FindLapsed(x) \/ TakeOverRefused(x)
      PROVE  WorkOK' /\ EffectsOK'
  BY <1>0, <1>2, <1>t DEF Replay, Refuse, FindLapsed, TakeOverRefused, Goes, WorkOK, EffectsOK,
                          Accounted, Working, At, AttemptRows
<1>3. ASSUME NEW x \in Attempts, TakeOver(x) PROVE WorkOK' /\ EffectsOK'
  BY <1>0, <1>3, <1>t DEF TakeOver, TakesOver, Goes, WorkOK, EffectsOK, Accounted, Working, At,
                          AttemptRows
<1>4. ASSUME NEW x \in Attempts, Answer(x) PROVE WorkOK' /\ EffectsOK'
  BY <1>0, <1>4, <1>t DEF Answer, WorkOK, EffectsOK, Accounted, Working, At, AttemptRows
<1>5. ASSUME NEW x \in Attempts, Store(x) PROVE WorkOK' /\ EffectsOK'
  BY <1>0, <1>5, <1>t DEF Store, Goes, WorkOK, EffectsOK, Accounted, Working, At, AttemptRows
<1>6. ASSUME NEW x \in Attempts, Discard(x) PROVE WorkOK' /\ EffectsOK'
  BY <1>0, <1>6, <1>t DEF Discard, NoRecord, Goes, WorkOK, EffectsOK, Accounted, Working, At,
                          AttemptRows
<1>7. ASSUME NEW x \in Attempts, Stop(x) PROVE WorkOK' /\ EffectsOK'
  BY <1>0, <1>7, <1>t DEF Stop, Goes, WorkOK, EffectsOK, Accounted, Working, At, AttemptRows
<1>8. CASE RecordLapses
  <2>1. overrun \in BOOLEAN
    BY DEF IdemInv, IdemTypeOK
  <2>2. Working = {} /\ Working' = {}
    BY <1>8, <2>1 DEF RecordLapses, Working
  <2>3. record'.status = record.status
    BY <1>8, <1>t DEF RecordLapses
  <2> QED BY <1>0, <1>8, <2>2, <2>3 DEF RecordLapses, WorkOK, EffectsOK, Accounted, At
<1>9. CASE UNCHANGED idemVars
  BY <1>0, <1>9 DEF idemVars, WorkOK, EffectsOK, Accounted, Working, At
<1> QED BY <1>1, <1>2, <1>3, <1>4, <1>5, <1>6, <1>7, <1>8, <1>9 DEF IdemNext

\* What the invariant is for.
LEMMA IdemGives == IdemInv => OneRunAtATime
BY DEF IdemInv, IdemTypeOK, WorkOK, EffectsOK, OneRunAtATime

\* However many times a request is repeated, one of the repetitions runs the
\* handler at a time, and an effect is repeated only if its answer was lost
\* (idempotencyMiddleware).
THEOREM RequestsRunOnce == IdemSpec => []OneRunAtATime
BY IdemAtFirst, IdemStep, IdemGives, PTL DEF IdemSpec

\* Of the requests that work, the ones that have committed do not change when
\* another one moves.
LEMMA OthersGoOn ==
  ASSUME attempt \in [Attempts -> AttemptRows], attempt' \in [Attempts -> AttemptRows],
         NEW x \in Attempts, \A y \in Attempts : y # x => attempt'[y] = attempt[y]
  PROVE  /\ Working' \ {x} = Working \ {x}
         /\ Acted' \ {x} = Acted \ {x}
         /\ Acted \subseteq Working
BY DEF Working, Acted, At

\* Every step of the repetitions is one of the promise or leaves it as it is; it is
\* void once a handler outlives its record.
LEMMA EffectIsSingle ==
  ASSUME IdemInv, [IdemNext]_idemVars
  PROVE  [SingleEffect!Next]_(SingleEffect!all)
<1>a. CASE overrun'
  BY <1>a DEF SingleEffect!Next
<1>b. CASE ~overrun'
  <2>0. ~overrun /\ WorkOK
    <3>1. overrun \in BOOLEAN
      BY DEF IdemInv, IdemTypeOK
    <3>2. overrun => overrun'
      <4>1. CASE \E x \in Attempts :
                   \/ CreateRecord(x) \/ Replay(x) \/ Refuse(x)
                   \/ FindLapsed(x) \/ TakeOver(x) \/ TakeOverRefused(x)
        BY <4>1 DEF CreateRecord, Replay, Refuse, FindLapsed, TakeOver, TakeOverRefused
      <4>2. CASE \E x \in Attempts : Answer(x) \/ Store(x) \/ Discard(x) \/ Stop(x)
        BY <4>2 DEF Answer, Store, Discard, Stop
      <4>3. CASE RecordLapses
        BY <3>1, <4>3 DEF RecordLapses
      <4>4. CASE UNCHANGED idemVars
        BY <4>4 DEF idemVars
      <4> QED BY <4>1, <4>2, <4>3, <4>4 DEF IdemNext
    <3> QED BY <1>b, <3>2 DEF IdemInv
  <2>t. /\ attempt \in [Attempts -> AttemptRows] /\ attempt' \in [Attempts -> AttemptRows]
        /\ record \in [id : 0..Cardinality(Attempts),
                       status : {"NONE", "PROCESSING", "COMPLETED"}, lapsed : BOOLEAN]
    BY IdemTypeStep DEF IdemInv, IdemTypeOK, AttemptRows
  <2> DEFINE step == [SingleEffect!Next]_(SingleEffect!all)
  <2>1. ASSUME NEW x \in Attempts, CreateRecord(x) \/ TakeOver(x) PROVE step
    <3>1. /\ At(x, "sent") \/ At(x, "found")
          /\ record.status # "COMPLETED" /\ record'.status # "COMPLETED"
          /\ record.status = "NONE" \/ record.lapsed
          /\ UNCHANGED <<effects, unstored, overrun>>
      BY <2>1, <2>t DEF CreateRecord, TakeOver, TakesOver
    <3>2. Working = {}
      BY <3>1, <2>0 DEF WorkOK
    <3>3. attempt'[x].stage = "running" /\ \A y \in Attempts : y # x => attempt'[y] = attempt[y]
      BY <2>1, <2>t DEF CreateRecord, TakeOver, Goes, AttemptRows
    <3>4. Working' = {x} /\ Acted' = {} /\ Acted = {}
      BY <3>2, <3>3, <2>t DEF Working, Acted, At
    <3>5. SingleEffect!Begin(x)
      BY <3>1, <3>2, <3>4 DEF SingleEffect!Begin
    <3> QED BY <3>5 DEF SingleEffect!Next
  <2>2. ASSUME NEW x \in Attempts, Replay(x) \/ Refuse(x) \/ FindLapsed(x) \/ TakeOverRefused(x)
        PROVE  step
    <3>1. /\ attempt[x].stage \in {"sent", "found"}
          /\ attempt'[x].stage \in {"replayed", "refused", "found"}
          /\ \A y \in Attempts : y # x => attempt'[y] = attempt[y]
          /\ UNCHANGED <<record, effects, unstored, overrun>>
      BY <2>2, <2>t DEF Replay, Refuse, FindLapsed, TakeOverRefused, Goes, At, AttemptRows
    <3>2. Working' = Working /\ Acted' = Acted
      BY <3>1, <2>t DEF Working, Acted, At
    <3> QED BY <3>1, <3>2 DEF SingleEffect!all
  <2>3. ASSUME NEW x \in Attempts, Answer(x) PROVE step
    <3>1. PICK ok \in BOOLEAN :
            /\ attempt' = [attempt EXCEPT ![x].stage = "answered", ![x].ok = ok]
            /\ effects' = IF ok THEN effects + 1 ELSE effects
      BY <2>3 DEF Answer
    <3>2. /\ attempt[x].stage = "running"
          /\ attempt'[x].stage = "answered" /\ attempt'[x].ok = ok
          /\ \A y \in Attempts : y # x => attempt'[y] = attempt[y]
          /\ UNCHANGED <<record, unstored, overrun>>
      BY <2>3, <2>t, <3>1 DEF Answer, At, AttemptRows
    <3>3. /\ Working' = Working /\ x \in Working \ Acted
          /\ Acted' = IF ok THEN Acted \cup {x} ELSE Acted
      BY <3>2, <2>t DEF Working, Acted, At
    <3>4. ok => SingleEffect!Act(x)
      BY <3>1, <3>2, <3>3 DEF SingleEffect!Act
    <3>5. ~ok => UNCHANGED SingleEffect!all
      BY <3>1, <3>2, <3>3 DEF SingleEffect!all
    <3> QED BY <3>3, <3>4, <3>5 DEF SingleEffect!Next
  <2>4. ASSUME NEW x \in Attempts, Store(x) \/ Discard(x) \/ Stop(x) PROVE step
    <3>1. /\ x \in Working
          /\ attempt'[x].stage = "finished"
          /\ \A y \in Attempts : y # x => attempt'[y] = attempt[y]
          /\ UNCHANGED <<effects, overrun>>
      BY <2>4, <2>t DEF Store, Discard, Stop, Goes, Working, At, AttemptRows
    <3>2. Working' = Working \ {x} /\ Acted' = Acted \ {x}
      BY <3>1, <2>t DEF Working, Acted, At
    <3>3. record.id = attempt[x].id /\ record.status = "PROCESSING"
      BY <3>1, <2>0 DEF WorkOK
    <3>4. CASE Store(x)
      <4>1. x \in Acted /\ record'.status = "COMPLETED" /\ unstored' = unstored
        BY <3>3, <3>4, <2>t DEF Store, Acted
      <4>2. SingleEffect!Keep(x)
        BY <3>1, <3>2, <4>1 DEF SingleEffect!Keep
      <4> QED BY <3>1, <4>2 DEF SingleEffect!Next
    <3>5. CASE Discard(x)
      <4>1. x \in Working \ Acted /\ record'.status # "COMPLETED" /\ unstored' = unstored
        BY <3>1, <3>3, <3>5 DEF Discard, Acted, NoRecord
      <4>2. SingleEffect!GiveUp(x)
        BY <3>1, <3>2, <3>3, <4>1 DEF SingleEffect!GiveUp
      <4> QED BY <3>1, <4>2 DEF SingleEffect!Next
    <3>6. CASE Stop(x)
      <4>1. /\ unstored' = IF x \in Acted THEN unstored + 1 ELSE unstored
            /\ record' = record
        BY <3>6 DEF Stop, Acted
      <4>2. IF x \in Acted THEN SingleEffect!Lose(x) ELSE SingleEffect!GiveUp(x)
        BY <3>1, <3>2, <4>1 DEF SingleEffect!Lose, SingleEffect!GiveUp
      <4> QED BY <3>1, <4>2 DEF SingleEffect!Next
    <3> QED BY <2>4, <3>4, <3>5, <3>6
  <2>5. CASE RecordLapses
    <3>1. /\ Working = {} /\ attempt' = attempt
          /\ record'.status = record.status
          /\ UNCHANGED <<effects, unstored>>
      BY <1>b, <2>5, <2>t DEF RecordLapses
    <3>2. Working' = Working /\ Acted' = Acted
      BY <3>1 DEF Working, Acted, At
    <3>3. overrun' = overrun
      <4>1. overrun \in BOOLEAN /\ overrun' \in BOOLEAN
        BY IdemTypeStep DEF IdemInv, IdemTypeOK
      <4> QED BY <1>b, <2>0, <4>1
    <3> QED BY <3>1, <3>2, <3>3 DEF SingleEffect!all
  <2>6. CASE UNCHANGED idemVars
    BY <2>6 DEF idemVars, SingleEffect!all, Working, Acted, At
  <2> QED BY <2>1, <2>2, <2>3, <2>4, <2>5, <2>6 DEF IdemNext
<1> QED BY <1>a, <1>b

\* At first nobody works and there is no effect.
LEMMA SingleAtFirst == IdemInit => SingleEffect!Init
BY DEF IdemInit, SingleEffect!Init, Working, Acted, At, NoRecord

\* The key keeps its promise: an effect is stored with its answer or the answer is
\* lost, and nobody works once one is stored, for any number of repetitions,
\* takeovers and stops (idempotencyMiddleware).
THEOREM IdempotencyIsSingleEffect == IdemSpec => SingleEffectSpec
BY SingleAtFirst, IdemAtFirst, IdemStep, EffectIsSingle, PTL
   DEF IdemSpec, SingleEffectSpec, SingleEffect!Spec

-----------------------------------------------------------------------------
\* Outbox.

SmsCalls  == [text : Messages, failed : BOOLEAN]
BatchRows == [left : SUBSET Messages, seen : [Messages -> 0..MaxSmsAttempts],
              sending : SUBSET SmsCalls]
SmsRows   == [status : {"PENDING", "SENT", "FAILED"}, attempts : 0..MaxSmsAttempts]

\* A cycle waits for one call, and carries texts that have an attempt left.
BatchOK ==
  /\ \A m \in Messages : Pending(m) => outbox[m].attempts < MaxSmsAttempts
  /\ \A k \in Cycles :
       /\ \A m \in batch[k].left : batch[k].seen[m] < MaxSmsAttempts
       /\ \A e \in batch[k].sending : batch[k].seen[e.text] < MaxSmsAttempts
       /\ \A e, f \in batch[k].sending : e = f

\* What is marked, or about to be, has happened.
MarksOK ==
  /\ \A m \in Messages :
       /\ outbox[m].status = "SENT" => delivered[m] > 0
       /\ outbox[m].status = "FAILED" => refused[m] >= MaxSmsAttempts
       /\ outbox[m].attempts <= refused[m]
  /\ \A k \in Cycles :
       /\ \A m \in Messages : batch[k].seen[m] <= refused[m]
       /\ \A e \in batch[k].sending :
            IF e.failed THEN batch[k].seen[e.text] < refused[e.text]
                        ELSE delivered[e.text] > 0

\* The text is delivered and a cycle is about to mark it.
Carried(m) == \E k \in Cycles : [text |-> m, failed |-> FALSE] \in batch[k].sending

\* Cycles that do not overlap: the one at work holds the lock and has texts that
\* nobody else marks.
ApartOK ==
  /\ \A k \in Cycles : Busy(k) => jobLock = k
  /\ \A k \in Cycles :
       /\ \A m \in batch[k].left : Pending(m) /\ \A e \in batch[k].sending : e.text # m
       /\ \A e \in batch[k].sending : Pending(e.text)
  /\ \A m \in Messages :
       /\ Carried(m) => delivered[m] = unmarked[m] + 1
       /\ ~Carried(m) /\ outbox[m].status # "SENT" => delivered[m] = unmarked[m]
       /\ delivered[m] <= unmarked[m] + 1

OutboxInv == OutboxTypeOK /\ BatchOK /\ MarksOK /\ (overlaps = 0 => ApartOK)

\* The types, row by row.
LEMMA OutboxShape ==
  OutboxTypeOK <=>
    /\ outbox \in [Messages -> SmsRows]
    /\ jobLock \in Cycles \cup {NoCycle}
    /\ batch \in [Cycles -> BatchRows]
    /\ delivered \in [Messages -> Nat] /\ unmarked \in [Messages -> Nat]
    /\ refused \in [Messages -> Nat]
    /\ stops \in 0..MaxStops /\ overlaps \in 0..MaxOverlaps
BY DEF OutboxTypeOK, SmsRows, BatchRows, SmsCalls

\* A cycle that is not at work carries nothing.
LEMMA IdleBatch ==
  /\ NoBatch \in BatchRows
  /\ NoBatch.left = {} /\ NoBatch.sending = {}
  /\ \A m \in Messages : NoBatch.seen[m] = 0
BY DEF NoBatch, BatchRows, SmsCalls, MaxSmsAttempts

\* Nothing is sent at first.
LEMMA OutboxAtFirst == OutboxInit => OutboxInv
<1> SUFFICES ASSUME OutboxInit PROVE OutboxInv
  OBVIOUS
<1>1. \A k \in Cycles : batch[k] = NoBatch
  BY DEF OutboxInit
<1>2. \A m \in Messages : /\ outbox[m].status = "PENDING" /\ outbox[m].attempts = 0
                          /\ delivered[m] = 0 /\ unmarked[m] = 0 /\ refused[m] = 0
  BY DEF OutboxInit
<1>3. OutboxTypeOK
  BY IdleBatch, OutboxAssumption, OutboxShape DEF OutboxInit, SmsRows, MaxSmsAttempts
<1>4. BatchOK /\ MarksOK
  BY <1>1, <1>2, IdleBatch DEF BatchOK, MarksOK, Pending, MaxSmsAttempts
<1>5. ApartOK
  BY <1>1, <1>2, IdleBatch DEF ApartOK, Busy, Pending, Carried
<1> QED BY <1>3, <1>4, <1>5 DEF OutboxInv

\* One cycle's batch is replaced.
LEMMA BatchMoves ==
  ASSUME OutboxTypeOK, NEW k \in Cycles, NEW to \in BatchRows, batch' = [batch EXCEPT ![k] = to]
  PROVE  /\ batch' \in [Cycles -> BatchRows]
         /\ batch'[k] = to
         /\ \A j \in Cycles : j # k => batch'[j] = batch[j]
BY OutboxShape

\* A cycle starts with what waits at that moment.
LEMMA StartKeeps ==
  ASSUME OutboxInv, NEW k \in Cycles, StartCycle(k)
  PROVE  OutboxInv'
<1> DEFINE to == [left |-> {m \in Messages : Pending(m)},
                  seen |-> [m \in Messages |-> outbox[m].attempts], sending |-> {}]
<1>t. /\ outbox \in [Messages -> SmsRows] /\ batch \in [Cycles -> BatchRows]
      /\ OutboxTypeOK /\ jobLock \in Cycles \cup {NoCycle}
  BY OutboxShape DEF OutboxInv
<1>1. /\ ~Busy(k) /\ jobLock = NoCycle /\ jobLock' = k
      /\ batch' = [batch EXCEPT ![k] = to]
      /\ UNCHANGED <<outbox, delivered, unmarked, refused, stops, overlaps>>
  BY DEF StartCycle
<1>2. to \in BatchRows
  BY <1>t DEF SmsRows, BatchRows
<1>3. /\ to.sending = {}
      /\ \A m \in to.left : m \in Messages /\ Pending(m)
      /\ \A m \in Messages : to.seen[m] = outbox[m].attempts
  OBVIOUS
<1> HIDE DEF to
<1>4. /\ batch' \in [Cycles -> BatchRows]
      /\ batch'[k] = to
      /\ \A j \in Cycles : j # k => batch'[j] = batch[j]
  BY <1>t, <1>1, <1>2, BatchMoves
<1>5. OutboxTypeOK'
  BY <1>t, <1>1, <1>4, OutboxShape DEF OutboxTypeOK, BatchRows, SmsCalls
<1>6. BatchOK'
  BY <1>1, <1>3, <1>4 DEF OutboxInv, BatchOK, Pending
<1>7. MarksOK'
  BY <1>1, <1>3, <1>4 DEF OutboxInv, MarksOK
<1>8. ASSUME overlaps' = 0 PROVE ApartOK'
  <2>1. ApartOK /\ \A j \in Cycles : batch[j] = NoBatch
    BY <1>1, <1>8, OutboxAssumption DEF OutboxInv, ApartOK, Busy
  <2>2. \A j \in Cycles : batch'[j].sending = {} /\ batch[j].sending = {}
    BY <1>3, <1>4, <2>1, IdleBatch
  <2>3. \A m \in Messages : ~Carried(m) /\ ~Carried(m)'
    BY <2>2 DEF Carried
  <2>4. \A j \in Cycles : Busy(j)' => j = k
    BY <1>4, <2>1 DEF Busy
  <2>5. \A j \in Cycles : \A m \in batch'[j].left : Pending(m)'
    BY <1>1, <1>3, <1>4, <2>1, IdleBatch DEF Pending
  <2> QED BY <1>1, <2>1, <2>2, <2>3, <2>4, <2>5 DEF ApartOK
<1> QED BY <1>5, <1>6, <1>7, <1>8 DEF OutboxInv

\* A call to the gateway is counted before it is marked.
LEMMA SendKeeps ==
  ASSUME OutboxInv, NEW k \in Cycles, NEW m \in Messages, SendSms(k, m)
  PROVE  OutboxInv'
<1>t. /\ outbox \in [Messages -> SmsRows] /\ batch \in [Cycles -> BatchRows]
      /\ delivered \in [Messages -> Nat] /\ unmarked \in [Messages -> Nat]
      /\ refused \in [Messages -> Nat] /\ OutboxTypeOK
  BY OutboxShape DEF OutboxInv
<1>0. m \in batch[k].left /\ batch[k].sending = {}
      /\ UNCHANGED <<outbox, jobLock, stops, overlaps>>
  BY DEF SendSms
<1>1. PICK reached \in BOOLEAN, failed \in BOOLEAN :
       /\ reached \/ failed
       /\ batch' = [batch EXCEPT ![k].sending = {[text |-> m, failed |-> failed]},
                                 ![k].left = @ \ {m}]
       /\ delivered' = IF reached THEN [delivered EXCEPT ![m] = @ + 1] ELSE delivered
       /\ unmarked' = IF reached /\ failed THEN [unmarked EXCEPT ![m] = @ + 1] ELSE unmarked
       /\ refused' = IF failed THEN [refused EXCEPT ![m] = @ + 1] ELSE refused
  BY DEF SendSms
<1> DEFINE call == [text |-> m, failed |-> failed]
           to == [batch[k] EXCEPT !.sending = {call}, !.left = @ \ {m}]
<1>2. call \in SmsCalls /\ call.text = m /\ call.failed = failed
  BY DEF SmsCalls
<1>3. /\ to \in BatchRows /\ to.sending = {call} /\ to.left = batch[k].left \ {m}
      /\ to.seen = batch[k].seen
  BY <1>t, <1>2 DEF BatchRows
<1>4. batch' = [batch EXCEPT ![k] = to]
  BY <1>1, <1>t DEF BatchRows
<1>5. \A n \in Messages : ([text |-> n, failed |-> FALSE] = call) <=> (n = m /\ ~failed)
  OBVIOUS
<1> HIDE DEF to, call
<1>6. /\ batch' \in [Cycles -> BatchRows]
      /\ batch'[k] = to
      /\ \A j \in Cycles : j # k => batch'[j] = batch[j]
  BY <1>t, <1>3, <1>4, BatchMoves
<1>7. /\ delivered' \in [Messages -> Nat] /\ unmarked' \in [Messages -> Nat]
      /\ refused' \in [Messages -> Nat]
      /\ \A n \in Messages : /\ delivered'[n] >= delivered[n] /\ refused'[n] >= refused[n]
                             /\ n # m => delivered'[n] = delivered[n] /\ unmarked'[n] = unmarked[n]
      /\ failed => refused'[m] = refused[m] + 1
      /\ failed => delivered'[m] - unmarked'[m] = delivered[m] - unmarked[m]
      /\ ~failed => delivered'[m] = delivered[m] + 1 /\ unmarked'[m] = unmarked[m]
  BY <1>1, <1>t
<1>8. OutboxTypeOK'
  BY <1>0, <1>6, <1>7, OutboxShape DEF OutboxInv, OutboxTypeOK, BatchRows, SmsCalls
<1>9. BatchOK'
  BY <1>0, <1>2, <1>3, <1>6 DEF OutboxInv, BatchOK, Pending
<1>10. MarksOK'
  <2>1. ASSUME NEW n \in Messages
        PROVE  /\ outbox'[n].status = "SENT" => delivered'[n] > 0
               /\ outbox'[n].status = "FAILED" => refused'[n] >= MaxSmsAttempts
               /\ outbox'[n].attempts <= refused'[n]
    <3>1. /\ outbox[n].attempts \in Nat /\ refused[n] \in Nat /\ refused'[n] \in Nat
          /\ delivered[n] \in Nat /\ delivered'[n] \in Nat
          /\ refused'[n] >= refused[n] /\ delivered'[n] >= delivered[n] /\ outbox' = outbox
      BY <1>0, <1>t, <1>7 DEF SmsRows, MaxSmsAttempts
    <3>2. /\ outbox[n].status = "SENT" => delivered[n] > 0
          /\ outbox[n].status = "FAILED" => refused[n] >= MaxSmsAttempts
          /\ outbox[n].attempts <= refused[n]
      BY DEF OutboxInv, MarksOK
    <3> QED BY <3>1, <3>2 DEF MaxSmsAttempts
  <2>2. ASSUME NEW j \in Cycles, NEW n \in Messages
        PROVE  batch'[j].seen[n] <= refused'[n]
    <3>1. /\ batch[j].seen[n] \in Nat /\ refused[n] \in Nat /\ refused'[n] \in Nat
          /\ refused'[n] >= refused[n]
      BY <1>t, <1>7 DEF BatchRows, MaxSmsAttempts
    <3>2. batch[j].seen[n] <= refused[n]
      BY DEF OutboxInv, MarksOK
    <3>3. batch'[j].seen = batch[j].seen
      BY <1>3, <1>6
    <3> QED BY <3>1, <3>2, <3>3
  <2>3. ASSUME NEW j \in Cycles, NEW e \in batch'[j].sending
        PROVE  IF e.failed THEN batch'[j].seen[e.text] < refused'[e.text]
                           ELSE delivered'[e.text] > 0
    <3>1. CASE j = k
      <4>1. batch[k].seen[m] \in Nat /\ batch[k].seen[m] <= refused[m]
        BY <1>t DEF OutboxInv, MarksOK, BatchRows, MaxSmsAttempts
      <4> QED BY <1>2, <1>3, <1>6, <1>7, <1>t, <2>3, <3>1, <4>1
    <3>2. CASE j # k
      <4>1. e \in batch[j].sending /\ batch'[j] = batch[j] /\ e.text \in Messages
        BY <1>6, <1>t, <2>3, <3>2 DEF BatchRows, SmsCalls
      <4>2. batch[j].seen[e.text] \in Nat
        BY <1>t, <4>1 DEF BatchRows, MaxSmsAttempts
      <4> QED BY <1>7, <1>t, <4>1, <4>2 DEF OutboxInv, MarksOK
    <3> QED BY <3>1, <3>2
  <2> QED BY <2>1, <2>2, <2>3 DEF MarksOK
<1>11. ASSUME overlaps' = 0 PROVE ApartOK'
  <2>1. ApartOK
    BY <1>0, <1>11 DEF OutboxInv
  <2>2. /\ Busy(k) /\ jobLock = k
        /\ \A j \in Cycles : j # k => batch[j] = NoBatch /\ batch'[j] = NoBatch
    BY <1>0, <1>6, <2>1, IdleBatch DEF ApartOK, Busy
  <2>3. \A n \in Messages : ~Carried(n)
    BY <1>0, <2>2, IdleBatch DEF Carried
  <2>4. \A n \in Messages : Carried(n)' <=> (n = m /\ ~failed)
    <3>1. \A n \in Messages : Carried(n)' <=> [text |-> n, failed |-> FALSE] \in batch'[k].sending
      BY <2>2, IdleBatch DEF Carried
    <3> QED BY <1>3, <1>5, <1>6, <3>1
  <2>5. Pending(m) /\ outbox[m].status # "SENT"
    BY <1>0, <2>1 DEF ApartOK, Pending
  <2>6. \A j \in Cycles : Busy(j)' => jobLock' = j
    BY <1>0, <2>2 DEF Busy
  <2>7. \A j \in Cycles :
          /\ \A n \in batch'[j].left : Pending(n)' /\ \A e \in batch'[j].sending : e.text # n
          /\ \A e \in batch'[j].sending : Pending(e.text)'
    BY <1>0, <1>2, <1>3, <1>6, <2>1, <2>2, <2>5, IdleBatch DEF ApartOK, Pending
  <2>8. \A n \in Messages :
          /\ Carried(n)' => delivered'[n] = unmarked'[n] + 1
          /\ ~Carried(n)' /\ outbox'[n].status # "SENT" => delivered'[n] = unmarked'[n]
          /\ delivered'[n] <= unmarked'[n] + 1
    BY <1>0, <1>7, <1>t, <2>1, <2>3, <2>4, <2>5 DEF ApartOK
  <2> QED BY <2>6, <2>7, <2>8 DEF ApartOK
<1> QED BY <1>8, <1>9, <1>10, <1>11 DEF OutboxInv

\* What is left of a batch when its call is answered.
LEMMA RestIs ==
  ASSUME OutboxTypeOK, NEW k \in Cycles
  PROVE  /\ Rest(k) \in BatchRows
         /\ Rest(k).sending = {} /\ Rest(k).left = batch[k].left
         /\ \A m \in Messages : Rest(k).seen[m] = 0 \/ Rest(k).seen[m] = batch[k].seen[m]
         /\ Rest(k).left # {} => Rest(k).seen = batch[k].seen
         /\ Rest(k) # NoBatch => batch[k].left # {}
<1>1. batch[k] \in BatchRows
  BY OutboxShape
<1>2. CASE batch[k].left = {}
  BY <1>2, IdleBatch DEF Rest
<1>3. CASE batch[k].left # {}
  BY <1>1, <1>3 DEF Rest, BatchRows
<1> QED BY <1>2, <1>3

\* A mark ends the call that it is about.
LEMMA MarkKeeps ==
  ASSUME OutboxInv, NEW k \in Cycles, NEW m \in Messages, MarkSent(k, m) \/ MarkFailed(k, m)
  PROVE  OutboxInv'
<1>t. /\ outbox \in [Messages -> SmsRows] /\ batch \in [Cycles -> BatchRows]
      /\ delivered \in [Messages -> Nat] /\ unmarked \in [Messages -> Nat]
      /\ refused \in [Messages -> Nat] /\ OutboxTypeOK /\ jobLock \in Cycles \cup {NoCycle}
  BY OutboxShape DEF OutboxInv
<1>1. /\ batch' = [batch EXCEPT ![k] = Rest(k)] /\ jobLock' = Unlocked(k)
      /\ UNCHANGED <<delivered, unmarked, refused, stops, overlaps>>
  BY DEF MarkSent, MarkFailed
<1>2. PICK failed \in BOOLEAN :
        /\ [text |-> m, failed |-> failed] \in batch[k].sending
        /\ failed => MarkFailed(k, m)
        /\ ~failed => MarkSent(k, m)
  BY DEF MarkSent, MarkFailed
<1> DEFINE call == [text |-> m, failed |-> failed]
           tries == batch[k].seen[m] + 1
<1>3. /\ call \in batch[k].sending /\ call.text = m /\ call.failed = failed
      /\ \A n \in Messages : ([text |-> n, failed |-> FALSE] = call) <=> (n = m /\ ~failed)
  BY <1>2
<1> HIDE DEF call
<1>4. /\ batch' \in [Cycles -> BatchRows]
      /\ batch'[k] = Rest(k)
      /\ \A j \in Cycles : j # k => batch'[j] = batch[j]
  BY <1>t, <1>1, RestIs, BatchMoves
<1>5. /\ batch[k].seen[m] \in 0..MaxSmsAttempts /\ tries <= MaxSmsAttempts
      /\ failed => tries <= refused[m]
      /\ ~failed => delivered[m] > 0
  BY <1>3, <1>t DEF OutboxInv, BatchOK, MarksOK, BatchRows, MaxSmsAttempts
<1>6. /\ outbox' \in [Messages -> SmsRows]
      /\ \A n \in Messages : n # m => outbox'[n] = outbox[n]
      /\ ~failed => outbox'[m].status = "SENT" /\ outbox'[m].attempts = outbox[m].attempts
      /\ failed => /\ outbox'[m].attempts = tries
                   /\ outbox'[m].status =
                        IF tries >= MaxSmsAttempts THEN "FAILED" ELSE outbox[m].status
  <2>1. CASE failed
    <3>1. outbox' = [outbox EXCEPT
                      ![m].attempts = tries,
                      ![m].status = IF tries >= MaxSmsAttempts THEN "FAILED" ELSE @]
      BY <1>2, <2>1 DEF MarkFailed
    <3>2. tries \in 0..MaxSmsAttempts
      BY <1>5 DEF MaxSmsAttempts
    <3> HIDE DEF tries
    <3> QED BY <1>t, <2>1, <3>1, <3>2 DEF SmsRows
  <2>2. CASE ~failed
    <3>1. outbox' = [outbox EXCEPT ![m].status = "SENT"]
      BY <1>2, <2>2 DEF MarkSent
    <3> QED BY <1>t, <2>2, <3>1 DEF SmsRows
  <2> QED BY <2>1, <2>2
<1>7. OutboxTypeOK'
  <2>1. jobLock' \in Cycles \cup {NoCycle}
    BY <1>1, <1>t DEF Unlocked
  <2> QED BY <1>1, <1>4, <1>6, <1>t, <2>1 DEF OutboxTypeOK, SmsRows, BatchRows, SmsCalls
<1>8. BatchOK'
  <2>1. \A n \in Messages : Pending(n)' => outbox'[n].attempts < MaxSmsAttempts
    BY <1>5, <1>6, <1>t DEF OutboxInv, BatchOK, Pending, MaxSmsAttempts
  <2>2. \A j \in Cycles :
       /\ \A n \in batch'[j].left : batch'[j].seen[n] < MaxSmsAttempts
       /\ \A e \in batch'[j].sending : batch'[j].seen[e.text] < MaxSmsAttempts
       /\ \A e, f \in batch'[j].sending : e = f
    BY <1>4, <1>t, RestIs DEF OutboxInv, BatchOK
  <2> QED BY <2>1, <2>2 DEF BatchOK
<1>9. MarksOK'
  <2>1. \A n \in Messages :
          /\ outbox'[n].status = "SENT" => delivered'[n] > 0
          /\ outbox'[n].status = "FAILED" => refused'[n] >= MaxSmsAttempts
          /\ outbox'[n].attempts <= refused'[n]
    <3>1. \A n \in Messages :
          /\ outbox[n].status = "SENT" => delivered[n] > 0
          /\ outbox[n].status = "FAILED" => refused[n] >= MaxSmsAttempts
          /\ outbox[n].attempts <= refused[n]
      BY DEF OutboxInv, MarksOK
    <3>2. refused[m] \in Nat /\ tries \in Nat
      BY <1>t, <1>5 DEF MaxSmsAttempts
    <3> QED BY <1>1, <1>5, <1>6, <3>1, <3>2 DEF MaxSmsAttempts
  <2>2. \A j \in Cycles :
       /\ \A n \in Messages : batch'[j].seen[n] <= refused'[n]
       /\ \A e \in batch'[j].sending :
            IF e.failed THEN batch'[j].seen[e.text] < refused'[e.text]
                        ELSE delivered'[e.text] > 0
    BY <1>1, <1>4, <1>t, RestIs DEF OutboxInv, MarksOK
  <2> QED BY <2>1, <2>2 DEF MarksOK
<1>10. ASSUME overlaps' = 0 PROVE ApartOK'
  <2>1. ApartOK
    BY <1>1, <1>10 DEF OutboxInv
  <2>2. /\ Busy(k) /\ jobLock = k
        /\ \A j \in Cycles : j # k => batch[j] = NoBatch /\ batch'[j] = NoBatch
    BY <1>3, <1>4, <2>1, IdleBatch DEF ApartOK, Busy
  <2>3. \A n \in Messages : Carried(n) <=> (n = m /\ ~failed)
    <3>1. \A n \in Messages : Carried(n) <=> [text |-> n, failed |-> FALSE] \in batch[k].sending
      BY <2>2, IdleBatch DEF Carried
    <3>2. batch[k].sending = {call}
      BY <1>3 DEF OutboxInv, BatchOK
    <3> QED BY <1>3, <3>1, <3>2
  <2>4. \A j \in Cycles : batch'[j].sending = {}
    BY <1>4, <1>t, <2>2, IdleBatch, RestIs
  <2>5. \A n \in Messages : ~Carried(n)'
    BY <2>4 DEF Carried
  <2>6. Pending(m) /\ m \notin batch[k].left
    BY <1>3, <2>1 DEF ApartOK
  <2>7. \A j \in Cycles : Busy(j)' => jobLock' = j
    BY <1>1, <1>4, <1>t, <2>2, RestIs DEF Busy, Unlocked
  <2>8. \A j \in Cycles : \A n \in batch'[j].left : n # m /\ n \in Messages /\ Pending(n)'
    BY <1>4, <1>6, <1>t, <2>1, <2>2, <2>6, IdleBatch, RestIs DEF ApartOK, Pending, BatchRows
  <2>9. \A n \in Messages :
          /\ outbox'[n].status # "SENT" => delivered'[n] = unmarked'[n]
          /\ delivered'[n] <= unmarked'[n] + 1
    BY <1>1, <1>6, <1>t, <2>1, <2>3, <2>6 DEF ApartOK, Pending
  <2> QED BY <2>4, <2>5, <2>7, <2>8, <2>9 DEF ApartOK
<1> QED BY <1>7, <1>8, <1>9, <1>10 DEF OutboxInv

\* A server that stops loses the mark, not the count.
LEMMA StopKeeps ==
  ASSUME OutboxInv, NEW k \in Cycles, StopCycle(k)
  PROVE  OutboxInv'
<1>t. /\ outbox \in [Messages -> SmsRows] /\ batch \in [Cycles -> BatchRows]
      /\ delivered \in [Messages -> Nat] /\ unmarked \in [Messages -> Nat]
      /\ refused \in [Messages -> Nat] /\ OutboxTypeOK /\ jobLock \in Cycles \cup {NoCycle}
      /\ stops \in 0..MaxStops
  BY OutboxShape DEF OutboxInv
<1>1. /\ Busy(k) /\ stops < MaxStops /\ stops' = stops + 1
      /\ batch' = [batch EXCEPT ![k] = NoBatch]
      /\ jobLock' = IF jobLock = k THEN NoCycle ELSE jobLock
      /\ UNCHANGED <<outbox, delivered, refused, overlaps>>
  BY DEF StopCycle
<1>2. /\ unmarked' \in [Messages -> Nat]
      /\ \A m \in Messages : unmarked'[m] =
           IF [text |-> m, failed |-> FALSE] \in batch[k].sending
           THEN unmarked[m] + 1 ELSE unmarked[m]
  BY <1>t DEF StopCycle
<1>4. /\ batch' \in [Cycles -> BatchRows]
      /\ batch'[k] = NoBatch
      /\ \A j \in Cycles : j # k => batch'[j] = batch[j]
  BY <1>t, <1>1, IdleBatch, BatchMoves
<1>5. OutboxTypeOK'
  <2>1. jobLock' \in Cycles \cup {NoCycle} /\ stops' \in 0..MaxStops
    BY <1>1, <1>t, OutboxAssumption
  <2> QED BY <1>1, <1>2, <1>4, <1>t, <2>1 DEF OutboxTypeOK, BatchRows, SmsCalls
<1>6. BatchOK'
  BY <1>1, <1>4, IdleBatch DEF OutboxInv, BatchOK, Pending
<1>7. MarksOK'
  BY <1>1, <1>4, <1>t, IdleBatch DEF OutboxInv, MarksOK
<1>8. ASSUME overlaps' = 0 PROVE ApartOK'
  <2>1. ApartOK
    BY <1>1, <1>8 DEF OutboxInv
  <2>2. \A j \in Cycles : (j # k => batch[j] = NoBatch) /\ batch'[j] = NoBatch
    BY <1>1, <1>4, <2>1 DEF ApartOK, Busy
  <2>3. \A m \in Messages : ~Carried(m)'
    BY <2>2, IdleBatch DEF Carried
  <2>4. \A m \in Messages : Carried(m) <=> [text |-> m, failed |-> FALSE] \in batch[k].sending
    BY <2>2, IdleBatch DEF Carried
  <2>5. \A m \in Messages :
          /\ outbox'[m].status # "SENT" => delivered'[m] = unmarked'[m]
          /\ delivered'[m] <= unmarked'[m] + 1
    <3> SUFFICES ASSUME NEW m \in Messages
                 PROVE  /\ outbox[m].status # "SENT" => delivered[m] = unmarked'[m]
                        /\ delivered[m] <= unmarked'[m] + 1
      BY <1>1
    <3>1. unmarked'[m] = IF Carried(m) THEN unmarked[m] + 1 ELSE unmarked[m]
      BY <1>2, <2>4
    <3>2. /\ Carried(m) => delivered[m] = unmarked[m] + 1
          /\ ~Carried(m) /\ outbox[m].status # "SENT" => delivered[m] = unmarked[m]
          /\ delivered[m] <= unmarked[m] + 1
      BY <2>1 DEF ApartOK
    <3>3. delivered[m] \in Nat /\ unmarked[m] \in Nat
      BY <1>t
    <3> QED BY <3>1, <3>2, <3>3
  <2> QED BY <2>2, <2>3, <2>5, IdleBatch DEF ApartOK, Busy
<1> QED BY <1>5, <1>6, <1>7, <1>8 DEF OutboxInv

\* Every step keeps account of the texts.
LEMMA OutboxMoves == OutboxInv /\ [OutboxNext]_outboxVars => OutboxInv'
<1> SUFFICES ASSUME OutboxInv, [OutboxNext]_outboxVars PROVE OutboxInv'
  OBVIOUS
<1>1. ASSUME NEW k \in Cycles, StartCycle(k) PROVE OutboxInv'
  BY <1>1, StartKeeps
<1>2. ASSUME NEW k \in Cycles, NEW m \in Messages,
             SendSms(k, m) \/ MarkSent(k, m) \/ MarkFailed(k, m)
      PROVE  OutboxInv'
  BY <1>2, SendKeeps, MarkKeeps
<1>3. ASSUME NEW k \in Cycles, LoseLock(k) PROVE OutboxInv'
  <2>1. overlaps \in 0..MaxOverlaps /\ overlaps' \in 0..MaxOverlaps /\ overlaps' # 0
        /\ UNCHANGED <<outbox, batch, delivered, unmarked, refused, stops>>
        /\ jobLock' = NoCycle
    BY <1>3, OutboxShape, OutboxAssumption DEF LoseLock, OutboxInv
  <2> QED BY <2>1 DEF OutboxInv, OutboxTypeOK, BatchOK, MarksOK, Pending
<1>4. ASSUME NEW k \in Cycles, StopCycle(k) PROVE OutboxInv'
  BY <1>4, StopKeeps
<1>5. CASE UNCHANGED outboxVars
  <2>1. UNCHANGED <<outbox, jobLock, batch, delivered, unmarked, refused, stops, overlaps>>
    BY <1>5 DEF outboxVars
  <2>2. OutboxTypeOK' /\ BatchOK' /\ MarksOK'
    BY <2>1 DEF OutboxInv, OutboxTypeOK, BatchOK, MarksOK, Pending
  <2>3. overlaps' = 0 => ApartOK'
    BY <2>1 DEF OutboxInv, ApartOK, Busy, Pending, Carried
  <2> QED BY <2>2, <2>3 DEF OutboxInv
<1>6. CASE OutboxNext
  <2>1. PICK k \in Cycles : CycleStep(k) \/ LoseLock(k) \/ StopCycle(k)
    BY <1>6 DEF OutboxNext
  <2>2. CASE CycleStep(k)
    BY <1>1, <1>2, <2>2 DEF CycleStep
  <2> QED BY <1>3, <1>4, <2>1, <2>2
<1> QED BY <1>5, <1>6

\* What the invariant is for.
LEMMA OutboxGives == OutboxInv => TextsAreAccountedFor
BY DEF OutboxInv, MarksOK, ApartOK, TextsAreAccountedFor, OutboxTypeOK

\* A text marked SENT was delivered, one marked FAILED was refused as often as
\* is allowed, and cycles that do not overlap deliver a text again only after a
\* delivery that was not recorded (sendPendingSms, withJobLock).
THEOREM TextsAreCounted == OutboxSpec => []TextsAreAccountedFor
BY OutboxAtFirst, OutboxMoves, OutboxGives, PTL DEF OutboxSpec

\* As long as cycles do not overlap, a cycle holds the attempts as they are.
CopyOK ==
  overlaps = 0 =>
    \A k \in Cycles :
      /\ \A m \in batch[k].left : batch[k].seen[m] = outbox[m].attempts
      /\ \A e \in batch[k].sending : batch[k].seen[e.text] = outbox[e.text].attempts

\* At first no cycle has a copy.
LEMMA CopyAtFirst == OutboxInit => CopyOK
BY DEF OutboxInit, CopyOK, NoBatch

\* A cycle that is at work, or may start, is alone.
LEMMA Alone ==
  ASSUME OutboxInv, overlaps = 0, NEW k \in Cycles, Busy(k) \/ jobLock = NoCycle
  PROVE  /\ \A j \in Cycles : j # k => batch[j].sending = {} /\ batch[j].left = {}
         /\ Sending = batch[k].sending
<1>1. \A j \in Cycles : j # k => batch[j] = NoBatch
  BY OutboxAssumption DEF OutboxInv, ApartOK, Busy
<1>2. \A j \in Cycles : j # k => batch[j].sending = {} /\ batch[j].left = {}
  BY <1>1 DEF NoBatch
<1>3. \A e : e \in Sending <=> e \in batch[k].sending
  BY <1>2 DEF Sending
<1> QED BY <1>2, <1>3

\* The same of the calls after a step of one cycle.
LEMMA AloneThen ==
  ASSUME OutboxInv, overlaps = 0, NEW k \in Cycles, Busy(k) \/ jobLock = NoCycle,
         \A j \in Cycles : j # k => batch'[j] = batch[j]
  PROVE  Sending' = batch'[k].sending
<1>1. \A j \in Cycles : j # k => batch'[j].sending = {}
  BY Alone
<1>2. \A e : e \in Sending' <=> e \in batch'[k].sending
  BY <1>1 DEF Sending
<1> QED BY <1>2


\* A copy stays right as long as the lock keeps other cycles away.
LEMMA CopyStays == OutboxInv /\ CopyOK /\ [OutboxNext]_outboxVars => CopyOK'
<1> SUFFICES ASSUME OutboxInv, CopyOK, [OutboxNext]_outboxVars, overlaps' = 0
             PROVE  \A k \in Cycles :
                      /\ \A m \in batch'[k].left : batch'[k].seen[m] = outbox'[m].attempts
                      /\ \A e \in batch'[k].sending : batch'[k].seen[e.text] = outbox'[e.text].attempts
  BY DEF CopyOK
<1> DEFINE ok(k) == /\ \A m \in batch'[k].left : batch'[k].seen[m] = outbox'[m].attempts
                    /\ \A e \in batch'[k].sending : batch'[k].seen[e.text] = outbox'[e.text].attempts
<1>t. /\ outbox \in [Messages -> SmsRows] /\ batch \in [Cycles -> BatchRows]
      /\ OutboxTypeOK /\ overlaps \in Nat
  BY OutboxShape, OutboxAssumption DEF OutboxInv
<1>1. ASSUME NEW k \in Cycles, StartCycle(k) PROVE \A j \in Cycles : ok(j)
  <2>1. overlaps = 0 /\ jobLock = NoCycle /\ outbox' = outbox
    BY <1>1 DEF StartCycle
  <2>2. /\ batch'[k].sending = {}
        /\ \A m \in batch'[k].left : batch'[k].seen[m] = outbox[m].attempts
        /\ \A j \in Cycles : j # k => batch'[j] = batch[j]
    BY <1>1, <1>t DEF StartCycle
  <2> QED BY <2>1, <2>2, Alone
<1>2. ASSUME NEW k \in Cycles, NEW m \in Messages, SendSms(k, m) PROVE \A j \in Cycles : ok(j)
  <2>1. /\ m \in batch[k].left /\ overlaps = 0 /\ outbox' = outbox
        /\ batch[k].sending = {}
    BY <1>2 DEF SendSms
  <2>2. PICK failed \in BOOLEAN :
          batch' = [batch EXCEPT ![k].sending = {[text |-> m, failed |-> failed]},
                                 ![k].left = @ \ {m}]
    BY <1>2 DEF SendSms
  <2>3. /\ batch'[k].left = batch[k].left \ {m} /\ batch'[k].seen = batch[k].seen
        /\ batch'[k].sending = {[text |-> m, failed |-> failed]}
        /\ \A j \in Cycles : j # k => batch'[j] = batch[j]
    BY <1>t, <2>2 DEF BatchRows
  <2>4. \A j \in Cycles : j # k => ok(j)
    BY <2>1, <2>3 DEF CopyOK
  <2> QED BY <2>1, <2>3, <2>4 DEF CopyOK
<1>3. ASSUME NEW k \in Cycles, NEW m \in Messages, MarkSent(k, m) \/ MarkFailed(k, m)
      PROVE  \A j \in Cycles : ok(j)
  <2>1. PICK failed \in BOOLEAN :
          /\ [text |-> m, failed |-> failed] \in batch[k].sending
          /\ batch' = [batch EXCEPT ![k] = Rest(k)] /\ overlaps = 0
          /\ \A n \in Messages : n # m => outbox'[n] = outbox[n]
    BY <1>3, <1>t DEF MarkSent, MarkFailed
  <2>2. Busy(k)
    BY <2>1, IdleBatch DEF Busy
  <2>3. \A j \in Cycles : j # k => batch'[j].sending = {} /\ batch'[j].left = {}
    BY <2>1, <2>2, Alone
  <2>4. /\ batch'[k].sending = {} /\ batch'[k].left = batch[k].left
        /\ batch'[k].left # {} => batch'[k].seen = batch[k].seen
    BY <1>t, <2>1, RestIs
  <2>5. m \notin batch[k].left
    BY <2>1 DEF OutboxInv, ApartOK
  <2>6. batch[k].left \subseteq Messages
    BY <1>t DEF BatchRows
  <2>7. ok(k)
    BY <2>1, <2>4, <2>5, <2>6 DEF CopyOK
  <2> QED BY <2>3, <2>7
<1>4. ASSUME NEW k \in Cycles, LoseLock(k) PROVE FALSE
  BY <1>4, <1>t DEF LoseLock
<1>5. ASSUME NEW k \in Cycles, StopCycle(k) PROVE \A j \in Cycles : ok(j)
  <2>1. overlaps = 0 /\ outbox' = outbox /\ batch' = [batch EXCEPT ![k] = NoBatch]
    BY <1>5 DEF StopCycle
  <2>2. batch'[k] = NoBatch /\ \A j \in Cycles : j # k => batch'[j] = batch[j]
    BY <1>t, <2>1
  <2> QED BY <2>1, <2>2, IdleBatch DEF CopyOK
<1>6. CASE UNCHANGED outboxVars
  BY <1>6 DEF outboxVars, CopyOK
<1> QED BY <1>1, <1>2, <1>3, <1>4, <1>5, <1>6 DEF OutboxNext, CycleStep

\* Every step of the cycles is one of the delivery or leaves it as it is; it is
\* void once the lock was lost.
LEMMA DeliveryIsKept ==
  ASSUME OutboxInv, CopyOK, [OutboxNext]_outboxVars
  PROVE  [Delivery!Next]_(Delivery!all)
<1> DEFINE step == [Delivery!Next]_(Delivery!all)
           S == [m \in Messages |-> outbox[m].status]
           T == [m \in Messages |-> outbox[m].attempts]
<1>t. /\ outbox \in [Messages -> SmsRows] /\ batch \in [Cycles -> BatchRows]
      /\ unmarked \in [Messages -> Nat]
      /\ OutboxTypeOK /\ overlaps \in Nat
  BY OutboxShape, OutboxAssumption DEF OutboxInv
<1>a. CASE overlaps' # 0
  BY <1>a DEF Delivery!Next
<1>b. CASE overlaps' = 0
  <2>0. ASSUME NEW k \in Cycles, LoseLock(k) PROVE FALSE
    BY <1>b, <2>0, <1>t DEF LoseLock
  <2>1. ASSUME NEW k \in Cycles, StartCycle(k) PROVE step
    <3>1. overlaps = 0 /\ jobLock = NoCycle /\ ~Busy(k)
          /\ UNCHANGED <<outbox, delivered, unmarked, overlaps>>
      BY <1>b, <2>1 DEF StartCycle
    <3>2. batch'[k].sending = {} /\ \A j \in Cycles : j # k => batch'[j] = batch[j]
      BY <2>1, <1>t DEF StartCycle
    <3>3. batch[k].sending = {}
      BY <3>1, IdleBatch DEF Busy
    <3>4. Sending' = Sending
      <4>1. Sending = {}
        BY <3>1, <3>3, Alone
      <4>2. Sending' = {}
        BY <3>1, <3>2, AloneThen
      <4> QED BY <4>1, <4>2
    <3> QED BY <3>1, <3>4 DEF Delivery!all
  <2>2. ASSUME NEW k \in Cycles, NEW m \in Messages, SendSms(k, m) PROVE step
    <3>1. /\ m \in batch[k].left /\ batch[k].sending = {}
          /\ overlaps = 0 /\ UNCHANGED <<outbox, overlaps>>
      BY <1>b, <2>2 DEF SendSms
    <3>2. PICK reached \in BOOLEAN, failed \in BOOLEAN :
            /\ reached \/ failed
            /\ batch' = [batch EXCEPT ![k].sending = {[text |-> m, failed |-> failed]},
                                      ![k].left = @ \ {m}]
            /\ delivered' = IF reached THEN [delivered EXCEPT ![m] = @ + 1] ELSE delivered
            /\ unmarked' = IF reached /\ failed THEN [unmarked EXCEPT ![m] = @ + 1] ELSE unmarked
      BY <2>2 DEF SendSms
    <3>3. /\ batch'[k].sending = {[text |-> m, failed |-> failed]}
          /\ \A j \in Cycles : j # k => batch'[j] = batch[j]
      BY <1>t, <3>2 DEF BatchRows
    <3>4. Busy(k) /\ Pending(m)
      BY <3>1, IdleBatch DEF Busy, OutboxInv, ApartOK
    <3>5. Sending = {} /\ Sending' = {[text |-> m, failed |-> failed]}
      BY <3>1, <3>3, <3>4, Alone, AloneThen
    <3>6. Delivery!Try(m, reached, failed)
      BY <3>1, <3>2, <3>4, <3>5 DEF Delivery!Try, Pending
    <3> QED BY <3>6 DEF Delivery!Next
  <2>3. ASSUME NEW k \in Cycles, NEW m \in Messages, NEW failed \in BOOLEAN,
               [text |-> m, failed |-> failed] \in batch[k].sending,
               batch' = [batch EXCEPT ![k] = Rest(k)], overlaps = 0
        PROVE  Sending = {[text |-> m, failed |-> failed]} /\ Sending' = {}
    <3>1. Busy(k)
      BY <2>3, IdleBatch DEF Busy
    <3>2. batch'[k].sending = {} /\ \A j \in Cycles : j # k => batch'[j] = batch[j]
      BY <1>t, <2>3, RestIs
    <3>3. batch[k].sending = {[text |-> m, failed |-> failed]}
      BY <2>3 DEF OutboxInv, BatchOK
    <3> QED BY <2>3, <3>1, <3>2, <3>3, Alone, AloneThen
  <2>4. ASSUME NEW k \in Cycles, NEW m \in Messages, MarkSent(k, m) PROVE step
    <3>1. /\ [text |-> m, failed |-> FALSE] \in batch[k].sending
          /\ batch' = [batch EXCEPT ![k] = Rest(k)] /\ overlaps = 0
          /\ outbox' = [outbox EXCEPT ![m].status = "SENT"]
          /\ UNCHANGED <<delivered, unmarked, overlaps>>
      BY <1>b, <2>4 DEF MarkSent
    <3>2. Sending = {[text |-> m, failed |-> FALSE]} /\ Sending' = {}
      BY <2>3, <3>1
    <3>3. S' = [S EXCEPT ![m] = "SENT"] /\ T' = T
      BY <1>t, <3>1 DEF SmsRows
    <3>4. Delivery!RecordSent(m)
      BY <3>1, <3>2, <3>3 DEF Delivery!RecordSent
    <3> QED BY <3>4 DEF Delivery!Next
  <2>5. ASSUME NEW k \in Cycles, NEW m \in Messages, MarkFailed(k, m) PROVE step
    <3> DEFINE n == outbox[m].attempts + 1
    <3>1. /\ [text |-> m, failed |-> TRUE] \in batch[k].sending
          /\ batch' = [batch EXCEPT ![k] = Rest(k)] /\ overlaps = 0
          /\ UNCHANGED <<delivered, unmarked, overlaps>>
      BY <1>b, <2>5 DEF MarkFailed
    <3>2. Sending = {[text |-> m, failed |-> TRUE]} /\ Sending' = {}
      BY <2>3, <3>1
    <3>3. batch[k].seen[m] = outbox[m].attempts /\ outbox[m].attempts < MaxSmsAttempts
      BY <3>1 DEF CopyOK, OutboxInv, BatchOK
    <3>4. outbox' = [outbox EXCEPT ![m].attempts = n,
                                   ![m].status = IF n = MaxSmsAttempts THEN "FAILED" ELSE @]
      <4>1. n \in Nat /\ (n >= MaxSmsAttempts <=> n = MaxSmsAttempts)
        BY <1>t, <3>3 DEF SmsRows, MaxSmsAttempts
      <4> QED BY <2>5, <3>3, <4>1 DEF MarkFailed
    <3>5. T' = [T EXCEPT ![m] = @ + 1] /\ T'[m] = n
      BY <1>t, <3>4 DEF SmsRows
    <3>6. S' = IF n = MaxSmsAttempts THEN [S EXCEPT ![m] = "FAILED"] ELSE S
      BY <1>t, <3>4 DEF SmsRows
    <3> HIDE DEF n
    <3>7. Delivery!RecordFailure(m)
      BY <3>1, <3>2, <3>5, <3>6 DEF Delivery!RecordFailure
    <3> QED BY <3>7 DEF Delivery!Next
  <2>6. ASSUME NEW k \in Cycles, StopCycle(k) PROVE step
    <3>1. /\ Busy(k) /\ overlaps = 0 /\ batch' = [batch EXCEPT ![k] = NoBatch]
          /\ unmarked' = [m \in Messages |->
               IF [text |-> m, failed |-> FALSE] \in batch[k].sending
               THEN unmarked[m] + 1 ELSE unmarked[m]]
          /\ UNCHANGED <<outbox, delivered, overlaps>>
      BY <1>b, <2>6 DEF StopCycle
    <3>2. batch'[k].sending = {} /\ \A j \in Cycles : j # k => batch'[j] = batch[j]
      BY <1>t, <3>1, IdleBatch
    <3>3. Sending = batch[k].sending /\ Sending' = {}
      BY <3>1, <3>2, Alone, AloneThen
    <3>4. CASE Sending = {}
      <4>1. unmarked' = unmarked
        BY <1>t, <3>1, <3>3, <3>4
      <4> QED BY <3>1, <3>3, <3>4, <4>1 DEF Delivery!all
    <3>5. CASE Sending # {}
      <4>1. Delivery!Forget
        BY <3>1, <3>3, <3>5 DEF Delivery!Forget
      <4> QED BY <4>1 DEF Delivery!Next
    <3> QED BY <3>4, <3>5
  <2>7. CASE UNCHANGED outboxVars
    BY <2>7 DEF outboxVars, Delivery!all, Sending
  <2> QED BY <2>0, <2>1, <2>2, <2>4, <2>5, <2>6, <2>7 DEF OutboxNext, CycleStep
<1> QED BY <1>a, <1>b

\* At first every text waits and nothing is at work.
LEMMA DeliveryBegins == OutboxInit => Delivery!Init
BY DEF OutboxInit, Delivery!Init, Sending, NoBatch

\* The queue keeps its promise as long as the lock keeps cycles apart: a text is sent
\* only while it waits, each recorded failure counts once, and SENT and FAILED are
\* final, for any number of cycles, texts and stops (sendPendingSms, withJobLock).
THEOREM OutboxIsDelivery == OutboxSpec => DeliverySpec
BY DeliveryBegins, CopyAtFirst, CopyStays, OutboxAtFirst, OutboxMoves, DeliveryIsKept, PTL
   DEF OutboxSpec, DeliverySpec, Delivery!Spec

-----------------------------------------------------------------------------
\* Digital and Ads.

BillRows    == [status : BillStatus, checkout : Outcomes \cup {"none", "open"}, by : Creators]
ReportRows  == [at : {"idle", "read"}, bill : SUBSET BillIds, says : Outcomes, bound : BOOLEAN]
TapRows     == [at : {"idle", "bill", "direct", "write", "recover"}, again : BOOLEAN,
                bill : SUBSET BillIds, paid : BOOLEAN]
AdCallRows  == [op : {"idle", "bill", "show", "telegram", "cancel"},
                by : Creators, pending : SUBSET BillIds, paid : SUBSET BillIds]

\* A payment is recorded as paid, or as returned after that, only once settled.
PaidOK ==
  \A p \in BillIds : bill[p].status \in {"PAID", "REFUND_PENDING", "REFUNDED"} => paidBills # {}

BillsInv == BillsTypeOK /\ PaidOK

\* A retry that goes on with a paid payment has seen one.
TapsOK == \A t \in Taps : tap[t].paid => paidBills # {}

DigitalInv == DigitalTypeOK /\ PaidOK /\ TapsOK /\ OwnedWasPaid

\* An admin who is about to show a campaign has seen a payment, and publishes by
\* hand after a review only.
AdCallsOK ==
  \A c \in AdCalls :
    /\ adCall[c].op \in {"show", "telegram"} => paidBills # {}
    /\ adCall[c].op = "telegram" => reviewed

AdsInv == AdsTypeOK /\ PaidOK /\ AdCallsOK /\ ShownIsEarned

\* The types, row by row.
LEMMA BillsShape ==
  BillsTypeOK <=> /\ bill \in [BillIds -> BillRows]
                  /\ report \in [BillReports -> ReportRows]
                  /\ paidBills \subseteq BillIds
BY DEF BillsTypeOK, BillRows, ReportRows

\* There is no payment at first.
LEMMA BillsAtFirst == BillsInit => BillsInv
<1> SUFFICES ASSUME BillsInit PROVE BillsInv
  OBVIOUS
<1>1. NoBill \in BillRows /\ NoBill.status = "NONE" /\ NoReport \in ReportRows
  BY DEF NoBill, BillRows, BillStatus, Creators, NoReport, ReportRows, Outcomes
<1> QED BY <1>1, BillsShape DEF BillsInit, BillsInv, PaidOK

\* One payment changes, and its status says paid only if one was settled.
LEMMA BillChanges ==
  ASSUME BillsInv, NEW p \in BillIds, NEW row \in BillRows, bill' = [bill EXCEPT ![p] = row],
         report' \in [BillReports -> ReportRows],
         paidBills' \subseteq BillIds, paidBills \subseteq paidBills',
         row.status \in {"PAID", "REFUND_PENDING", "REFUNDED"} => paidBills' # {}
  PROVE  BillsInv'
BY BillsShape DEF BillsInv, BillsTypeOK, BillRows, ReportRows, PaidOK

\* A new payment is not paid.
LEMMA CreateKeeps ==
  ASSUME BillsInv, NEW p \in BillIds, NEW by \in Creators, CreateBill(p, by)
  PROVE  BillsInv' /\ paidBills' = paidBills
<1> DEFINE row == [status |-> "PENDING", checkout |-> "none", by |-> by]
<1>1. row \in BillRows /\ row.status = "PENDING"
  BY DEF BillRows, BillStatus
<1>2. bill' = [bill EXCEPT ![p] = row] /\ UNCHANGED <<report, paidBills>>
  BY DEF CreateBill
<1>3. report \in [BillReports -> ReportRows] /\ paidBills \subseteq BillIds
  BY BillsShape DEF BillsInv
<1> HIDE DEF row
<1> QED BY <1>1, <1>2, <1>3, BillChanges

\* Checkouts, answers of the provider and refunds settle nothing.
LEMMA BillStepsKeep ==
  ASSUME BillsInv, BillSteps
  PROVE  BillsInv' /\ paidBills' = paidBills
<1>t. /\ bill \in [BillIds -> BillRows] /\ report \in [BillReports -> ReportRows]
      /\ paidBills \subseteq BillIds
  BY BillsShape DEF BillsInv
<1>1. ASSUME NEW p \in BillIds, OpenCheckout(p) \/ ProviderAnswers(p) \/ RefundEnds(p)
      PROVE  BillsInv' /\ paidBills' = paidBills
  <2>1. report' = report /\ paidBills' = paidBills
    BY <1>1 DEF OpenCheckout, ProviderAnswers, RefundEnds
  <2>2. PICK row \in BillRows :
          /\ bill' = [bill EXCEPT ![p] = row]
          /\ row.status \in {"PAID", "REFUND_PENDING", "REFUNDED"} =>
               bill[p].status \in {"PAID", "REFUND_PENDING", "REFUNDED"}
    <3>1. CASE OpenCheckout(p)
      <4> DEFINE row == [bill[p] EXCEPT !.status = "PROCESSING", !.checkout = "open"]
      <4>1. row \in BillRows /\ row.status = "PROCESSING"
        BY <1>t DEF BillRows, BillStatus
      <4>2. bill' = [bill EXCEPT ![p] = row]
        BY <1>t, <3>1 DEF OpenCheckout, BillRows
      <4> QED BY <4>1, <4>2
    <3>2. CASE ProviderAnswers(p)
      <4>1. PICK outcome \in Outcomes : bill' = [bill EXCEPT ![p].checkout = outcome]
        BY <3>2 DEF ProviderAnswers
      <4> DEFINE row == [bill[p] EXCEPT !.checkout = outcome]
      <4>2. row \in BillRows /\ row.status = bill[p].status
        BY <1>t DEF BillRows
      <4>3. bill' = [bill EXCEPT ![p] = row]
        BY <1>t, <4>1 DEF BillRows
      <4> QED BY <4>2, <4>3
    <3>3. CASE RefundEnds(p)
      <4>1. PICK to \in {"REFUNDED", "PAID"} : bill' = [bill EXCEPT ![p].status = to]
        BY <3>3 DEF RefundEnds
      <4> DEFINE row == [bill[p] EXCEPT !.status = to]
      <4>2. row \in BillRows /\ bill[p].status = "REFUND_PENDING"
        BY <1>t, <3>3 DEF BillRows, BillStatus, RefundEnds
      <4>3. bill' = [bill EXCEPT ![p] = row]
        BY <1>t, <4>1 DEF BillRows
      <4> QED BY <4>2, <4>3
    <3> QED BY <1>1, <3>1, <3>2, <3>3
  <2>3. row.status \in {"PAID", "REFUND_PENDING", "REFUNDED"} => paidBills' # {}
    BY <2>1, <2>2 DEF BillsInv, PaidOK
  <2> QED BY <1>t, <2>1, <2>2, <2>3, BillChanges
<1>2. ASSUME NEW n \in BillReports, SettlementEnds(n)
      PROVE  BillsInv' /\ paidBills' = paidBills
  <2>1. NoReport \in ReportRows
    BY DEF NoReport, ReportRows, Outcomes
  <2> QED BY <1>2, <1>t, <2>1 DEF SettlementEnds, BillsInv, BillsTypeOK, PaidOK, ReportRows
<1> QED BY <1>1, <1>2 DEF BillSteps

\* A settlement that reads changes no payment.
LEMMA ReadBillKeeps ==
  ASSUME BillsInv, NEW n \in BillReports, NEW p \in BillIds, NEW bound \in BOOLEAN,
         ReadBill(n, p, bound)
  PROVE  BillsInv' /\ paidBills' = paidBills
<1>1. PICK says \in Outcomes :
        report' = [report EXCEPT
                    ![n] = [at |-> "read", bill |-> {p}, says |-> says, bound |-> bound]]
  BY DEF ReadBill
<1>2. [at |-> "read", bill |-> {p}, says |-> says, bound |-> bound] \in ReportRows
  BY DEF ReportRows
<1>3. report' \in [BillReports -> ReportRows]
  BY <1>1, <1>2, BillsShape DEF BillsInv
<1>4. UNCHANGED <<bill, paidBills>>
  BY DEF ReadBill
<1> QED BY <1>3, <1>4 DEF BillsInv, BillsTypeOK, PaidOK, ReportRows

\* A settlement that writes PAID is remembered.
LEMMA WriteBillKeeps ==
  ASSUME BillsInv, NEW n \in BillReports, NEW p \in BillIds, WriteBill(n, p)
  PROVE  /\ BillsInv' /\ paidBills \subseteq paidBills'
         /\ report[n].says = "PAID" => paidBills' # {}
<1>t. /\ bill \in [BillIds -> BillRows] /\ report \in [BillReports -> ReportRows]
      /\ paidBills \subseteq BillIds
  BY BillsShape DEF BillsInv
<1> DEFINE row == [bill[p] EXCEPT !.status = report[n].says]
<1>1. row \in BillRows /\ row.status = report[n].says
  BY <1>t DEF BillRows, BillStatus, ReportRows, Outcomes
<1>2. bill' = [bill EXCEPT ![p] = row]
  BY <1>t DEF WriteBill, BillRows
<1>3. /\ paidBills' \subseteq BillIds /\ paidBills \subseteq paidBills'
      /\ report[n].says = "PAID" => paidBills' # {}
  BY <1>t DEF WriteBill
<1>4. NoReport \in ReportRows
  BY DEF NoReport, ReportRows, Outcomes
<1>5. report' \in [BillReports -> ReportRows]
  BY <1>t, <1>4 DEF WriteBill
<1>6. row.status \in {"PAID", "REFUND_PENDING", "REFUNDED"} => row.status = "PAID"
  BY <1>1, <1>t DEF ReportRows, Outcomes
<1> HIDE DEF row
<1> QED BY <1>1, <1>2, <1>3, <1>5, <1>6, BillChanges

\* A step that leaves the purchase and the taps, and forgets no payment.
LEMMA DigitalAside ==
  ASSUME DigitalInv, BillsInv', paidBills \subseteq paidBills', UNCHANGED <<purchase, tap>>
  PROVE  DigitalInv'
BY DEF DigitalInv, DigitalTypeOK, BillsInv, TapsOK, OwnedWasPaid

\* Nothing is owned at first.
LEMMA DigitalAtFirst == DigitalInit => DigitalInv
<1> SUFFICES ASSUME DigitalInit PROVE DigitalInv
  OBVIOUS
<1>1. NoTap \in TapRows /\ NoTap.paid = FALSE
  BY DEF NoTap, TapRows
<1> QED BY <1>1, BillsAtFirst
        DEF DigitalInit, DigitalInv, DigitalTypeOK, BillsInv, TapsOK, OwnedWasPaid, TapRows

\* One tap moves on.
LEMMA TapMoves ==
  ASSUME DigitalInv, NEW t \in Taps, NEW to \in TapRows, TapGoes(t, to),
         BillsInv', paidBills' = paidBills, to.paid => paidBills # {},
         purchase' \in [status : {"NONE", "PENDING", "COMPLETED"}, payment : SUBSET BillIds],
         purchase'.status = "COMPLETED" => paidBills # {}
  PROVE  DigitalInv'
<1>1. tap \in [Taps -> TapRows]
  BY DEF DigitalInv, DigitalTypeOK, TapRows
<1>2. tap' \in [Taps -> TapRows] /\ \A u \in Taps : u # t => tap'[u] = tap[u]
  BY <1>1 DEF TapGoes
<1>3. tap'[t] = to
  BY <1>1 DEF TapGoes
<1>4. TapsOK'
  BY <1>2, <1>3 DEF DigitalInv, TapsOK
<1> QED BY <1>2, <1>4 DEF DigitalInv, DigitalTypeOK, BillsInv, TapRows, OwnedWasPaid

\* Every step of the buyer, the provider and the settlements keeps it.
LEMMA DigitalMoves == DigitalInv /\ [DigitalNext]_digitalVars => DigitalInv'
<1> SUFFICES ASSUME DigitalInv, [DigitalNext]_digitalVars PROVE DigitalInv'
  OBVIOUS
<1> DEFINE Purchases == [status : {"NONE", "PENDING", "COMPLETED"}, payment : SUBSET BillIds]
<1>t. /\ BillsInv /\ tap \in [Taps -> TapRows] /\ purchase \in Purchases
      /\ bill \in [BillIds -> BillRows] /\ report \in [BillReports -> ReportRows]
  BY BillsShape DEF DigitalInv, DigitalTypeOK, BillsInv, TapRows
<1>n. NoTap \in TapRows /\ NoTap.paid = FALSE
  BY DEF NoTap, TapRows
<1>b. ASSUME UNCHANGED billVars PROVE BillsInv' /\ paidBills' = paidBills
  BY <1>b, <1>t DEF billVars, BillsInv, BillsTypeOK, PaidOK
<1>p. purchase.status = "COMPLETED" => paidBills # {}
  BY DEF DigitalInv, OwnedWasPaid
<1>1. ASSUME NEW t \in Taps, ReadPurchase(t) \/ ReadDuplicate(t) PROVE DigitalInv'
  <2>1. UNCHANGED <<billVars, purchase>>
    BY <1>1 DEF ReadPurchase, ReadDuplicate
  <2>2. PICK to \in TapRows : TapGoes(t, to) /\ (to.paid => paidBills # {})
    <3>1. CASE \/ TapGoes(t, [NoTap EXCEPT !.at = "bill", !.again = TRUE])
               \/ TapGoes(t, [NoTap EXCEPT !.at = "bill"])
               \/ TapGoes(t, [NoTap EXCEPT !.at = "direct"])
      <4>1. /\ [NoTap EXCEPT !.at = "bill", !.again = TRUE] \in TapRows
            /\ [NoTap EXCEPT !.at = "bill"] \in TapRows
            /\ [NoTap EXCEPT !.at = "direct"] \in TapRows
            /\ [NoTap EXCEPT !.at = "bill", !.again = TRUE].paid = FALSE
            /\ [NoTap EXCEPT !.at = "bill"].paid = FALSE
            /\ [NoTap EXCEPT !.at = "direct"].paid = FALSE
        BY DEF NoTap, TapRows
      <4> QED BY <3>1, <4>1
    <3>2. CASE \E p \in Resumable :
                 TapGoes(t, [NoTap EXCEPT !.at = "recover", !.bill = {p},
                                          !.paid = (bill[p].status = "PAID")])
      <4>1. PICK p \in Resumable :
              TapGoes(t, [NoTap EXCEPT !.at = "recover", !.bill = {p},
                                       !.paid = (bill[p].status = "PAID")])
        BY <3>2
      <4> DEFINE to == [NoTap EXCEPT !.at = "recover", !.bill = {p},
                                     !.paid = (bill[p].status = "PAID")]
      <4>2. p \in BillIds /\ (bill[p].status = "PAID" => paidBills # {})
        BY <1>t DEF Resumable, BillsInv, PaidOK
      <4>3. to \in TapRows /\ to.paid = (bill[p].status = "PAID")
        BY <4>2 DEF NoTap, TapRows
      <4> QED BY <4>1, <4>2, <4>3
    <3> QED BY <1>1, <3>1, <3>2 DEF ReadPurchase, ReadDuplicate
  <2> QED BY <1>b, <1>p, <1>t, <2>1, <2>2, TapMoves
<1>2. ASSUME NEW t \in Taps, BillPurchase(t) PROVE DigitalInv'
  <2>1. PICK p \in ProductBills :
          /\ CreateBill(p, "owner")
          /\ TapGoes(t, IF tap[t].at = "direct" THEN NoTap
                        ELSE [tap[t] EXCEPT !.at = "write", !.bill = {p}])
    BY <1>2 DEF BillPurchase
  <2>2. p \in BillIds /\ purchase' = purchase
    BY <1>2, ProductAssumption DEF BillPurchase
  <2>3. BillsInv' /\ paidBills' = paidBills
    BY <1>t, <2>1, <2>2, CreateKeeps DEF Creators
  <2>4. /\ [tap[t] EXCEPT !.at = "write", !.bill = {p}] \in TapRows
        /\ [tap[t] EXCEPT !.at = "write", !.bill = {p}].paid = tap[t].paid
    BY <1>t, <2>2 DEF TapRows
  <2>5. tap[t].paid => paidBills # {}
    BY DEF DigitalInv, TapsOK
  <2> QED BY <1>n, <1>p, <1>t, <2>1, <2>2, <2>3, <2>4, <2>5, TapMoves
<1>3. ASSUME NEW t \in Taps, WritePurchase(t) \/ RecoverPurchase(t) \/ TapEnds(t)
      PROVE  DigitalInv'
  <2>1. TapGoes(t, NoTap) /\ UNCHANGED billVars
    BY <1>3 DEF WritePurchase, RecoverPurchase, TapEnds
  <2>2. tap[t].bill \in SUBSET BillIds /\ (tap[t].paid => paidBills # {})
    BY <1>t DEF DigitalInv, TapsOK, TapRows
  <2>3. purchase' \in Purchases /\ (purchase'.status = "COMPLETED" => paidBills # {})
    BY <1>3, <1>p, <1>t, <2>2 DEF WritePurchase, RecoverPurchase, TapEnds
  <2> QED BY <1>b, <1>n, <2>1, <2>3, TapMoves
<1>4. ASSUME NEW n \in BillReports, ReadProductBill(n) PROVE DigitalInv'
  <2>1. PICK p \in BillIds : ReadBill(n, p, purchase.payment = {p})
    BY <1>4 DEF ReadProductBill
  <2>2. BillsInv' /\ paidBills' = paidBills
    BY <1>t, <2>1, ReadBillKeeps
  <2> QED BY <1>4, <2>2, DigitalAside DEF ReadProductBill
<1>5. ASSUME NEW n \in BillReports, SettleProduct(n) PROVE DigitalInv'
  <2>1. PICK p \in BillIds : WriteBill(n, p)
    BY <1>5 DEF SettleProduct
  <2>2. /\ BillsInv' /\ paidBills \subseteq paidBills'
        /\ report[n].says = "PAID" => paidBills' # {}
    BY <1>t, <2>1, WriteBillKeeps
  <2>3. /\ tap' = tap
        /\ purchase' = IF report[n].says = "PAID" /\ report[n].bound
                       THEN [purchase EXCEPT !.status = "COMPLETED"] ELSE purchase
    BY <1>5 DEF SettleProduct
  <2>4. purchase' \in Purchases /\ (purchase'.status = "COMPLETED" => paidBills' # {})
    BY <1>p, <1>t, <2>2, <2>3
  <2> QED BY <2>2, <2>3, <2>4
          DEF DigitalInv, DigitalTypeOK, BillsInv, TapsOK, OwnedWasPaid
<1>6. CASE BillSteps /\ UNCHANGED <<purchase, tap>>
  BY <1>6, <1>t, BillStepsKeep, DigitalAside
<1>7. CASE UNCHANGED digitalVars
  <2>1. UNCHANGED <<billVars, purchase, tap>>
    BY <1>7 DEF digitalVars, billVars
  <2> QED BY <1>b, <2>1, DigitalAside
<1> QED BY <1>1, <1>2, <1>3, <1>4, <1>5, <1>6, <1>7 DEF DigitalNext

\* A product is owned only if a payment for it was settled, whatever a retry,
\* a recovery or a second payment read before (digital.js, settlePaymentCore).
THEOREM ProductsArePaid == DigitalSpec => []OwnedWasPaid
<1>1. DigitalInv => OwnedWasPaid
  BY DEF DigitalInv
<1> QED BY <1>1, DigitalAtFirst, DigitalMoves, PTL DEF DigitalSpec

CampaignRows == [type : AdTypes, status : AdStatus, window : Windows]

\* A step that leaves the campaign and its requests, and forgets no payment.
LEMMA AdsAside ==
  ASSUME AdsInv, BillsInv', paidBills \subseteq paidBills', UNCHANGED <<campaign, adCall, reviewed>>
  PROVE  AdsInv'
BY DEF AdsInv, AdsTypeOK, BillsInv, AdCallsOK, ShownIsEarned, isReviewRequired

\* Nothing is shown at first.
LEMMA AdsAtFirst == AdsInit => AdsInv
<1> SUFFICES ASSUME AdsInit PROVE AdsInv
  OBVIOUS
<1>1. NoAdCall \in AdCallRows /\ NoAdCall.op = "idle"
  BY DEF NoAdCall, AdCallRows, Creators
<1>2. campaign \in CampaignRows /\ campaign.status = "PENDING_PAYMENT"
  BY DEF AdsInit, CampaignRows, AdStatus, Windows
<1> QED BY <1>1, <1>2, BillsAtFirst
        DEF AdsInit, AdsInv, AdsTypeOK, BillsInv, AdCallsOK, ShownIsEarned, AdCallRows, CampaignRows

\* One request reads or ends; the campaign and the payments are as they were.
LEMMA AdCallMoves ==
  ASSUME AdsInv, NEW c \in AdCalls, NEW to \in AdCallRows,
         adCall' = [adCall EXCEPT ![c] = to], UNCHANGED <<billVars, campaign, reviewed>>,
         to.op \in {"show", "telegram"} => paidBills # {},
         to.op = "telegram" => reviewed
  PROVE  AdsInv'
<1>1. adCall \in [AdCalls -> AdCallRows]
  BY DEF AdsInv, AdsTypeOK, AdCallRows
<1>2. /\ adCall' \in [AdCalls -> AdCallRows] /\ adCall'[c] = to
      /\ \A d \in AdCalls : d # c => adCall'[d] = adCall[d]
  BY <1>1
<1>3. AdCallsOK'
  BY <1>2 DEF AdsInv, AdCallsOK, billVars
<1> QED BY <1>2, <1>3
        DEF AdsInv, AdsTypeOK, BillsTypeOK, PaidOK, billVars, AdCallRows, ShownIsEarned,
            isReviewRequired

\* A request ends and sets the status of the campaign, at most.
LEMMA AdCallWrites ==
  ASSUME AdsInv, NEW c \in AdCalls, adCall' = [adCall EXCEPT ![c] = NoAdCall],
         BillsInv', paidBills' = paidBills,
         reviewed' \in BOOLEAN, reviewed => reviewed',
         campaign' \in CampaignRows, campaign'.type = campaign.type,
         ShownIsEarned'
  PROVE  AdsInv'
<1>1. adCall \in [AdCalls -> AdCallRows] /\ NoAdCall \in AdCallRows /\ NoAdCall.op = "idle"
  BY DEF AdsInv, AdsTypeOK, AdCallRows, NoAdCall, Creators
<1>2. /\ adCall' \in [AdCalls -> AdCallRows] /\ adCall'[c] = NoAdCall
      /\ \A d \in AdCalls : d # c => adCall'[d] = adCall[d]
  BY <1>1
<1>3. AdCallsOK'
  BY <1>1, <1>2 DEF AdsInv, AdCallsOK
<1> QED BY <1>2, <1>3 DEF AdsInv, AdsTypeOK, BillsInv, AdCallRows, CampaignRows

\* A status is all that changes.
LEMMA CampaignBecomes ==
  ASSUME campaign \in CampaignRows, NEW status \in AdStatus, Becomes(status)
  PROVE  /\ campaign' \in CampaignRows /\ campaign'.type = campaign.type
         /\ campaign'.status = status
BY DEF Becomes, CampaignRows

\* Every step of the owner, the admins, the settlements and the sweeps keeps it.
LEMMA AdsMoves == AdsInv /\ [AdsNext]_adVars => AdsInv'
<1> SUFFICES ASSUME AdsInv, [AdsNext]_adVars PROVE AdsInv'
  OBVIOUS
<1>t. /\ BillsInv /\ adCall \in [AdCalls -> AdCallRows] /\ campaign \in CampaignRows
      /\ reviewed \in BOOLEAN
      /\ bill \in [BillIds -> BillRows] /\ report \in [BillReports -> ReportRows]
      /\ paidBills \subseteq BillIds
  BY BillsShape DEF AdsInv, AdsTypeOK, BillsInv, AdCallRows, CampaignRows
<1>b. ASSUME UNCHANGED billVars PROVE BillsInv' /\ paidBills' = paidBills
  BY <1>b, <1>t DEF billVars, BillsInv, BillsTypeOK, PaidOK
<1>n. NoAdCall \in AdCallRows /\ NoAdCall.op = "idle"
  BY DEF NoAdCall, AdCallRows, Creators
<1>w. WithStatus("PAID") # {} => paidBills # {}
  BY <1>t DEF WithStatus, BillsInv, PaidOK
<1>1. ASSUME NEW c \in AdCalls,
             ReadUnpaid(c) \/ ReadForReview(c) \/ ReadTelegram(c) \/ ReadForCancel(c)
      PROVE  AdsInv'
  <2>1. /\ WithStatus("PENDING") \in SUBSET BillIds /\ WithStatus("PAID") \in SUBSET BillIds
    BY DEF WithStatus
  <2>2. PICK to \in AdCallRows :
          /\ ReadAd(c, to)
          /\ to.op \in {"show", "telegram"} => paidBills # {}
          /\ to.op = "telegram" => reviewed
    <3>1. CASE ReadUnpaid(c)
      <4>1. PICK by \in Creators : ReadAd(c, [NoAdCall EXCEPT !.op = "bill", !.by = by])
        BY <3>1 DEF ReadUnpaid
      <4>2. /\ [NoAdCall EXCEPT !.op = "bill", !.by = by] \in AdCallRows
            /\ [NoAdCall EXCEPT !.op = "bill", !.by = by].op = "bill"
        BY DEF NoAdCall, AdCallRows
      <4> QED BY <4>1, <4>2
    <3>2. CASE ReadForReview(c)
      <4>1. /\ [NoAdCall EXCEPT !.op = "show"] \in AdCallRows
            /\ [NoAdCall EXCEPT !.op = "show"].op = "show"
        BY DEF NoAdCall, AdCallRows, Creators
      <4> QED BY <1>w, <3>2, <4>1 DEF ReadForReview
    <3>3. CASE ReadTelegram(c)
      <4>1. /\ [NoAdCall EXCEPT !.op = "telegram"] \in AdCallRows
            /\ [NoAdCall EXCEPT !.op = "telegram"].op = "telegram"
        BY DEF NoAdCall, AdCallRows, Creators
      <4>2. reviewed
        BY <3>3 DEF ReadTelegram, AdsInv, ShownIsEarned, isReviewRequired
      <4> QED BY <1>w, <3>3, <4>1, <4>2 DEF ReadTelegram
    <3>4. CASE ReadForCancel(c)
      <4> DEFINE to == [NoAdCall EXCEPT !.op = "cancel", !.pending = WithStatus("PENDING"),
                                        !.paid = WithStatus("PAID")]
      <4>1. to \in AdCallRows /\ to.op = "cancel"
        BY <2>1 DEF NoAdCall, AdCallRows, Creators
      <4>2. ReadAd(c, to)
        BY <3>4 DEF ReadForCancel
      <4> HIDE DEF to
      <4> QED BY <4>1, <4>2
    <3> QED BY <1>1, <3>1, <3>2, <3>3, <3>4
  <2> QED BY <2>2, AdCallMoves DEF ReadAd
<1>2. ASSUME NEW c \in AdCalls, AdCallEnds(c) PROVE AdsInv'
  BY <1>2, <1>n, AdCallMoves DEF AdCallEnds
<1>3. ASSUME NEW c \in AdCalls, BillCampaign(c) PROVE AdsInv'
  <2>1. PICK p \in AdBills : CreateBill(p, adCall[c].by)
    BY <1>3 DEF BillCampaign
  <2>2. p \in BillIds /\ adCall[c].by \in Creators
    BY <1>t, AdAssumption DEF AdCallRows
  <2>3. BillsInv' /\ paidBills' = paidBills
    BY <1>t, <2>1, <2>2, CreateKeeps
  <2>4. /\ campaign' = campaign /\ reviewed' = reviewed
        /\ adCall' = [adCall EXCEPT ![c] = NoAdCall]
    BY <1>3 DEF BillCampaign, EndAdCall
  <2>5. ShownIsEarned'
    BY <2>3, <2>4 DEF AdsInv, ShownIsEarned, isReviewRequired
  <2> QED BY <1>t, <2>3, <2>4, <2>5, AdCallWrites
<1>4. ASSUME NEW c \in AdCalls, Approve(c) \/ PublishTelegram(c) PROVE AdsInv'
  <2>1. /\ adCall[c].op \in {"show", "telegram"} /\ adCall' = [adCall EXCEPT ![c] = NoAdCall]
        /\ UNCHANGED billVars
    BY <1>4 DEF Approve, PublishTelegram, EndAdCall
  <2>2. paidBills # {} /\ reviewed' = TRUE
    BY <1>4, <1>t, <2>1 DEF Approve, PublishTelegram, EndAdCall, AdsInv, AdCallsOK
  <2>3. PICK status \in AdStatus : Becomes(status)
    BY <1>4 DEF Approve, PublishTelegram, AdStatus
  <2>4. campaign' \in CampaignRows /\ campaign'.type = campaign.type
    BY <1>t, <2>3, CampaignBecomes
  <2>5. BillsInv' /\ paidBills' = paidBills
    BY <1>b, <2>1
  <2>6. ShownIsEarned'
    BY <2>2, <2>5 DEF ShownIsEarned
  <2> QED BY <2>1, <2>2, <2>4, <2>5, <2>6, AdCallWrites
<1>5. ASSUME NEW c \in AdCalls, CancelCampaign(c) PROVE AdsInv'
  <2> DEFINE call == adCall[c]
             cut(p) == IF p \in call.paid THEN [bill[p] EXCEPT !.status = "REFUND_PENDING"]
                       ELSE IF p \in call.pending THEN [bill[p] EXCEPT !.status = "FAILED"]
                       ELSE bill[p]
  <2>1. /\ adCall' = [adCall EXCEPT ![c] = NoAdCall]
        /\ \A p \in call.paid : bill[p].status \in {"PAID", "REFUND_PENDING"}
        /\ Becomes("CANCELLED")
        /\ bill' = [p \in BillIds |-> cut(p)]
        /\ UNCHANGED <<report, paidBills, reviewed>>
    BY <1>5 DEF CancelCampaign, EndAdCall
  <2>2. \A p \in BillIds :
          /\ cut(p) \in BillRows
          /\ cut(p).status \in {"PAID", "REFUND_PENDING", "REFUNDED"} =>
               bill[p].status \in {"PAID", "REFUND_PENDING", "REFUNDED"}
    BY <1>t, <2>1 DEF BillRows, BillStatus
  <2> HIDE DEF cut
  <2>3. BillsInv'
    BY <1>t, <2>1, <2>2, BillsShape DEF BillsInv, BillsTypeOK, PaidOK, BillRows, ReportRows
  <2>4. campaign' \in CampaignRows /\ campaign'.type = campaign.type /\ campaign'.status = "CANCELLED"
    BY <1>t, <2>1, CampaignBecomes DEF AdStatus, AdTerminal
  <2> QED BY <1>t, <2>1, <2>3, <2>4, AdCallWrites DEF ShownIsEarned
<1>6. ASSUME NEW n \in BillReports, ReadCampaignBill(n) PROVE AdsInv'
  <2>1. PICK p \in BillIds : ReadBill(n, p, TRUE)
    BY <1>6 DEF ReadCampaignBill
  <2>2. BillsInv' /\ paidBills' = paidBills
    BY <1>t, <2>1, ReadBillKeeps
  <2> QED BY <1>6, <2>2, AdsAside DEF ReadCampaignBill
<1>7. ASSUME NEW n \in BillReports, SettleCampaign(n) PROVE AdsInv'
  <2>1. PICK p \in BillIds : WriteBill(n, p)
    BY <1>7 DEF SettleCampaign
  <2>2. /\ BillsInv' /\ paidBills \subseteq paidBills'
        /\ report[n].says = "PAID" => paidBills' # {}
    BY <1>t, <2>1, WriteBillKeeps
  <2>3. CASE report[n].says # "PAID"
    BY <1>7, <2>2, <2>3, AdsAside DEF SettleCampaign
  <2>4. CASE report[n].says = "PAID"
    <3>1. Becomes(StatusOncePaid) /\ UNCHANGED <<adCall, reviewed>>
      BY <1>7, <2>4 DEF SettleCampaign
    <3>2. StatusOncePaid \in AdStatus /\ (isReviewRequired => StatusOncePaid = "PAID_PENDING_REVIEW")
      BY DEF StatusOncePaid, AdStatus
    <3>3. /\ campaign' \in CampaignRows /\ campaign'.type = campaign.type
          /\ campaign'.status = StatusOncePaid
      BY <1>t, <3>1, <3>2, CampaignBecomes
    <3>4. ShownIsEarned'
      BY <2>2, <2>4, <3>2, <3>3 DEF ShownIsEarned, isReviewRequired
    <3>5. AdCallsOK'
      BY <2>2, <3>1 DEF AdsInv, AdCallsOK
    <3> QED BY <1>t, <2>2, <3>1, <3>3, <3>4, <3>5
            DEF AdsInv, AdsTypeOK, BillsInv, CampaignRows, AdCallRows
  <2> QED BY <2>3, <2>4
<1>8. CASE TakeDown \/ ExpireAdvertisement \/ ActivateScheduled \/ DatePasses
  <2>1. UNCHANGED <<billVars, adCall, reviewed>>
    BY <1>8 DEF TakeDown, ExpireAdvertisement, ActivateScheduled, DatePasses
  <2>2. BillsInv' /\ paidBills' = paidBills
    BY <1>b, <2>1
  <2>3. /\ campaign' \in CampaignRows /\ campaign'.type = campaign.type
        /\ campaign'.status \in {"SCHEDULED", "PUBLISHED"} =>
             campaign.status \in {"SCHEDULED", "PUBLISHED"}
    BY <1>8, <1>t DEF TakeDown, ExpireAdvertisement, ActivateScheduled, DatePasses, Becomes,
                      CampaignRows, AdStatus, AdTerminal, Windows
  <2>4. ShownIsEarned'
    BY <2>1, <2>2, <2>3 DEF AdsInv, ShownIsEarned, isReviewRequired
  <2>5. AdCallsOK'
    BY <2>1, <2>2 DEF AdsInv, AdCallsOK
  <2> QED BY <1>t, <2>1, <2>2, <2>3, <2>4, <2>5
          DEF AdsInv, AdsTypeOK, BillsInv, CampaignRows, AdCallRows
<1>9. CASE BillSteps /\ UNCHANGED <<campaign, adCall, reviewed>>
  BY <1>9, <1>t, BillStepsKeep, AdsAside
<1>10. CASE UNCHANGED adVars
  <2>1. UNCHANGED billVars /\ UNCHANGED <<campaign, adCall, reviewed>>
    BY <1>10 DEF adVars, billVars
  <2> QED BY <1>b, <2>1, AdsAside
<1> QED BY <1>1, <1>2, <1>3, <1>4, <1>5, <1>6, <1>7, <1>8, <1>9, <1>10 DEF AdsNext

\* A campaign is shown only after a payment and, where its type asks for one, a
\* review, whatever its requests and sweeps had read (ads.js, settlePaymentCore).
THEOREM CampaignsAreEarned == AdsSpec => []ShownIsEarned
<1>1. AdsInv => ShownIsEarned
  BY DEF AdsInv
<1> QED BY <1>1, AdsAtFirst, AdsMoves, PTL DEF AdsSpec

-----------------------------------------------------------------------------
\* Books.

FeeRows == [kind : Kinds \cup {"NONE"}, amount : Nat, commission : Nat]

\* What the settlement of p enters, if somebody is there to earn it.
Whole(p) == EntriesFor(p, TRUE)

Settled == {"PAID", "REFUND_PENDING", "REFUNDED"}

\* The entries and the payout of one payment.
FeeOK(p) ==
  /\ fee[p].commission <= fee[p].amount
  /\ bill[p].status = "NONE" => p \notin paidBills /\ bill[p].checkout = "none"
  /\ bill[p].status \in Settled => p \in paidBills
  /\ p \in served => fee[p].kind = "SERVICE" /\ bill[p].status # "NONE"
  /\ ledger[p] \in {NoEntry, Whole(p)}
  /\ p \notin paidBills => ledger[p] = NoEntry
  /\ p \in paidBills /\ (fee[p].kind # "SERVICE" \/ p \in served) => ledger[p] = Whole(p)
  /\ hold[p] # {} =>
       /\ hold[p] = {netOf(p)} /\ ledger[p] = Whole(p) /\ p \in paidBills
       /\ fee[p].kind \in {"MARKETPLACE", "SERVICE"}

\* A settlement that saw no provider settles a payment that has none.
SeenOK ==
  \A n \in BillReports : \A p \in report[n].bill :
    /\ bill[p].status # "NONE"
    /\ p \in served => report[n].bound
    /\ report[n].bound => fee[p].kind = "SERVICE"

BooksInv == BooksTypeOK /\ SeenOK /\ \A p \in BillIds : FeeOK(p)

\* The books while other services are at work.
BooksIdle ==
  /\ fee = [p \in BillIds |-> NoFee]
  /\ served = {} /\ sawDispute = {}
  /\ market = [status |-> "PENDING_PAYMENT", before |-> "PENDING_PAYMENT"]
  /\ ledger = [p \in BillIds |-> NoEntry]
  /\ hold = [p \in BillIds |-> {}]

\* The types, row by row.
LEMMA BooksShape ==
  BooksTypeOK <=> /\ BillsTypeOK
                  /\ fee \in [BillIds -> FeeRows]
                  /\ served \subseteq BillIds
                  /\ market \in [status : {"PENDING_PAYMENT", "CONFIRMED", "DISPUTED", "CANCELLED"},
                                 before : {"PENDING_PAYMENT", "CONFIRMED"}]
                  /\ sawDispute \subseteq BillReports
                  /\ ledger \in [BillIds -> [EntryTypes -> Nat]]
                  /\ hold \in [BillIds -> SUBSET Nat]
BY DEF BooksTypeOK, FeeRows

\* The commission is a part of the amount.
LEMMA CommissionFits ==
  ASSUME NEW kind, NEW amount \in Nat, NEW r \in 0 .. 100
  PROVE  /\ CommissionOf(kind, amount, r) \in Nat
         /\ CommissionOf(kind, amount, r) <= amount
<1> DEFINE x == amount * r
<1>1. x \in Nat /\ x <= amount * 100
  OBVIOUS
<1> HIDE DEF x
<1>2. (x + 50) \div 100 \in Nat /\ (x + 50) \div 100 <= amount
  BY <1>1
<1> QED BY <1>2 DEF CommissionOf, x

\* What is entered for a payment, and what its parts add up to.
LEMMA WholeParts ==
  ASSUME NEW p \in BillIds, fee[p] \in FeeRows, fee[p].commission <= fee[p].amount
  PROVE  /\ Whole(p) \in [EntryTypes -> Nat]
         /\ fee[p].kind \in {"MARKETPLACE", "DIGITAL", "SERVICE"} =>
              /\ Whole(p)["EARNING"] = netOf(p)
              /\ Whole(p)["PLATFORM_COMMISSION"] = fee[p].commission
              /\ Whole(p)["PLATFORM_REVENUE"] = 0
         /\ fee[p].kind = "ADVERTISING" =>
              /\ Whole(p)["EARNING"] = 0
              /\ Whole(p)["PLATFORM_COMMISSION"] = 0
              /\ Whole(p)["PLATFORM_REVENUE"] = fee[p].amount
         /\ fee[p].kind \in {"MARKETPLACE_INSTALLMENT", "NONE"} => Whole(p) = NoEntry
<1>1. NoEntry \in [EntryTypes -> Nat] /\ \A t \in EntryTypes : NoEntry[t] = 0
  BY DEF NoEntry
<1>2. netOf(p) \in Nat /\ fee[p].amount \in Nat /\ fee[p].commission \in Nat
  BY DEF netOf, FeeRows
<1>3. CASE fee[p].kind \in {"MARKETPLACE", "DIGITAL", "SERVICE"}
  <2>1. Whole(p) = [NoEntry EXCEPT !["EARNING"] = netOf(p),
                                   !["PLATFORM_COMMISSION"] = fee[p].commission]
    BY <1>3 DEF Whole, EntriesFor
  <2> QED BY <1>1, <1>2, <1>3, <2>1 DEF EntryTypes
<1>4. CASE fee[p].kind = "ADVERTISING"
  <2>1. Whole(p) = [NoEntry EXCEPT !["PLATFORM_REVENUE"] = fee[p].amount]
    BY <1>4 DEF Whole, EntriesFor
  <2> QED BY <1>1, <1>2, <1>4, <2>1 DEF EntryTypes
<1>5. CASE fee[p].kind \in {"MARKETPLACE_INSTALLMENT", "NONE"}
  <2>1. Whole(p) = NoEntry
    BY <1>5 DEF Whole, EntriesFor
  <2> QED BY <1>1, <1>5, <2>1
<1> QED BY <1>3, <1>4, <1>5 DEF FeeRows, Kinds

\* An entry that is there stays as it is.
LEMMA EnteredOnce ==
  ASSUME NEW full \in [EntryTypes -> Nat], NEW old \in {NoEntry, full}, NEW new \in {NoEntry, full}
  PROVE  /\ Entered(old, new) \in {NoEntry, full}
         /\ old = full \/ new = full => Entered(old, new) = full
         /\ old = NoEntry /\ new = NoEntry => Entered(old, new) = NoEntry
<1>1. NoEntry \in [EntryTypes -> Nat] /\ \A t \in EntryTypes : NoEntry[t] = 0
  BY DEF NoEntry
<1>2. CASE old = NoEntry
  BY <1>1, <1>2 DEF Entered
<1>3. CASE old = full /\ old # NoEntry
  BY <1>1, <1>3 DEF Entered
<1> QED BY <1>2, <1>3

\* Nothing is entered at first, nor while another service is at work.
LEMMA IdleGives == BillsInv /\ BooksIdle => BooksTypeOK /\ BooksBalance
<1> SUFFICES ASSUME BillsInv, BooksIdle PROVE BooksTypeOK /\ BooksBalance
  OBVIOUS
<1>1. NoEntry \in [EntryTypes -> Nat] /\ NoFee \in FeeRows
  BY DEF NoEntry, NoFee, FeeRows
<1>2. BooksTypeOK
  BY <1>1, BooksShape DEF BooksIdle, BillsInv
<1>3. \A p \in BillIds : Entries(p) = 0 /\ fee[p] = NoFee
  BY DEF BooksIdle, Entries, NoEntry, EntryTypes
<1>4. EnteredWhole
  BY <1>3 DEF BooksIdle, EnteredWhole, NoFee
<1>5. SourcesAgree
  <2> SUFFICES ASSUME NEW kind \in Kinds
               PROVE  /\ ReportedCommission(kind) = BookedOf(kind, "PLATFORM_COMMISSION")
                      /\ PaidVolume(kind) = BookedVolume(kind)
    BY DEF SourcesAgree
  <2>1. OfKind({kind}) = {} /\ PaidOf(kind) = {}
    BY <1>3 DEF OfKind, PaidOf, NoFee, Kinds
  <2>2. \A v, w : Total({}, v) = Total({}, w)
    BY DEF Total
  <2> QED BY <2>1, <2>2 DEF ReportedCommission, BookedOf, PaidVolume, BookedVolume
<1> QED BY <1>2, <1>4, <1>5 DEF BooksBalance

LEMMA BooksAtFirst == BooksInit => BooksInv /\ BooksIdle
<1> SUFFICES ASSUME BooksInit PROVE BooksInv /\ BooksIdle
  OBVIOUS
<1>1. BooksIdle /\ BillsInv
  BY BillsAtFirst DEF BooksInit, BooksIdle
<1>2. BooksTypeOK
  BY <1>1, IdleGives
<1>3. \A p \in BillIds : FeeOK(p)
  BY DEF BooksInit, BillsInit, FeeOK, NoFee, NoBill, Settled
<1>4. SeenOK
  BY DEF BooksInit, BillsInit, SeenOK, NoReport
<1> QED BY <1>1, <1>2, <1>3, <1>4 DEF BooksInv

-----------------------------------------------------------------------------

\* What the books say of the payments, and row by row.
LEMMA BooksBills ==
  ASSUME BooksInv
  PROVE  /\ BillsInv /\ bill \in [BillIds -> BillRows] /\ report \in [BillReports -> ReportRows]
         /\ paidBills \subseteq BillIds /\ fee \in [BillIds -> FeeRows]
         /\ ledger \in [BillIds -> [EntryTypes -> Nat]] /\ hold \in [BillIds -> SUBSET Nat]
         /\ \A p \in BillIds : netOf(p) \in Nat
<1>1. BillsTypeOK /\ fee \in [BillIds -> FeeRows]
  BY BooksShape DEF BooksInv
<1>2. PaidOK
  BY DEF BooksInv, FeeOK, PaidOK, Settled
<1>3. \A p \in BillIds : netOf(p) \in Nat
  BY <1>1 DEF BooksInv, FeeOK, netOf, FeeRows
<1> QED BY <1>1, <1>2, <1>3, BillsShape, BooksShape DEF BillsInv, BooksInv

MarketRows == [status : {"PENDING_PAYMENT", "CONFIRMED", "DISPUTED", "CANCELLED"},
               before : {"PENDING_PAYMENT", "CONFIRMED"}]

\* What a step that settles nothing does to one payment: a payout is made of what
\* was settled and entered.
PaymentGoesOn(p) ==
  /\ bill'[p].status = "NONE" => bill'[p] = bill[p]
  /\ bill'[p].status \in Settled => bill[p].status \in Settled
  /\ \/ hold'[p] = hold[p]
     \/ /\ hold'[p] = {netOf(p)} /\ ledger[p] = Whole(p) /\ p \in paidBills
        /\ fee[p].kind \in {"MARKETPLACE", "SERVICE"}

\* Settlements begin with payments that exist.
SeenNext ==
  \A n \in BillReports, p \in BillIds :
    p \in report'[n].bill =>
      /\ bill[p].status # "NONE"
      /\ p \in served' => report'[n].bound
      /\ report'[n].bound => fee[p].kind = "SERVICE"

\* A step that settles nothing.
LEMMA NothingSettled ==
  ASSUME BooksInv, BillsTypeOK', UNCHANGED <<fee, ledger, paidBills>>, served' \subseteq served,
         market' \in MarketRows, sawDispute' \subseteq BillReports,
         hold' \in [BillIds -> SUBSET Nat],
         \A p \in BillIds : PaymentGoesOn(p), SeenNext
  PROVE  BooksInv'
<1>1. BooksTypeOK'
  BY BooksShape DEF BooksInv, BooksTypeOK, MarketRows
<1>2. ASSUME NEW p \in BillIds PROVE FeeOK(p)'
  <2>1. netOf(p)' = netOf(p) /\ Whole(p)' = Whole(p)
    BY DEF netOf, Whole, EntriesFor
  <2>2. FeeOK(p) /\ PaymentGoesOn(p)
    BY DEF BooksInv
  <2> QED BY <2>1, <2>2 DEF FeeOK, PaymentGoesOn
<1>3. \A n \in BillReports : report'[n].bill \subseteq BillIds
  BY DEF BillsTypeOK
<1>4. SeenOK'
  BY <1>3 DEF SeenOK, SeenNext, PaymentGoesOn
<1> QED BY <1>1, <1>2, <1>4 DEF BooksInv

\* Settlements that stay as they were, or are over, saw what they saw.
LEMMA SeenStays ==
  ASSUME BooksInv, served' \subseteq served,
         \A n \in BillReports : report'[n] \in {report[n], NoReport}
  PROVE  SeenNext
<1> SUFFICES ASSUME NEW n \in BillReports, NEW p \in BillIds, p \in report'[n].bill
             PROVE  /\ bill[p].status # "NONE"
                    /\ p \in served' => report'[n].bound
                    /\ report'[n].bound => fee[p].kind = "SERVICE"
  BY DEF SeenNext
<1>1. report'[n] = report[n]
  BY DEF NoReport
<1> QED BY <1>1 DEF BooksInv, SeenOK

\* The row of the order, whose dispute begins and ends.
LEMMA MarketShape ==
  ASSUME BooksInv
  PROVE  /\ market \in MarketRows /\ sawDispute \subseteq BillReports
         /\ \A s \in {"CONFIRMED", "DISPUTED", "CANCELLED"} : [market EXCEPT !.status = s] \in MarketRows
         /\ [market EXCEPT !.status = market.before] \in MarketRows
BY BooksShape DEF BooksInv, MarketRows

\* A checkout, an answer of Chapa or the end of a refund or of a settlement.
LEMMA BillStepKeeps ==
  ASSUME BooksInv, BillSteps, UNCHANGED <<fee, served, market, ledger, hold>>,
         sawDispute' \subseteq sawDispute
  PROVE  BooksInv'
<1>t. BillsInv' /\ paidBills' = paidBills
  BY BooksBills, BillStepsKeep
<1>s. /\ bill \in [BillIds -> BillRows] /\ report \in [BillReports -> ReportRows]
      /\ hold \in [BillIds -> SUBSET Nat] /\ sawDispute' \subseteq BillReports
      /\ market \in MarketRows
  BY BooksBills, MarketShape
<1>1. ASSUME NEW p \in BillIds, OpenCheckout(p) \/ ProviderAnswers(p) \/ RefundEnds(p)
      PROVE  /\ \A q \in BillIds : PaymentGoesOn(q)
             /\ report' = report
  <2>1. \A q \in BillIds : bill[q].status = "NONE" => bill[q].checkout = "none"
    BY DEF BooksInv, FeeOK
  <2> QED BY <1>1, <1>s, <2>1
          DEF OpenCheckout, ProviderAnswers, RefundEnds, PaymentGoesOn, Settled, BillRows
<1>2. ASSUME NEW n \in BillReports, SettlementEnds(n)
      PROVE  /\ \A q \in BillIds : PaymentGoesOn(q)
             /\ \A m \in BillReports : report'[m] \in {report[m], NoReport}
  BY <1>2, <1>s DEF SettlementEnds, PaymentGoesOn
<1>3. /\ \A q \in BillIds : PaymentGoesOn(q)
      /\ \A m \in BillReports : report'[m] \in {report[m], NoReport}
  BY <1>1, <1>2 DEF BillSteps
<1>4. SeenNext
  BY <1>3, SeenStays
<1> QED BY <1>t, <1>s, <1>3, <1>4, NothingSettled DEF BillsInv

\* A settlement that reads knows whether the service has a provider.
LEMMA ReadFeeKeeps ==
  ASSUME BooksInv, NEW n \in BillReports, ReadFee(n)
  PROVE  BooksInv'
<1>1. PICK p \in BillIds : ReadBill(n, p, p \in served)
  BY DEF ReadFee
<1>2. /\ UNCHANGED <<bill, paidBills, fee, served, market, ledger, hold>>
      /\ sawDispute' \subseteq BillReports
  BY <1>1, MarketShape DEF ReadFee, ReadBill, orderVars, entryVars
<1>3. BillsTypeOK'
  <2> DEFINE b == p \in served
  <2>1. ReadBill(n, p, b) /\ b \in BOOLEAN
    BY <1>1
  <2> HIDE DEF b
  <2> QED BY <2>1, BooksBills, ReadBillKeeps DEF BillsInv
<1>4. /\ report \in [BillReports -> ReportRows] /\ hold \in [BillIds -> SUBSET Nat]
      /\ market \in MarketRows /\ bill \in [BillIds -> BillRows]
  BY BooksBills, MarketShape
<1>5. \A q \in BillIds : PaymentGoesOn(q)
  BY <1>2 DEF PaymentGoesOn
<1>6. bill[p].status # "NONE"
  <2>1. bill[p].status = "NONE" => bill[p].checkout = "none"
    BY DEF BooksInv, FeeOK
  <2>2. bill[p].status = "PENDING" \/ bill[p].checkout \in Outcomes
    BY <1>1 DEF ReadBill
  <2> QED BY <2>1, <2>2 DEF Outcomes
<1>7. SeenNext
  <2> SUFFICES ASSUME NEW m \in BillReports, NEW q \in BillIds, q \in report'[m].bill
               PROVE  /\ bill[q].status # "NONE"
                      /\ q \in served' => report'[m].bound
                      /\ report'[m].bound => fee[q].kind = "SERVICE"
    BY DEF SeenNext
  <2>1. CASE m = n
    <3>1. report'[n].bill = {p} /\ report'[n].bound = (p \in served)
      BY <1>1, <1>4 DEF ReadBill
    <3> QED BY <1>2, <1>6, <2>1, <3>1 DEF BooksInv, FeeOK
  <2>2. CASE m # n
    <3>1. report'[m] = report[m]
      BY <1>1, <1>4, <2>2 DEF ReadBill
    <3> QED BY <1>2, <3>1 DEF BooksInv, SeenOK
  <2> QED BY <2>1, <2>2
<1> QED BY <1>2, <1>3, <1>4, <1>5, <1>7, NothingSettled

\* The order or a campaign is disputed, cancelled or goes on: what was settled is
\* to be returned, and who has earned something is to be paid.
LEMMA OrderKeeps ==
  ASSUME BooksInv, RaiseDispute \/ Resolve \/ CancelOrder \/ \E p \in BillIds : CancelAd(p)
  PROVE  BooksInv'
<1>s. /\ BillsInv /\ bill \in [BillIds -> BillRows] /\ report \in [BillReports -> ReportRows]
      /\ hold \in [BillIds -> SUBSET Nat] /\ \A p \in BillIds : netOf(p) \in Nat
      /\ market \in MarketRows /\ sawDispute \subseteq BillReports
  BY BooksBills, MarketShape
<1>1. UNCHANGED <<report, paidBills, fee, sawDispute, ledger>> /\ served' \subseteq served
  BY DEF RaiseDispute, Resolve, CancelOrder, CancelAd, billVars, orderVars, entryVars
<1>2. SeenNext
  BY <1>1, SeenStays
<1>3. CASE RaiseDispute
  <2>1. bill' = bill /\ hold' = hold /\ market' \in MarketRows
    BY <1>3 DEF RaiseDispute, billVars, entryVars, MarketRows
  <2>2. BillsTypeOK' /\ \A p \in BillIds : PaymentGoesOn(p)
    BY <1>1, <1>s, <2>1 DEF BillsInv, BillsTypeOK, PaymentGoesOn
  <2> QED BY <1>1, <1>2, <1>s, <2>1, <2>2, NothingSettled
<1>4. CASE Resolve
  <2>1. bill' = bill /\ BillsTypeOK'
    BY <1>1, <1>4, <1>s DEF Resolve, billVars, BillsInv, BillsTypeOK
  <2>2. market' \in MarketRows
    BY <1>4, MarketShape DEF Resolve, Replayed
  <2>3. ASSUME NEW p \in BillIds
        PROVE  PaymentGoesOn(p) /\ hold'[p] \in SUBSET Nat
    <3>1. \/ hold'[p] = hold[p]
          \/ /\ hold'[p] = {netOf(p)} /\ bill[p].status = "PAID"
             /\ fee[p].kind = "MARKETPLACE" \/ (fee[p].kind = "SERVICE" /\ p \in served)
      BY <1>1, <1>4 DEF Resolve, Replayed, HeldFor, Having, OfKind
    <3>2. bill[p].status = "PAID" => p \in paidBills
      BY DEF BooksInv, FeeOK, Settled
    <3>3. bill[p].status = "PAID" /\ (fee[p].kind = "MARKETPLACE" \/ p \in served) =>
            ledger[p] = Whole(p)
      BY <3>2 DEF BooksInv, FeeOK
    <3> QED BY <1>s, <2>1, <3>1, <3>2, <3>3 DEF PaymentGoesOn
  <2>4. hold' \in [BillIds -> SUBSET Nat]
    BY <1>4, <2>3 DEF Resolve, Replayed, HeldFor
  <2> QED BY <1>1, <1>2, <1>s, <2>1, <2>2, <2>3, <2>4, NothingSettled
<1>5. CASE CancelOrder
  <2>1. hold' = hold /\ market' \in MarketRows
    BY <1>5, MarketShape DEF CancelOrder, entryVars
  <2>2. PICK kept \in SUBSET served, plans \in SUBSET OfKind({"MARKETPLACE"}) :
          bill' = [p \in BillIds |->
                    IF p \in (Having("PAID") \cap OfOrder) \ kept
                    THEN [bill[p] EXCEPT !.status = "REFUND_PENDING"]
                    ELSE IF p \in Having("PENDING")
                                    \cap (plans \cup OfKind({"MARKETPLACE_INSTALLMENT"}))
                    THEN [bill[p] EXCEPT !.status = "FAILED"]
                    ELSE bill[p]]
    BY <1>5 DEF CancelOrder
  <2>3. ASSUME NEW p \in BillIds
        PROVE  PaymentGoesOn(p) /\ bill'[p] \in BillRows
    <3>1. \/ bill'[p] = bill[p]
          \/ /\ bill[p].status = "PAID"
             /\ bill'[p] = [bill[p] EXCEPT !.status = "REFUND_PENDING"]
          \/ bill'[p] = [bill[p] EXCEPT !.status = "FAILED"]
      BY <2>2 DEF Having
    <3>2. \/ bill'[p] = bill[p]
          \/ bill[p].status = "PAID" /\ bill'[p].status = "REFUND_PENDING"
          \/ bill'[p].status = "FAILED"
      BY <1>s, <3>1 DEF BillRows
    <3>3. bill'[p] \in BillRows
      BY <1>s, <3>1 DEF BillRows, BillStatus
    <3> QED BY <2>1, <3>2, <3>3 DEF PaymentGoesOn, Settled
  <2>4. bill' \in [BillIds -> BillRows]
    BY <2>2, <2>3
  <2>5. BillsTypeOK'
    BY <1>1, <1>s, <2>4, BillsShape DEF BillsInv, BillsTypeOK, BillRows
  <2> QED BY <1>1, <1>2, <1>s, <2>1, <2>3, <2>5, NothingSettled
<1>6. ASSUME NEW p \in BillIds, CancelAd(p) PROVE BooksInv'
  <2>1. hold' = hold /\ market' = market /\ served' = served
    BY <1>6 DEF CancelAd, orderVars, entryVars
  <2>2. \/ bill[p].status = "PAID" /\ bill' = [bill EXCEPT ![p].status = "REFUND_PENDING"]
        \/ bill[p].status = "PENDING" /\ bill' = [bill EXCEPT ![p].status = "FAILED"]
    BY <1>6 DEF CancelAd
  <2>3. bill' \in [BillIds -> BillRows] /\ \A q \in BillIds : PaymentGoesOn(q)
    BY <1>s, <2>1, <2>2 DEF BillRows, BillStatus, PaymentGoesOn, Settled
  <2>4. BillsTypeOK'
    BY <1>1, <1>s, <2>3, BillsShape DEF BillsInv, BillsTypeOK, BillRows
  <2> QED BY <1>1, <1>2, <1>s, <2>1, <2>3, <2>4, NothingSettled
<1> QED BY <1>3, <1>4, <1>5, <1>6


\* A new payment is entered nowhere, and its commission is a part of it.
LEMMA CreateFeeKeeps ==
  ASSUME BooksInv, NEW p \in BillIds, CreateFee(p)
  PROVE  BooksInv'
<1>s. /\ BillsInv /\ bill \in [BillIds -> BillRows] /\ report \in [BillReports -> ReportRows]
      /\ fee \in [BillIds -> FeeRows]
  BY BooksBills
<1>1. PICK kind \in KindsOf[p], amount \in Amounts, rate \in Rates :
        /\ fee' = [fee EXCEPT ![p] = [kind |-> kind, amount |-> amount,
                                      commission |-> CommissionOf(kind, amount, rate)]]
        /\ served' = IF kind = "SERVICE" THEN served \cup {p} ELSE served
  BY DEF CreateFee
<1> DEFINE row == [kind |-> kind, amount |-> amount, commission |-> CommissionOf(kind, amount, rate)]
<1>2. row \in FeeRows /\ row.commission <= row.amount /\ row.kind = kind
  BY CommissionFits, BooksAssumption DEF FeeRows
<1>3. fee' \in [BillIds -> FeeRows] /\ fee'[p] = row /\ \A q \in BillIds : q # p => fee'[q] = fee[q]
  BY <1>s, <1>1, <1>2
<1> HIDE DEF row
<1>4. /\ UNCHANGED <<report, paidBills, market, sawDispute, ledger, hold>>
      /\ bill[p].status = "NONE" /\ bill'[p].status = "PENDING"
      /\ \A q \in BillIds : q # p => bill'[q] = bill[q]
  BY <1>s DEF CreateFee, CreateBill, NoBill, entryVars
<1>5. BillsTypeOK'
  <2>1. CreateBill(p, "owner") /\ "owner" \in Creators
    BY DEF CreateFee, Creators
  <2> QED BY <1>s, <2>1, CreateKeeps DEF BillsInv
<1>6. BooksTypeOK'
  BY <1>1, <1>3, <1>4, <1>5, BooksShape DEF BooksInv, BooksTypeOK, FeeRows
<1>7. p \notin paidBills /\ p \notin served /\ ledger[p] = NoEntry /\ hold[p] = {}
  BY <1>4 DEF BooksInv, FeeOK
<1>8. FeeOK(p)'
  BY <1>1, <1>2, <1>3, <1>4, <1>7 DEF FeeOK, Settled
<1>9. ASSUME NEW q \in BillIds, q # p PROVE FeeOK(q)'
  <2>1. netOf(q)' = netOf(q) /\ Whole(q)' = Whole(q)
    BY <1>3, <1>9 DEF netOf, Whole, EntriesFor
  <2>2. q \in served' <=> q \in served
    BY <1>1, <1>9
  <2> QED BY <1>3, <1>4, <1>9, <2>1, <2>2 DEF BooksInv, FeeOK
<1>10. SeenOK'
  <2> SUFFICES ASSUME NEW n \in BillReports, NEW q \in report'[n].bill
               PROVE  /\ bill'[q].status # "NONE"
                      /\ q \in served' => report'[n].bound
                      /\ report'[n].bound => fee'[q].kind = "SERVICE"
    BY DEF SeenOK
  <2>1. q \in BillIds /\ q # p
    BY <1>s, <1>4 DEF BooksInv, SeenOK, ReportRows
  <2>2. q \in served' <=> q \in served
    BY <1>1, <2>1
  <2> QED BY <1>3, <1>4, <2>1, <2>2 DEF BooksInv, SeenOK
<1> QED BY <1>6, <1>8, <1>9, <1>10 DEF BooksInv

\* The entries for p are whole or none, and none only for want of a provider.
LEMMA EntriesAre ==
  ASSUME NEW p, NEW provided \in BOOLEAN
  PROVE  /\ EntriesFor(p, provided) \in {NoEntry, Whole(p)}
         /\ fee[p].kind # "SERVICE" \/ provided => EntriesFor(p, provided) = Whole(p)
<1>1. CASE provided
  BY <1>1 DEF EntriesFor, Whole
<1>2. CASE ~provided
  BY <1>2 DEF EntriesFor, Whole
<1> QED BY <1>1, <1>2

\* A settlement enters what it settles, whole, and holds back what was earned.
LEMMA SettleFeeKeeps ==
  ASSUME BooksInv, NEW n \in BillReports, SettleFee(n)
  PROVE  BooksInv'
<1>s. /\ BillsInv /\ bill \in [BillIds -> BillRows] /\ report \in [BillReports -> ReportRows]
      /\ fee \in [BillIds -> FeeRows] /\ paidBills \subseteq BillIds
      /\ ledger \in [BillIds -> [EntryTypes -> Nat]] /\ hold \in [BillIds -> SUBSET Nat]
      /\ \A q \in BillIds : netOf(q) \in Nat
      /\ market \in MarketRows /\ sawDispute \subseteq BillReports
      /\ [market EXCEPT !.status = "CONFIRMED"] \in MarketRows
  BY BooksBills, MarketShape
<1> DEFINE
           trade(p) == /\ report[n].says = "PAID" /\ n \notin sawDispute
                       /\ fee[p].kind = "MARKETPLACE" /\ market.status = "PENDING_PAYMENT"
           work(p)  == /\ report[n].says = "PAID" /\ n \notin sawDispute
                       /\ fee[p].kind = "SERVICE" /\ report[n].bound
           new(p)   == EntriesFor(p, report[n].bound)
<1>1. PICK p \in report[n].bill :
        /\ WriteBill(n, p)
        /\ sawDispute' = sawDispute \ {n}
        /\ ledger' = IF report[n].says = "PAID"
                     THEN [ledger EXCEPT ![p] = Entered(@, new(p))]
                     ELSE ledger
        /\ HeldFor(IF trade(p) \/ work(p) THEN {p} ELSE {})
        /\ market' = IF trade(p) THEN [market EXCEPT !.status = "CONFIRMED"] ELSE market
        /\ UNCHANGED <<fee, served>>
  BY DEF SettleFee
<1>p. p \in BillIds
  BY <1>s DEF ReportRows
<1>2. BillsInv' /\ paidBills \subseteq paidBills'
  BY <1>s, <1>p, <1>1, WriteBillKeeps
<1>3. /\ bill'[p].status = report[n].says /\ report[n].says \in Outcomes
      /\ \A q \in BillIds : q # p => bill'[q] = bill[q]
      /\ paidBills' = IF report[n].says = "PAID" THEN paidBills \cup {p} ELSE paidBills
      /\ report' = [report EXCEPT ![n] = NoReport]
  BY <1>s, <1>p, <1>1 DEF WriteBill, BillRows, ReportRows
<1>4. /\ new(p) \in {NoEntry, Whole(p)}
      /\ fee[p].kind # "SERVICE" \/ report[n].bound => new(p) = Whole(p)
  <2>1. report[n].bound \in BOOLEAN
    BY <1>s DEF ReportRows
  <2> QED BY <2>1, EntriesAre
<1>5. FeeOK(p) /\ (p \in served => report[n].bound)
  BY <1>p, <1>1 DEF BooksInv, SeenOK, FeeOK
<1>6. Whole(p) \in [EntryTypes -> Nat]
  <2>1. fee[p] \in FeeRows /\ fee[p].commission <= fee[p].amount
    BY <1>s, <1>p, <1>5 DEF FeeOK
  <2> QED BY <1>p, <2>1, WholeParts
<1> HIDE DEF new
<1>7. /\ ledger'[p] \in {NoEntry, Whole(p)}
      /\ ledger[p] = Whole(p) => ledger'[p] = Whole(p)
      /\ report[n].says # "PAID" => ledger'[p] = ledger[p]
      /\ report[n].says = "PAID" /\ (fee[p].kind # "SERVICE" \/ report[n].bound) =>
           ledger'[p] = Whole(p)
      /\ ledger' \in [BillIds -> [EntryTypes -> Nat]]
      /\ \A q \in BillIds : q # p => ledger'[q] = ledger[q]
  <2>1. CASE report[n].says # "PAID"
    BY <1>s, <1>1, <1>5, <2>1 DEF FeeOK
  <2>2. CASE report[n].says = "PAID"
    <3>1. ledger' = [ledger EXCEPT ![p] = Entered(ledger[p], new(p))]
      BY <1>1, <2>2
    <3>2. ledger'[p] = Entered(ledger[p], new(p)) /\ \A q \in BillIds : q # p => ledger'[q] = ledger[q]
      BY <1>s, <1>p, <3>1
    <3>3. ledger[p] \in {NoEntry, Whole(p)}
      BY <1>5 DEF FeeOK
    <3>4. /\ ledger'[p] \in {NoEntry, Whole(p)}
          /\ ledger[p] = Whole(p) \/ new(p) = Whole(p) => ledger'[p] = Whole(p)
      BY <1>4, <1>6, <3>2, <3>3, EnteredOnce
    <3>5. NoEntry \in [EntryTypes -> Nat]
      BY DEF NoEntry
    <3>6. ledger' \in [BillIds -> [EntryTypes -> Nat]]
      BY <1>s, <1>6, <3>1, <3>2, <3>4, <3>5
    <3> QED BY <1>4, <2>2, <3>2, <3>4, <3>6
  <2> QED BY <2>1, <2>2
<1>8. /\ \A q \in BillIds : q # p => hold'[q] = hold[q]
      /\ hold'[p] = hold[p] \/ (hold'[p] = {netOf(p)} /\ (trade(p) \/ work(p)))
      /\ hold' \in [BillIds -> SUBSET Nat]
  BY <1>s, <1>p, <1>1 DEF HeldFor
<1>9. market' \in MarketRows /\ sawDispute' \subseteq BillReports /\ fee' = fee /\ served' = served
  BY <1>s, <1>1
<1>10. BooksTypeOK'
  BY <1>2, <1>7, <1>8, <1>9, BooksShape DEF BooksInv, BooksTypeOK, BillsInv, MarketRows
<1>11. \A q \in BillIds : netOf(q)' = netOf(q) /\ Whole(q)' = Whole(q)
  BY <1>9 DEF netOf, Whole, EntriesFor
<1>12. FeeOK(p)'
  <2>1. trade(p) \/ work(p) =>
          /\ ledger'[p] = Whole(p) /\ p \in paidBills'
          /\ fee[p].kind \in {"MARKETPLACE", "SERVICE"}
    BY <1>3, <1>7
  <2> HIDE DEF trade, work
  <2>2. bill'[p].status # "NONE" /\ (bill'[p].status \in Settled => report[n].says = "PAID")
    BY <1>3 DEF Outcomes, Settled
  <2>3. p \in paidBills' <=> p \in paidBills \/ report[n].says = "PAID"
    BY <1>3
  <2>4. p \in paidBills' /\ (fee[p].kind # "SERVICE" \/ p \in served) => ledger'[p] = Whole(p)
    BY <1>5, <1>7, <2>3 DEF FeeOK
  <2>5. p \notin paidBills' => ledger'[p] = NoEntry
    BY <1>5, <1>7, <2>3 DEF FeeOK
  <2>6. hold'[p] # {} =>
          /\ hold'[p] = {netOf(p)} /\ ledger'[p] = Whole(p) /\ p \in paidBills'
          /\ fee[p].kind \in {"MARKETPLACE", "SERVICE"}
    <3>1. CASE hold'[p] = hold[p]
      BY <1>5, <1>7, <2>3, <3>1 DEF FeeOK
    <3>2. CASE hold'[p] = {netOf(p)} /\ (trade(p) \/ work(p))
      BY <2>1, <3>2
    <3> QED BY <1>8, <3>1, <3>2
  <2> QED BY <1>p, <1>5, <1>7, <1>9, <1>11, <2>2, <2>3, <2>4, <2>5, <2>6 DEF FeeOK
<1>13. ASSUME NEW q \in BillIds, q # p PROVE FeeOK(q)'
  BY <1>3, <1>7, <1>8, <1>9, <1>11, <1>13 DEF BooksInv, FeeOK
<1>14. SeenOK'
  <2> SUFFICES ASSUME NEW m \in BillReports, NEW q \in report'[m].bill
               PROVE  /\ bill'[q].status # "NONE"
                      /\ q \in served' => report'[m].bound
                      /\ report'[m].bound => fee'[q].kind = "SERVICE"
    BY DEF SeenOK
  <2>1. m # n /\ report'[m] = report[m]
    BY <1>s, <1>3 DEF NoReport
  <2>2. q \in BillIds
    BY <1>s, <2>1 DEF ReportRows
  <2>3. bill'[q].status # "NONE"
    BY <1>3, <2>1, <2>2 DEF BooksInv, SeenOK, Outcomes
  <2> QED BY <1>9, <2>1, <2>2, <2>3 DEF BooksInv, SeenOK
<1> QED BY <1>10, <1>12, <1>13, <1>14 DEF BooksInv


LEMMA BooksMoves == BooksInv /\ [BooksNext]_bookVars => BooksInv'
<1> SUFFICES ASSUME BooksInv, [BooksNext]_bookVars PROVE BooksInv'
  OBVIOUS
<1>1. ASSUME NEW p \in BillIds, CreateFee(p) PROVE BooksInv'
  BY <1>1, CreateFeeKeeps
<1>2. ASSUME NEW n \in BillReports, ReadFee(n) PROVE BooksInv'
  BY <1>2, ReadFeeKeeps
<1>3. ASSUME NEW n \in BillReports, SettleFee(n) PROVE BooksInv'
  BY <1>3, SettleFeeKeeps
<1>4. CASE RaiseDispute \/ Resolve \/ CancelOrder \/ \E p \in BillIds : CancelAd(p)
  BY <1>4, OrderKeeps
<1>5. ASSUME NEW p \in BillIds, EndRefund(p) PROVE BooksInv'
  <2>1. BillSteps
    BY <1>5 DEF EndRefund, BillSteps
  <2> QED BY <1>5, <2>1, BillStepKeeps DEF EndRefund, orderVars, entryVars
<1>6. ASSUME NEW n \in BillReports, FeeSettlementEnds(n) PROVE BooksInv'
  <2>1. BillSteps
    BY <1>6 DEF FeeSettlementEnds, BillSteps
  <2> QED BY <1>6, <2>1, BillStepKeeps DEF FeeSettlementEnds, orderVars, entryVars
<1>7. ASSUME NEW p \in BillIds, OpenCheckout(p) \/ ProviderAnswers(p),
             UNCHANGED <<fee, orderVars, sawDispute, entryVars>>
      PROVE  BooksInv'
  <2>1. BillSteps
    BY <1>7 DEF BillSteps
  <2> QED BY <1>7, <2>1, BillStepKeeps DEF orderVars, entryVars
<1>8. CASE UNCHANGED bookVars
  <2>1. UNCHANGED <<bill, report, paidBills, fee, served, market, sawDispute, ledger, hold>>
    BY <1>8 DEF bookVars
  <2>2. BillsTypeOK'
    BY <2>1 DEF BooksInv, BooksTypeOK, BillsTypeOK
  <2>3. \A p \in BillIds : PaymentGoesOn(p)
    BY <2>1 DEF PaymentGoesOn
  <2>4. SeenNext
    BY <2>1, SeenStays
  <2> QED BY <2>1, <2>2, <2>3, <2>4, BooksBills, MarketShape, NothingSettled
<1> QED BY <1>1, <1>2, <1>3, <1>4, <1>5, <1>6, <1>7, <1>8 DEF BooksNext

\* The entries and the amount of a payment.
LEMMA EntriesAdd ==
  ASSUME BooksInv, NEW p \in BillIds
  PROVE  /\ ledger[p] = NoEntry =>
              /\ Entries(p) = 0
              /\ ledger[p]["EARNING"] = 0 /\ ledger[p]["PLATFORM_COMMISSION"] = 0
         /\ ledger[p] = Whole(p) =>
              /\ fee[p].kind \in {"MARKETPLACE", "DIGITAL", "SERVICE", "ADVERTISING"} =>
                   Entries(p) = fee[p].amount
              /\ fee[p].kind \in {"MARKETPLACE", "DIGITAL", "SERVICE"} =>
                   /\ ledger[p]["EARNING"] = netOf(p)
                   /\ ledger[p]["PLATFORM_COMMISSION"] = fee[p].commission
              /\ fee[p].kind \in {"MARKETPLACE_INSTALLMENT", "NONE"} => Entries(p) = 0
<1>1. fee[p] \in FeeRows /\ fee[p].commission <= fee[p].amount
  BY BooksBills DEF BooksInv, FeeOK
<1>2. Entries(p) = ledger[p]["EARNING"] + ledger[p]["PLATFORM_COMMISSION"] + ledger[p]["PLATFORM_REVENUE"]
  BY DEF Entries
<1>3. ledger[p] = NoEntry =>
        /\ ledger[p]["EARNING"] = 0 /\ ledger[p]["PLATFORM_COMMISSION"] = 0
        /\ ledger[p]["PLATFORM_REVENUE"] = 0
  BY DEF NoEntry, EntryTypes
<1>4. netOf(p) + fee[p].commission = fee[p].amount /\ fee[p].amount \in Nat /\ fee[p].commission \in Nat
  BY <1>1 DEF netOf, FeeRows
<1> QED BY <1>1, <1>2, <1>3, <1>4, WholeParts

\* The books balance.
LEMMA BooksGive == BooksInv => BooksBalance
<1> SUFFICES ASSUME BooksInv PROVE BooksBalance
  OBVIOUS
<1>1. EnteredWhole
  <2> SUFFICES ASSUME NEW p \in BillIds
               PROVE  /\ Entries(p) \in {0, fee[p].amount}
                      /\ p \in paidBills /\ fee[p].kind \in {"MARKETPLACE", "DIGITAL", "ADVERTISING"} =>
                           Entries(p) = fee[p].amount
                      /\ fee[p].kind = "MARKETPLACE_INSTALLMENT" => Entries(p) = 0
                      /\ p \notin paidBills => Entries(p) = 0
                      /\ hold[p] \subseteq {ledger[p].EARNING}
    BY DEF EnteredWhole
  <2>1. FeeOK(p) /\ fee[p].kind \in Kinds \cup {"NONE"}
    BY BooksBills DEF BooksInv, FeeRows
  <2> QED BY <2>1, EntriesAdd DEF FeeOK, Kinds
<1>2. SourcesAgree
  <2> SUFFICES ASSUME NEW kind \in Kinds \ {"ADVERTISING"},
                      \A p \in paidBills \cap OfKind({kind}) : bill[p].status = "PAID" /\ Entries(p) # 0
               PROVE  /\ ReportedCommission(kind) = BookedOf(kind, "PLATFORM_COMMISSION")
                      /\ PaidVolume(kind) = BookedVolume(kind)
    BY DEF SourcesAgree
  <2>1. ASSUME NEW p \in BillIds
        PROVE  /\ p \in PaidOf(kind) =>
                    /\ p \in OfKind({kind}) /\ Commission[p] = ledger[p]["PLATFORM_COMMISSION"]
                    /\ Amount[p] = Entries(p)
               /\ p \in OfKind({kind}) \ PaidOf(kind) =>
                    ledger[p]["PLATFORM_COMMISSION"] = 0 /\ Entries(p) = 0
    <3>1. FeeOK(p)
      BY DEF BooksInv
    <3>2. CASE p \in PaidOf(kind)
      <4>1. p \in paidBills /\ p \in OfKind({kind}) /\ fee[p].kind = kind
        BY <3>1, <3>2 DEF PaidOf, Having, OfKind, FeeOK, Settled
      <4>2. Entries(p) # 0
        BY <4>1
      <4>3. ledger[p] = Whole(p)
        BY <3>1, <4>2, EntriesAdd DEF FeeOK
      <4>4. kind \in {"MARKETPLACE", "DIGITAL", "SERVICE"}
        BY <4>1, <4>2, <4>3, EntriesAdd DEF Kinds
      <4> QED BY <3>2, <4>1, <4>3, <4>4, EntriesAdd DEF Commission, Amount
    <3>3. CASE p \in OfKind({kind}) \ PaidOf(kind)
      <4>1. p \notin paidBills
        BY <3>3 DEF PaidOf, Having
      <4> QED BY <3>1, <3>3, <4>1, EntriesAdd DEF FeeOK
    <3> QED BY <3>2, <3>3
  <2>2. ReportedCommission(kind) = BookedOf(kind, "PLATFORM_COMMISSION")
    <3>1. [p \in BillIds |-> IF p \in PaidOf(kind) THEN Commission[p] ELSE 0]
            = [p \in BillIds |-> IF p \in OfKind({kind})
                                 THEN [q \in BillIds |-> ledger[q]["PLATFORM_COMMISSION"]][p] ELSE 0]
      BY <2>1
    <3> QED BY <3>1 DEF ReportedCommission, BookedOf, Total
  <2>3. PaidVolume(kind) = BookedVolume(kind)
    <3>1. [p \in BillIds |-> IF p \in PaidOf(kind) THEN Amount[p] ELSE 0]
            = [p \in BillIds |-> IF p \in OfKind({kind})
                                 THEN [q \in BillIds |-> Entries(q)][p] ELSE 0]
      BY <2>1
    <3> QED BY <3>1 DEF PaidVolume, BookedVolume, Total
  <2> QED BY <2>2, <2>3
<1> QED BY <1>1, <1>2 DEF BooksBalance

\* The books balance, whatever is settled twice, disputed, cancelled or returned
\* (settlePaymentCore, writeLedger, the replay of disputes).
THEOREM BooksBalanced == BooksSpec => []BooksBalance
BY BooksAtFirst, BooksMoves, BooksGive, PTL DEF BooksSpec

\* A payment has an amount from its creation on.
PricedOK ==
  \A p \in BillIds : IF bill[p].status = "NONE" THEN fee[p].amount = 0 ELSE fee[p].amount # 0

\* At first there is no payment.
LEMMA PricedAtFirst == BooksInit => PricedOK
BY DEF BooksInit, BillsInit, PricedOK, NoBill, NoFee

\* A payment that is there stays there.
LEMMA BillsStay ==
  ASSUME BooksInv, BooksNext, NEW q \in BillIds, ~CreateFee(q)
  PROVE  fee'[q].amount = fee[q].amount /\ (bill'[q].status = "NONE" <=> bill[q].status = "NONE")
<1>s. /\ bill \in [BillIds -> BillRows] /\ report \in [BillReports -> ReportRows]
      /\ fee \in [BillIds -> FeeRows]
  BY BooksBills
<1>1. ASSUME NEW p \in BillIds, p # q, CreateFee(p) PROVE fee'[q] = fee[q] /\ bill'[q] = bill[q]
  BY <1>s, <1>1 DEF CreateFee, CreateBill
<1>2. ASSUME NEW n \in BillReports, ReadFee(n) \/ FeeSettlementEnds(n)
      PROVE  fee' = fee /\ bill' = bill
  BY <1>2 DEF ReadFee, ReadBill, FeeSettlementEnds, SettlementEnds
<1>3. ASSUME NEW n \in BillReports, SettleFee(n)
      PROVE  fee' = fee /\ (bill'[q].status = "NONE" <=> bill[q].status = "NONE")
  <2>1. PICK p \in report[n].bill : WriteBill(n, p) /\ fee' = fee
    BY <1>3 DEF SettleFee
  <2>2. p \in BillIds /\ bill[p].status # "NONE"
    BY <1>s, <2>1 DEF BooksInv, SeenOK, ReportRows
  <2>3. bill'[p].status # "NONE"
    BY <1>s, <2>1, <2>2 DEF WriteBill, ReportRows, Outcomes, BillRows
  <2>4. q # p => bill'[q] = bill[q]
    BY <1>s, <2>1 DEF WriteBill
  <2> QED BY <2>1, <2>2, <2>3, <2>4
<1>4. ASSUME RaiseDispute \/ Resolve PROVE fee' = fee /\ bill' = bill
  BY <1>4 DEF RaiseDispute, Resolve, billVars
<1>5. ASSUME CancelOrder
      PROVE  fee' = fee /\ (bill'[q].status = "NONE" <=> bill[q].status = "NONE")
  <2>1. \/ bill'[q] = bill[q]
        \/ /\ bill[q].status = "PAID"
           /\ bill'[q] = [bill[q] EXCEPT !.status = "REFUND_PENDING"]
        \/ /\ bill[q].status = "PENDING"
           /\ bill'[q] = [bill[q] EXCEPT !.status = "FAILED"]
    BY <1>5 DEF CancelOrder, Having
  <2> QED BY <1>5, <1>s, <2>1 DEF CancelOrder, BillRows
<1>6. ASSUME NEW p \in BillIds,
             CancelAd(p) \/ EndRefund(p)
             \/ ((OpenCheckout(p) \/ ProviderAnswers(p)) /\ UNCHANGED fee)
      PROVE  fee' = fee /\ (bill'[q].status = "NONE" <=> bill[q].status = "NONE")
  BY <1>6, <1>s DEF CancelAd, EndRefund, RefundEnds, OpenCheckout, ProviderAnswers, BillRows
<1> QED BY <1>1, <1>2, <1>3, <1>4, <1>5, <1>6 DEF BooksNext

\* Only a creation gives a payment its amount.
LEMMA PricedStep == BooksInv /\ PricedOK /\ [BooksNext]_bookVars => PricedOK'
<1> SUFFICES ASSUME BooksInv, PricedOK, [BooksNext]_bookVars, NEW q \in BillIds
             PROVE  IF bill'[q].status = "NONE" THEN fee'[q].amount = 0 ELSE fee'[q].amount # 0
  BY DEF PricedOK
<1>s. bill \in [BillIds -> BillRows] /\ fee \in [BillIds -> FeeRows]
  BY BooksBills
<1>1. CASE CreateFee(q)
  <2>1. bill'[q].status = "PENDING"
    BY <1>1, <1>s DEF CreateFee, CreateBill
  <2>2. fee'[q].amount \in Amounts
    BY <1>1, <1>s DEF CreateFee
  <2> QED BY <2>1, <2>2, BooksAssumption
<1>2. CASE ~CreateFee(q) /\ BooksNext
  BY <1>2, BillsStay DEF PricedOK
<1>3. CASE UNCHANGED bookVars
  BY <1>3 DEF bookVars, PricedOK
<1> QED BY <1>1, <1>2, <1>3

\* The entries of one payment are made, or some payouts are, and nothing is
\* written over: a step of the abstract books.
LEMMA WritesAreBookings ==
  ASSUME BooksInv, BooksInv', PricedOK', fee' = fee,
         NEW p \in BillIds,
         ledger' = [ledger EXCEPT ![p] = ledger'[p]],
         ledger[p] # NoEntry => ledger'[p] = ledger[p],
         \A q \in BillIds : hold'[q] = hold[q] \/ hold[q] = {},
         ledger' = ledger \/ \A q \in BillIds \ {p} : hold'[q] = hold[q]
  PROVE  [Ledger!Next]_(Ledger!books)
<1>s. /\ fee \in [BillIds -> FeeRows] /\ ledger \in [BillIds -> [EntryTypes -> Nat]]
      /\ ledger' \in [BillIds -> [EntryTypes -> Nat]]
      /\ hold \in [BillIds -> SUBSET Nat] /\ hold' \in [BillIds -> SUBSET Nat]
  BY BooksBills, BooksShape DEF BooksInv, BooksTypeOK
<1>a. Ledger!Types = EntryTypes /\ Ledger!Blank = NoEntry
  BY DEF Ledger!Types, Ledger!Blank, EntryTypes, NoEntry
<1>b. \A q \in BillIds : Ledger!Sum(ledger[q]) = Entries(q) /\ Ledger!Sum(ledger'[q]) = Entries(q)'
  BY DEF Ledger!Sum, Entries
<1>c. UNCHANGED Amount
  BY DEF Amount
<1>d. \A q \in BillIds : netOf(q)' = netOf(q) /\ Whole(q)' = Whole(q)
  BY DEF netOf, Whole, EntriesFor
\* What is there is whole, and not nothing.
<1>1. ASSUME NEW q \in BillIds, ledger'[q] = Whole(q), ledger'[q] # NoEntry
      PROVE  Entries(q)' = fee[q].amount
  <2>1. /\ Whole(q) # NoEntry
        /\ fee[q] \in FeeRows /\ fee[q].commission <= fee[q].amount
    BY <1>1, <1>s DEF BooksInv, FeeOK
  <2>2. fee[q].kind \notin {"MARKETPLACE_INSTALLMENT", "NONE"}
    BY <2>1, WholeParts
  <2>3. Entries(q)' = Whole(q)["EARNING"] + Whole(q)["PLATFORM_COMMISSION"]
                        + Whole(q)["PLATFORM_REVENUE"]
    BY <1>1 DEF Entries
  <2>4. netOf(q) + fee[q].commission = fee[q].amount
    BY <2>1 DEF netOf, FeeRows
  <2> QED BY <2>1, <2>2, <2>3, <2>4, WholeParts DEF FeeRows, Kinds
<1>2. ASSUME NEW q \in BillIds, hold'[q] # {}
      PROVE  hold'[q] = {ledger'[q].EARNING} /\ ledger'[q] # NoEntry
  <2>1. /\ hold'[q] = {netOf(q)} /\ ledger'[q] = Whole(q)
        /\ fee[q].kind \in {"MARKETPLACE", "SERVICE"} /\ q \in paidBills'
        /\ fee[q].commission <= fee[q].amount
    BY <1>2, <1>d DEF BooksInv, FeeOK
  <2>2. /\ Whole(q)["EARNING"] = netOf(q)
        /\ Whole(q)["PLATFORM_COMMISSION"] = fee[q].commission
    BY <1>s, <2>1, WholeParts
  <2>3. fee[q].amount # 0
    <3>1. bill'[q].status # "NONE"
      BY <2>1 DEF BooksInv, FeeOK
    <3> QED BY <3>1 DEF PricedOK
  <2>4. Whole(q) # NoEntry
    <3>1. CASE Whole(q) = NoEntry
      <4>1. netOf(q) = 0 /\ fee[q].commission = 0
        BY <2>2, <3>1 DEF NoEntry, EntryTypes
      <4> QED BY <1>s, <2>3, <4>1 DEF netOf, FeeRows
    <3> QED BY <3>1
  <2> QED BY <2>1, <2>2, <2>4
\* The payouts made in this step.
<1> DEFINE S == {q \in BillIds : hold'[q] # hold[q]}
<1>3. Ledger!Owe(S)
  <2>1. \A q \in S : hold[q] = {} /\ hold'[q] = {ledger'[q].EARNING} /\ ledger'[q] # NoEntry
    BY <1>2
  <2>2. \A q \in BillIds : hold'[q] = IF q \in S THEN {ledger'[q].EARNING} ELSE hold[q]
    BY <2>1
  <2> QED BY <1>a, <1>s, <2>1, <2>2 DEF Ledger!Owe
<1>4. CASE ledger' = ledger
  BY <1>3, <1>4, <1>c DEF Ledger!PayLater, Ledger!Next
<1>5. CASE ledger' # ledger
  <2>1. ledger[p] = NoEntry /\ ledger'[p] # NoEntry
    <3>1. ledger'[p] # ledger[p]
      BY <1>5, <1>s
    <3> QED BY <3>1
  <2>2. ledger'[p] = Whole(p)
    BY <1>d, <2>1 DEF BooksInv, FeeOK
  <2>3. Entries(p)' = fee[p].amount
    BY <1>1, <2>1, <2>2
  <2>4. p \in paidBills'
    BY <2>1 DEF BooksInv, FeeOK
  <2>5. fee[p].amount # 0
    BY <2>4 DEF BooksInv, FeeOK, PricedOK
  <2>6. S \in SUBSET {p}
    BY <1>5
  <2> HIDE DEF S
  <2>7. Ledger!Enter(p)
    <3>1. Amount[p] = fee[p].amount
      BY DEF Amount
    <3>2. Ledger!Sum(ledger'[p]) = Amount[p]
      BY <1>b, <2>3, <3>1
    <3>3. ledger'[p] \in [Ledger!Types -> Nat]
      BY <1>a, <1>s
    <3> QED BY <1>3, <1>a, <1>c, <2>1, <2>5, <2>6, <3>1, <3>2, <3>3 DEF Ledger!Enter
  <2> QED BY <2>7 DEF Ledger!Next
<1> QED BY <1>4, <1>5

\* A settlement enters what it settles unless it is there, and a payout likewise.
LEMMA SettlementBooks ==
  ASSUME BooksInv, BooksInv', PricedOK', NEW n \in BillReports, SettleFee(n)
  PROVE  [Ledger!Next]_(Ledger!books)
<1>s. /\ report \in [BillReports -> ReportRows]
      /\ ledger \in [BillIds -> [EntryTypes -> Nat]] /\ hold \in [BillIds -> SUBSET Nat]
  BY BooksBills
<1> DEFINE new(p) == EntriesFor(p, report[n].bound)
<1>1. PICK p \in report[n].bill :
        /\ ledger' = ledger \/ ledger' = [ledger EXCEPT ![p] = Entered(ledger[p], new(p))]
        /\ HeldFor({p}) \/ HeldFor({})
        /\ fee' = fee
  BY DEF SettleFee
<1> HIDE DEF new
<1>2. p \in BillIds
  BY <1>s DEF ReportRows
<1>3. ledger' = [ledger EXCEPT ![p] = ledger'[p]]
  BY <1>s, <1>1, <1>2
<1>4. ledger[p] # NoEntry => ledger'[p] = ledger[p]
  <2> SUFFICES ASSUME ledger[p] # NoEntry, ledger' = [ledger EXCEPT ![p] = Entered(ledger[p], new(p))]
               PROVE  ledger'[p] = ledger[p]
    BY <1>1
  <2>1. ledger'[p] = Entered(ledger[p], new(p))
    BY <1>s, <1>2
  <2>2. ledger[p] = Whole(p) /\ ledger'[p] \in {NoEntry, Whole(p)}
    <3>1. Whole(p)' = Whole(p)
      BY <1>1 DEF Whole, EntriesFor, netOf
    <3> QED BY <1>2, <3>1 DEF BooksInv, FeeOK
  <2>3. PICK type \in EntryTypes : ledger[p][type] # 0
    BY <1>s, <1>2 DEF NoEntry
  <2>4. ledger'[p][type] # 0
    BY <2>1, <2>3 DEF Entered
  <2>5. ledger'[p] # NoEntry
    BY <2>4 DEF NoEntry
  <2> QED BY <2>2, <2>5
<1>5. /\ \A q \in BillIds : hold'[q] = hold[q] \/ hold[q] = {}
      /\ \A q \in BillIds \ {p} : hold'[q] = hold[q]
  BY <1>1 DEF HeldFor
<1> QED BY <1>1, <1>2, <1>3, <1>4, <1>5, WritesAreBookings

\* The end of a dispute makes payouts of what was entered.
LEMMA ReplayBooks ==
  ASSUME BooksInv, BooksInv', PricedOK', Resolve
  PROVE  [Ledger!Next]_(Ledger!books)
<1>s. ledger \in [BillIds -> [EntryTypes -> Nat]]
  BY BooksBills
<1>1. ledger' = ledger /\ fee' = fee /\ \E pays : HeldFor(pays)
  BY DEF Resolve, Replayed
<1>2. hold' = [q \in BillIds |-> hold'[q]] /\ \A q \in BillIds : hold'[q] = hold[q] \/ hold[q] = {}
  BY <1>1 DEF HeldFor
<1>3. CASE BillIds = {}
  <2>1. hold' = hold
    BY <1>2, <1>3, BooksBills
  <2> QED BY <1>1, <2>1 DEF Ledger!books, Amount
<1>4. CASE BillIds # {}
  <2>1. PICK p \in BillIds : TRUE
    BY <1>4
  <2>2. ledger' = [ledger EXCEPT ![p] = ledger'[p]]
    BY <1>s, <1>1, <2>1
  <2> QED BY <1>1, <1>2, <2>1, <2>2, WritesAreBookings
<1> QED BY <1>3, <1>4

\* Every step is a step of the abstract books or leaves them as they are.
LEMMA BooksAreKept ==
  ASSUME BooksInv, BooksInv', PricedOK, PricedOK', [BooksNext]_bookVars
  PROVE  [Ledger!Next]_(Ledger!books)
<1>s. bill \in [BillIds -> BillRows] /\ fee \in [BillIds -> FeeRows]
  BY BooksBills
<1>0. ASSUME UNCHANGED <<fee, ledger, hold>> PROVE [Ledger!Next]_(Ledger!books)
  BY <1>0 DEF Ledger!books, Amount
<1>1. ASSUME NEW p \in BillIds, CreateFee(p) PROVE [Ledger!Next]_(Ledger!books)
  <2>1. UNCHANGED <<ledger, hold>> /\ \A q \in BillIds : q # p => fee'[q] = fee[q]
    BY <1>1, <1>s DEF CreateFee, entryVars
  <2>2. fee[p].amount = 0
    BY <1>1, <1>s DEF CreateFee, CreateBill, NoBill, PricedOK
  <2>3. fee'[p].amount \in Nat \ {0}
    <3>1. fee'[p].amount \in Amounts
      BY <1>1, <1>s DEF CreateFee
    <3> QED BY <3>1, BooksAssumption
  <2>4. Amount' = [Amount EXCEPT ![p] = Amount'[p]] /\ Amount[p] = 0 /\ Amount'[p] \in Nat \ {0}
    BY <2>1, <2>2, <2>3 DEF Amount
  <2>5. Ledger!Create(p)
    BY <2>1, <2>4 DEF Ledger!Create
  <2> QED BY <2>5 DEF Ledger!Next
<1>2. ASSUME NEW n \in BillReports, SettleFee(n) PROVE [Ledger!Next]_(Ledger!books)
  BY <1>2, SettlementBooks
<1>3. CASE Resolve
  BY <1>3, ReplayBooks
<1>4. ASSUME NEW n \in BillReports, ReadFee(n) \/ FeeSettlementEnds(n)
      PROVE  [Ledger!Next]_(Ledger!books)
  BY <1>0, <1>4 DEF ReadFee, FeeSettlementEnds, entryVars
<1>5. ASSUME NEW p \in BillIds,
             CancelAd(p) \/ EndRefund(p) \/ UNCHANGED <<fee, orderVars, sawDispute, entryVars>>
      PROVE  [Ledger!Next]_(Ledger!books)
  BY <1>0, <1>5 DEF CancelAd, EndRefund, entryVars
<1>6. CASE RaiseDispute \/ CancelOrder \/ UNCHANGED bookVars
  BY <1>0, <1>6 DEF RaiseDispute, CancelOrder, entryVars, bookVars
<1> QED BY <1>1, <1>2, <1>3, <1>4, <1>5, <1>6 DEF BooksNext

\* At first nothing is written.
LEMMA BooksBegin == BooksInit => Ledger!Init
BY DEF BooksInit, Ledger!Init, Ledger!Blank, Ledger!Types, NoEntry, EntryTypes, NoFee, Amount

\* The books are written once: a payment's entries at one moment, its payout from
\* them, and neither is changed by a repeated settlement, a dispute, a cancellation
\* or a refund (writeLedger, createPayoutHold, replayDisputedPaidPayment).
THEOREM BooksAreLedger == BooksSpec => LedgerSpec
BY BooksBegin, BooksAtFirst, BooksMoves, PricedAtFirst, PricedStep, BooksAreKept, PTL
   DEF BooksSpec, LedgerSpec, Ledger!Spec

-----------------------------------------------------------------------------
\* The services together.

ServicesInv ==
  /\ part \in Parts
  /\ EarnedInv /\ PriceInv /\ IdemInv /\ OutboxInv /\ ChainInv /\ DigitalInv /\ AdsInv
  /\ part = "books" => BooksInv
  /\ part # "books" => BooksIdle

\* No buyer, campaign or order takes back that something was settled.
LEMMA PaidGrows ==
  ASSUME BillsInv, DigitalNext \/ AdsNext \/ BooksNext
  PROVE  paidBills \subseteq paidBills'
<1>1. ASSUME BillSteps PROVE paidBills' = paidBills
  BY <1>1, BillStepsKeep
<1>2. ASSUME NEW n \in BillReports, NEW p \in BillIds, WriteBill(n, p)
      PROVE  paidBills \subseteq paidBills'
  BY <1>2 DEF WriteBill
<1>3. CASE DigitalNext
  <2>1. ASSUME NEW t \in Taps,
               \/ ReadPurchase(t) \/ ReadDuplicate(t) \/ BillPurchase(t)
               \/ WritePurchase(t) \/ RecoverPurchase(t) \/ TapEnds(t)
        PROVE  paidBills' = paidBills
    BY <2>1 DEF ReadPurchase, ReadDuplicate, BillPurchase, CreateBill, WritePurchase,
                RecoverPurchase, TapEnds, billVars
  <2>2. ASSUME NEW n \in BillReports, ReadProductBill(n) \/ SettleProduct(n)
        PROVE  paidBills \subseteq paidBills'
    BY <1>2, <2>2 DEF ReadProductBill, ReadBill, SettleProduct
  <2> QED BY <1>1, <1>3, <2>1, <2>2 DEF DigitalNext
<1>4. CASE AdsNext
  <2>1. ASSUME NEW c \in AdCalls,
               \/ ReadUnpaid(c) \/ BillCampaign(c)
               \/ ReadForReview(c) \/ Approve(c)
               \/ ReadTelegram(c) \/ PublishTelegram(c)
               \/ ReadForCancel(c) \/ CancelCampaign(c) \/ AdCallEnds(c)
        PROVE  paidBills' = paidBills
    BY <2>1 DEF ReadUnpaid, BillCampaign, CreateBill, ReadForReview, Approve, ReadTelegram,
                PublishTelegram, ReadForCancel, CancelCampaign, AdCallEnds, ReadAd, billVars
  <2>2. ASSUME NEW n \in BillReports, ReadCampaignBill(n) \/ SettleCampaign(n)
        PROVE  paidBills \subseteq paidBills'
    BY <1>2, <2>2 DEF ReadCampaignBill, ReadBill, SettleCampaign
  <2>3. ASSUME TakeDown \/ ExpireAdvertisement \/ ActivateScheduled \/ DatePasses
        PROVE  paidBills' = paidBills
    BY <2>3 DEF TakeDown, ExpireAdvertisement, ActivateScheduled, DatePasses, billVars
  <2> QED BY <1>1, <1>4, <2>1, <2>2, <2>3 DEF AdsNext
<1>5. CASE BooksNext
  <2>1. ASSUME NEW p \in BillIds,
               CreateFee(p) \/ CancelAd(p) \/ EndRefund(p) \/ OpenCheckout(p) \/ ProviderAnswers(p)
        PROVE  paidBills' = paidBills
    BY <2>1 DEF CreateFee, CreateBill, CancelAd, EndRefund, RefundEnds, OpenCheckout, ProviderAnswers
  <2>2. ASSUME NEW n \in BillReports, ReadFee(n) \/ SettleFee(n) \/ FeeSettlementEnds(n)
        PROVE  paidBills \subseteq paidBills'
    BY <2>2 DEF ReadFee, ReadBill, SettleFee, WriteBill, FeeSettlementEnds, SettlementEnds
  <2>3. ASSUME RaiseDispute \/ Resolve \/ CancelOrder PROVE paidBills' = paidBills
    BY <2>3 DEF RaiseDispute, Resolve, CancelOrder, billVars
  <2> QED BY <1>5, <2>1, <2>2, <2>3 DEF BooksNext
<1> QED BY <1>3, <1>4, <1>5

\* All services start from one of their states.
LEMMA ServicesAtFirst == ServicesInit => ServicesInv
BY EarnedAtFirst, PriceAtFirst, IdemAtFirst, OutboxAtFirst, ChainAtFirst, DigitalAtFirst, AdsAtFirst,
   BooksAtFirst DEF ServicesInit, ServicesInv

\* What a service that is not at work promises stays so.
LEMMA OthersRest ==
  ASSUME ServicesInv
  PROVE  /\ UNCHANGED standingVars => EarnedInv'
         /\ UNCHANGED priceVars => PriceInv'
         /\ UNCHANGED idemVars => IdemInv'
         /\ UNCHANGED outboxVars => OutboxInv'
         /\ UNCHANGED sessionVars => ChainInv'
         /\ UNCHANGED <<billVars, purchase, tap>> => DigitalInv'
         /\ UNCHANGED <<billVars, campaign, adCall, reviewed>> => AdsInv'
         /\ part # "books" /\ UNCHANGED <<part, feeVars>> =>
              (part = "books" => BooksInv)' /\ (part # "books" => BooksIdle)'
<1>1. UNCHANGED <<billVars, purchase, tap>> => UNCHANGED digitalVars
  BY DEF billVars, digitalVars
<1>2. UNCHANGED <<billVars, campaign, adCall, reviewed>> => UNCHANGED adVars
  BY DEF billVars, adVars
<1>3. part # "books" /\ UNCHANGED <<part, feeVars>> => BooksIdle' /\ part' # "books"
  BY DEF ServicesInv, BooksIdle, feeVars
<1> QED BY <1>1, <1>2, <1>3, EarnedStep, PriceStepKeeps, IdemStep, OutboxMoves, ChainStep,
           DigitalMoves, AdsMoves DEF ServicesInv

\* A step is one of the service at work.
LEMMA ServicesMoves == ServicesInv /\ [ServicesNext]_servicesVars => ServicesInv'
<1> SUFFICES ASSUME ServicesInv, [ServicesNext]_servicesVars PROVE ServicesInv'
  OBVIOUS
<1>1. CASE StandingStep
  BY <1>1, OthersRest, EarnedStep DEF StandingStep, ServicesInv
<1>2. CASE PriceStep
  BY <1>2, OthersRest, PriceStepKeeps DEF PriceStep, ServicesInv
<1>3. CASE IdempotencyStep
  BY <1>3, OthersRest, IdemStep DEF IdempotencyStep, ServicesInv
<1>4. CASE OutboxStep
  BY <1>4, OthersRest, OutboxMoves DEF OutboxStep, ServicesInv
<1>5. CASE SessionsStep
  BY <1>5, OthersRest, ChainStep DEF SessionsStep, ServicesInv
<1>6. CASE DigitalStep
  <2>1. DigitalInv' /\ BillsInv' /\ BillsInv
    BY <1>6, DigitalMoves DEF DigitalStep, ServicesInv, DigitalInv, DigitalTypeOK, BillsInv
  <2>2. paidBills \subseteq paidBills'
    BY <1>6, <2>1, PaidGrows DEF DigitalStep
  <2>3. AdsInv'
    BY <1>6, <2>1, <2>2, AdsAside DEF DigitalStep, ServicesInv
  <2> QED BY <1>6, <2>1, <2>3, OthersRest DEF DigitalStep, ServicesInv
<1>7. CASE AdsStep
  <2>1. AdsInv' /\ BillsInv' /\ BillsInv
    BY <1>7, AdsMoves DEF AdsStep, ServicesInv, AdsInv, AdsTypeOK, BillsInv
  <2>2. paidBills \subseteq paidBills'
    BY <1>7, <2>1, PaidGrows DEF AdsStep
  <2>3. DigitalInv'
    BY <1>7, <2>1, <2>2, DigitalAside DEF AdsStep, ServicesInv
  <2> QED BY <1>7, <2>1, <2>3, OthersRest DEF AdsStep, ServicesInv
<1>8. CASE BooksStep
  <2>1. BooksInv /\ BooksInv'
    BY <1>8, BooksMoves DEF BooksStep, ServicesInv
  <2>2. BillsInv /\ BillsInv'
    BY <2>1, BooksBills DEF BooksInv, BillsInv, BooksTypeOK, FeeOK, PaidOK, Settled
  <2>3. paidBills \subseteq paidBills'
    BY <1>8, <2>2, PaidGrows DEF BooksStep
  <2>4. DigitalInv' /\ AdsInv'
    BY <1>8, <2>2, <2>3, DigitalAside, AdsAside DEF BooksStep, ServicesInv
  <2> QED BY <1>8, <2>1, <2>4, OthersRest DEF BooksStep, ServicesInv
<1>9. CASE UNCHANGED servicesVars
  <2>1. /\ part' = part
        /\ UNCHANGED standingVars /\ UNCHANGED priceVars /\ UNCHANGED idemVars
        /\ UNCHANGED outboxVars /\ UNCHANGED sessionVars
        /\ UNCHANGED <<billVars, purchase, tap>>
        /\ UNCHANGED <<billVars, campaign, adCall, reviewed>>
    BY <1>9 DEF servicesVars
  <2>2. UNCHANGED feeVars /\ UNCHANGED bookVars
    BY <1>9 DEF servicesVars, feeVars, bookVars, billVars
  <2>3. (part = "books" => BooksInv)' /\ (part # "books" => BooksIdle)'
    BY <2>1, <2>2, BooksMoves, OthersRest DEF ServicesInv
  <2> QED BY <2>1, <2>3, OthersRest DEF ServicesInv
<1> QED BY <1>1, <1>2, <1>3, <1>4, <1>5, <1>6, <1>7, <1>8, <1>9 DEF ServicesNext

\* The invariants hold together.
LEMMA ServicesInductive == ServicesSpec => []ServicesInv
BY ServicesAtFirst, ServicesMoves, PTL DEF ServicesSpec

\* The rows, copies and requests of every service have their types, whichever is
\* at work.
THEOREM ServicesTyped == ServicesSpec => []ServicesTypeOK
<1>1. ServicesInv => BooksTypeOK
  BY IdleGives DEF ServicesInv, BooksInv, AdsInv, AdsTypeOK, BillsInv
<1>2. ServicesInv => ServicesTypeOK
  BY <1>1 DEF ServicesInv, ServicesTypeOK, EarnedInv, PriceInv, IdemInv, OutboxInv, ChainInv,
         DigitalInv, AdsInv
<1> QED BY <1>2, ServicesInductive, PTL

\* Every service keeps its promise beside the others: penalties are earned, one
\* price is agreed, requests run once, texts are counted, families are chains.
THEOREM ServicesKeepPromises ==
  ServicesSpec => [](/\ PenaltiesAreEarned /\ PriceIsAgreedOnce /\ OneRunAtATime
                     /\ TextsAreAccountedFor /\ FamilyIsAChain)
<1>1. ServicesInv => /\ PenaltiesAreEarned /\ PriceIsAgreedOnce /\ OneRunAtATime
                     /\ TextsAreAccountedFor /\ FamilyIsAChain
  BY EarnedGives, IdemGives, OutboxGives DEF ServicesInv, PriceInv, ChainInv
<1> QED BY <1>1, ServicesInductive, PTL

\* Nothing is delivered or shown unpaid, although the two services share the
\* payments and their settlements (settlePaymentCore).
THEOREM DeliveriesWerePaid == ServicesSpec => []DeliveredWasPaid
<1>1. ServicesInv => DeliveredWasPaid
  BY DEF ServicesInv, DeliveredWasPaid, DigitalInv, AdsInv
<1> QED BY <1>1, ServicesInductive, PTL

\* The books balance among the services that share the payments with them
\* (writeLedger, the reports of admin.js and payments.js).
THEOREM BooksAreBalanced == ServicesSpec => []BooksBalance
<1>1. ServicesInv => BooksBalance
  BY BooksGive, IdleGives DEF ServicesInv, AdsInv, AdsTypeOK, BillsInv
<1> QED BY <1>1, ServicesInductive, PTL

\* A step of the services is a step of each of them, or leaves it as it is.
LEMMA StepsAreEach ==
  ASSUME [ServicesNext]_servicesVars
  PROVE  /\ part' = part
         /\ [PriceNext]_priceVars /\ [IdemNext]_idemVars
         /\ [OutboxNext]_outboxVars /\ [SessionsNext]_sessionVars
         /\ IF part = "books" THEN [BooksNext]_bookVars ELSE UNCHANGED feeVars
<1>1. CASE StandingStep \/ PriceStep \/ IdempotencyStep \/ OutboxStep
  BY <1>1 DEF StandingStep, PriceStep, IdempotencyStep, OutboxStep
<1>2. CASE SessionsStep \/ DigitalStep \/ AdsStep \/ BooksStep
  BY <1>2 DEF SessionsStep, DigitalStep, AdsStep, BooksStep
<1>3. CASE UNCHANGED servicesVars
  BY <1>3 DEF servicesVars, feeVars, bookVars, billVars
<1> QED BY <1>1, <1>2, <1>3 DEF ServicesNext

\* What the abstract agreement, delivery and books need besides the invariants.
PromisesInv ==
  /\ ServicesInv /\ OtherAnswers /\ CopyOK
  /\ part = "books" => PricedOK

\* It holds at first and stays so.
LEMMA PromisesKept ==
  /\ ServicesInit => PromisesInv
  /\ PromisesInv /\ [ServicesNext]_servicesVars => PromisesInv'
<1>1. ServicesInit => PromisesInv
  BY ServicesAtFirst, OtherAtFirst, CopyAtFirst, PricedAtFirst DEF ServicesInit, PromisesInv
<1>2. ASSUME PromisesInv, [ServicesNext]_servicesVars PROVE PromisesInv'
  <2>1. ServicesInv' /\ part' = part /\ [PriceNext]_priceVars /\ [OutboxNext]_outboxVars
        /\ (part = "books" => [BooksNext]_bookVars)
    BY <1>2, ServicesMoves, StepsAreEach DEF PromisesInv
  <2>2. OtherAnswers' /\ CopyOK'
    BY <1>2, <2>1, OtherStep, CopyStays DEF PromisesInv, ServicesInv
  <2>3. part = "books" => PricedOK'
    BY <1>2, <2>1, PricedStep DEF PromisesInv, ServicesInv
  <2> QED BY <2>1, <2>2, <2>3 DEF PromisesInv
<1> QED BY <1>1, <1>2

\* Repetitions, queued texts, sessions, prices and books keep what they promise
\* beside one another, whichever is at work (idempotencyMiddleware,
\* sendPendingSms, rotateRefreshSession, respond, writeLedger).
THEOREM ServicesImplement ==
  ServicesSpec => SingleEffectSpec /\ DeliverySpec /\ ChainSpec /\ AgreementSpec /\ LedgerSpec
<1>1. ServicesInit => /\ SingleEffect!Init /\ Delivery!Init /\ Chain!Init
                      /\ Agreement!Init /\ Ledger!Init
  BY SingleAtFirst, DeliveryBegins, ChainBegins, AgreementBegins, BooksBegin DEF ServicesInit
<1>2. PromisesInv /\ [ServicesNext]_servicesVars => [SingleEffect!Next]_(SingleEffect!all)
  BY StepsAreEach, EffectIsSingle DEF PromisesInv, ServicesInv
<1>3. PromisesInv /\ [ServicesNext]_servicesVars =>
        [Chain!Next]_<<[f \in Families |-> RowsOf(f)], [f \in Families |-> UsableOf(f)]>>
  BY StepsAreEach, ChainIsKept DEF PromisesInv, ServicesInv
<1>4. PromisesInv /\ [ServicesNext]_servicesVars => [Agreement!Next]_(Agreement!all)
  BY StepsAreEach, AgreementIsKept DEF PromisesInv, ServicesInv
<1>5. PromisesInv /\ PromisesInv' /\ [ServicesNext]_servicesVars => [Ledger!Next]_(Ledger!books)
  <2> SUFFICES ASSUME PromisesInv, PromisesInv', [ServicesNext]_servicesVars
               PROVE  [Ledger!Next]_(Ledger!books)
    OBVIOUS
  <2>1. CASE part = "books"
    BY <2>1, StepsAreEach, BooksAreKept DEF PromisesInv, ServicesInv
  <2>2. CASE part # "books"
    BY <2>2, StepsAreEach DEF feeVars, entryVars, Ledger!books, Amount
  <2> QED BY <2>1, <2>2
<1>6. PromisesInv /\ [ServicesNext]_servicesVars => [Delivery!Next]_(Delivery!all)
  BY StepsAreEach, DeliveryIsKept DEF PromisesInv, ServicesInv
<1> QED BY <1>1, <1>2, <1>3, <1>4, <1>5, <1>6, PromisesKept, PTL
       DEF ServicesSpec, SingleEffectSpec, SingleEffect!Spec, DeliverySpec, Delivery!Spec, ChainSpec, Chain!Spec,
           AgreementSpec, Agreement!Spec, LedgerSpec, Ledger!Spec
=============================================================================
