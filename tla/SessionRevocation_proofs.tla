----------------------- MODULE SessionRevocation_proofs -----------------------
(***************************************************************************)
(* Type correctness of SessionRevocation, and its three safety properties, *)
(* for any number of sessions, requests and deliveries, any clock bound    *)
(* and any access token life that the retention covers.                    *)
(***************************************************************************)
EXTENDS SessionRevocation, TLAPS

-----------------------------------------------------------------------------
(* The inductive invariant. *)

\* Every access token of s has been expired for some time.
Dead(s) == end[s] + Retention < now

\* A stored revocation that refuses every token of the ended session s.
Covers(x, s) == x.sid = s \/ (x.sid = NoSid /\ x.at >= end[s])

\* A row was written after the end of the session it names.
RowOK(x) ==
  /\ x.expire = x.at + Retention
  /\ x.sid \in Sessions => phase[x.sid] = "over" /\ end[x.sid] <= x.at
  /\ x.sid = NoSid => x.at \in handled

KeycloakOK ==
  /\ \A s \in Sessions : end[s] <= now /\ start[s] <= now
  /\ \A s \in Sessions : s \in outbox \/ s \in barred => phase[s] = "over"

HooksOK ==
  \A h \in Hooks :
    /\ hookAt[h] <= now
    /\ hookSid[h] \in Sessions => /\ phase[hookSid[h]] = "over"
                                  /\ hookPc[h] # "idle" /\ end[hookSid[h]] <= hookAt[h]

RowsOK == \A x \in rows : RowOK(x)

OldOK == \A h \in Hooks : \A x \in hookOld[h] : RowOK(x) /\ x.expire < now

RequestsOK ==
  \A q \in Requests :
    reqPc[q] = "check" =>
      /\ reqSid[q] \in Sessions /\ phase[reqSid[q]] # "new"
      /\ start[reqSid[q]] <= reqIat[q] /\ reqIat[q] <= now
      /\ phase[reqSid[q]] = "over" => reqIat[q] <= end[reqSid[q]]

Covered == \A s \in barred : Dead(s) \/ \E x \in rows : Covers(x, s)

IInv == TypeOK /\ KeycloakOK /\ HooksOK /\ RowsOK /\ OldOK /\ RequestsOK /\ Covered

-----------------------------------------------------------------------------

LEMMA InitOK == Init => IInv
  BY NoSidAssumption DEF Init, IInv, TypeOK, Sids, KeycloakOK, HooksOK, RowsOK, OldOK,
     RequestsOK, Covered

\* A sid that names a session is not NoSid.
LEMMA SidCases == \A m \in Sids : (m \in Sessions /\ m # NoSid) \/ (m = NoSid /\ m \notin Sessions)
  BY NoSidAssumption DEF Sids

LEMMA NewRowType ==
  ASSUME TypeOK, NEW h \in Hooks
  PROVE  /\ NewRow(h) \in Row
         /\ NewRow(h).sid = hookSid[h] /\ NewRow(h).at = hookAt[h]
         /\ NewRow(h).expire = hookAt[h] + Retention
  BY TimesAssumption DEF TypeOK, NewRow, Row, Sids

LEMMA TypeStep == TypeOK /\ [Next]_vars => TypeOK'
<1> SUFFICES ASSUME TypeOK, [Next]_vars PROVE TypeOK'
  OBVIOUS
<1> USE DEF TypeOK, keycloakVars, hookVars, reqVars, vars
<1>1. CASE Tick
  BY <1>1 DEF Tick
<1>2. CASE EndAll
  BY <1>2 DEF EndAll, Sids
<1>3. ASSUME NEW s \in Sessions, Login(s) PROVE TypeOK'
  BY <1>3 DEF Login
<1>4. ASSUME NEW s \in Sessions, EndSession(s) PROVE TypeOK'
  BY <1>4 DEF EndSession, Sids
<1>5. ASSUME NEW m \in Sids, Lost(m) PROVE TypeOK'
  BY <1>5 DEF Lost
<1>6. ASSUME NEW m \in Sids, NEW h \in Hooks, Receive(h, m) PROVE TypeOK'
  BY <1>6 DEF Receive
<1>7. ASSUME NEW h \in Hooks, Save(h) PROVE TypeOK'
  <2>1. NewRow(h) \in Row
    BY NewRowType
  <2>2. rows' \subseteq Row
    BY <1>7, <2>1 DEF Save
  <2>3. barred' \subseteq Sessions /\ handled' \subseteq Nat
    BY <1>7 DEF Save, Ended
  <2> QED
    BY <1>7, <2>2, <2>3 DEF Save
<1>8. ASSUME NEW h \in Hooks, SaveFails(h) PROVE TypeOK'
  BY <1>8 DEF SaveFails, HookEnds, Sids
<1>9. ASSUME NEW h \in Hooks, Find(h) PROVE TypeOK'
  BY <1>9 DEF Find
<1>10. ASSUME NEW h \in Hooks, PurgeEnds(h) PROVE TypeOK'
  BY <1>10 DEF PurgeEnds, HookEnds, Sids
<1>11. ASSUME NEW h \in Hooks, NEW x \in hookOld[h], Remove(h, x) PROVE TypeOK'
  BY <1>11 DEF Remove
<1>12. ASSUME NEW q \in Requests, NEW s \in Sessions, NEW i \in 0..MaxTime, Verify(q, s, i)
       PROVE  TypeOK'
  BY <1>12, TimesAssumption DEF Verify, Sids
<1>13. ASSUME NEW q \in Requests, Check(q) PROVE TypeOK'
  BY <1>13 DEF Check
<1>14. ASSUME NEW q \in Requests, Answer(q) PROVE TypeOK'
  BY <1>14 DEF Answer, Sids
<1>15. CASE UNCHANGED vars
  BY <1>15
<1> QED
  BY <1>1, <1>2, <1>3, <1>4, <1>5, <1>6, <1>7, <1>8, <1>9, <1>10, <1>11, <1>12, <1>13, <1>14, <1>15
  DEF Next

\* What a step of the clock or of Keycloak preserves: time passes, sessions that
\* have ended keep the time they ended at.
LEMMA OthersStep ==
  ASSUME IInv, TypeOK',
         now' \in Nat, now <= now',
         \A s \in Sessions : phase[s] = "over" => phase'[s] = "over" /\ end'[s] = end[s],
         UNCHANGED <<rows, hookVars, barred, handled>>
  PROVE  HooksOK' /\ RowsOK' /\ OldOK' /\ Covered'
<1>1. HooksOK'
  BY DEF IInv, TypeOK, HooksOK, hookVars
<1>2. ASSUME NEW x \in Row, RowOK(x) PROVE RowOK(x)'
  BY <1>2 DEF RowOK, Row
<1>3. RowsOK'
  BY <1>2 DEF IInv, TypeOK, RowsOK
<1>4. OldOK'
  <2> SUFFICES ASSUME NEW h \in Hooks, NEW x \in hookOld[h] PROVE RowOK(x)' /\ x.expire < now'
    BY DEF OldOK, hookVars
  <2>1. x \in Row /\ RowOK(x) /\ x.expire < now
    BY DEF IInv, TypeOK, OldOK
  <2>2. x.expire \in Nat /\ now \in Nat
    BY <2>1 DEF IInv, TypeOK, Row
  <2> QED
    BY <1>2, <2>1, <2>2
<1>5. Covered'
  <2> SUFFICES ASSUME NEW s \in barred PROVE Dead(s)' \/ \E x \in rows : Covers(x, s)'
    BY DEF Covered
  <2>1. s \in Sessions /\ phase[s] = "over" /\ end'[s] = end[s]
    BY DEF IInv, TypeOK, KeycloakOK
  <2>2. Dead(s) => Dead(s)'
    BY <2>1, TimesAssumption DEF Dead, IInv, TypeOK
  <2>3. \A x \in rows : Covers(x, s) => Covers(x, s)'
    BY <2>1 DEF Covers
  <2> QED
    BY <2>2, <2>3 DEF IInv, Covered
<1> QED
  BY <1>1, <1>3, <1>4, <1>5

LEMMA Step == IInv /\ [Next]_vars => IInv'
<1> SUFFICES ASSUME IInv, [Next]_vars PROVE IInv'
  OBVIOUS
<1>0. TypeOK /\ TypeOK'
  BY TypeStep DEF IInv
<1>1. CASE Tick
  <2>1. now' \in Nat /\ now <= now'
    BY <1>0, <1>1 DEF Tick, TypeOK
  <2>2. HooksOK' /\ RowsOK' /\ OldOK' /\ Covered'
    BY <1>0, <1>1, <2>1, OthersStep DEF Tick, keycloakVars, hookVars
  <2>3. KeycloakOK' /\ RequestsOK'
    BY <1>0, <1>1 DEF Tick, keycloakVars, reqVars, IInv, TypeOK, KeycloakOK, RequestsOK
  <2> QED
    BY <1>0, <2>2, <2>3 DEF IInv
<1>2. CASE EndAll
  <2>1. /\ now' = now /\ now \in Nat
        /\ \A s \in Sessions : phase[s] = "over" => phase'[s] = "over" /\ end'[s] = end[s]
    BY <1>0, <1>2 DEF EndAll, TypeOK
  <2>2. HooksOK' /\ RowsOK' /\ OldOK' /\ Covered'
    BY <1>0, <1>2, <2>1, OthersStep DEF EndAll
  <2>3. KeycloakOK'
    BY <1>0, <1>2, NoSidAssumption DEF EndAll, IInv, TypeOK, KeycloakOK
  <2>4. RequestsOK'
    BY <1>0, <1>2 DEF EndAll, reqVars, IInv, TypeOK, RequestsOK
  <2> QED
    BY <1>0, <2>2, <2>3, <2>4 DEF IInv
<1>3. ASSUME NEW s \in Sessions, Login(s) PROVE IInv'
  <2>1. /\ now' = now /\ now \in Nat
        /\ \A r \in Sessions : phase[r] = "over" => phase'[r] = "over" /\ end'[r] = end[r]
    BY <1>0, <1>3 DEF Login, TypeOK
  <2>2. HooksOK' /\ RowsOK' /\ OldOK' /\ Covered'
    BY <1>0, <1>3, <2>1, OthersStep DEF Login
  <2>3. KeycloakOK'
    BY <1>0, <1>3 DEF Login, IInv, TypeOK, KeycloakOK
  <2>4. RequestsOK'
    BY <1>0, <1>3 DEF Login, reqVars, IInv, TypeOK, RequestsOK
  <2> QED
    BY <1>0, <2>2, <2>3, <2>4 DEF IInv
<1>4. ASSUME NEW s \in Sessions, EndSession(s) PROVE IInv'
  <2>1. /\ now' = now /\ now \in Nat
        /\ \A r \in Sessions : phase[r] = "over" => phase'[r] = "over" /\ end'[r] = end[r]
    BY <1>0, <1>4 DEF EndSession, TypeOK
  <2>2. HooksOK' /\ RowsOK' /\ OldOK' /\ Covered'
    BY <1>0, <1>4, <2>1, OthersStep DEF EndSession
  <2>3. KeycloakOK'
    BY <1>0, <1>4 DEF EndSession, IInv, TypeOK, KeycloakOK
  <2>4. RequestsOK'
    BY <1>0, <1>4 DEF EndSession, reqVars, IInv, TypeOK, RequestsOK
  <2> QED
    BY <1>0, <2>2, <2>3, <2>4 DEF IInv
<1>5. ASSUME NEW m \in Sids, Lost(m) PROVE IInv'
  <2>1. HooksOK' /\ RowsOK' /\ OldOK' /\ Covered'
    BY <1>0, <1>5, OthersStep DEF Lost, TypeOK
  <2>2. KeycloakOK' /\ RequestsOK'
    BY <1>0, <1>5 DEF Lost, reqVars, IInv, TypeOK, KeycloakOK, RequestsOK
  <2> QED
    BY <1>0, <2>1, <2>2 DEF IInv
<1>6. ASSUME NEW m \in Sids, NEW h \in Hooks, Receive(h, m) PROVE IInv'
  <2>1. HooksOK'
    BY <1>0, <1>6 DEF Receive, keycloakVars, IInv, TypeOK, KeycloakOK, HooksOK
  <2>2. KeycloakOK' /\ RequestsOK' /\ RowsOK' /\ OldOK' /\ Covered'
    BY <1>0, <1>6 DEF Receive, keycloakVars, reqVars, IInv, TypeOK, KeycloakOK, RequestsOK,
       RowsOK, OldOK, RowOK, Covered, Covers, Dead
  <2> QED
    BY <1>0, <2>1, <2>2 DEF IInv
<1>7. ASSUME NEW h \in Hooks, Save(h) PROVE IInv'
  <2>1. PICK n \in Row : /\ n = NewRow(h) /\ n.sid = hookSid[h] /\ n.at = hookAt[h]
                        /\ n.expire = hookAt[h] + Retention
    BY <1>0, NewRowType
  <2>2. /\ rows' = {x \in rows : ~SameName(x, n)} \cup {n}
        /\ barred' = barred \cup Ended(h)
        /\ handled \subseteq handled'
        /\ hookSid[h] = NoSid => hookAt[h] \in handled'
        /\ hookPc' = [hookPc EXCEPT ![h] = "find"]
        /\ UNCHANGED <<now, keycloakVars, hookSid, hookAt, hookOld, reqVars>>
    BY <1>7, <2>1 DEF Save
  <2>3. KeycloakOK' /\ RequestsOK'
    BY <1>0, <2>2 DEF keycloakVars, reqVars, IInv, TypeOK, KeycloakOK, RequestsOK, Ended
  <2>4. HooksOK'
    BY <1>0, <2>2 DEF keycloakVars, IInv, TypeOK, HooksOK
  <2>5. RowOK(n)'
    BY <1>0, <2>1, <2>2 DEF keycloakVars, IInv, HooksOK, RowOK
  <2>6. ASSUME NEW x \in Row, RowOK(x) PROVE RowOK(x)'
    BY <2>2, <2>6 DEF keycloakVars, RowOK
  <2>7. RowsOK'
    <3> SUFFICES ASSUME NEW x \in rows' PROVE RowOK(x)'
      BY DEF RowsOK
    <3>1. CASE x = n
      BY <2>5, <3>1
    <3>2. CASE x \in rows
      BY <1>0, <2>6, <3>2 DEF IInv, TypeOK, RowsOK
    <3> QED
      BY <2>2, <3>1, <3>2
  <2>8. OldOK'
    BY <1>0, <2>2, <2>6 DEF IInv, TypeOK, OldOK
  <2>9. Covered'
    <3> SUFFICES ASSUME NEW s \in barred' PROVE Dead(s)' \/ \E x \in rows' : Covers(x, s)'
      BY DEF Covered
    <3>1. CASE s \in Ended(h)
      <4>1. Covers(n, s)'
        BY <2>1, <2>2, <3>1, SidCases, <1>0 DEF Ended, Covers, keycloakVars, TypeOK
      <4> QED
        BY <2>2, <4>1
    <3>2. CASE s \in barred /\ Dead(s)
      BY <2>2, <3>2 DEF Dead, keycloakVars
    <3>3. ASSUME s \in barred, NEW x \in rows, Covers(x, s)
          PROVE  \E y \in rows' : Covers(y, s)'
      <4>1. Covers(x, s)'
        BY <2>2, <3>3 DEF Covers, keycloakVars
      <4>2. CASE ~SameName(x, n)
        BY <2>2, <4>1, <4>2
      <4>3. CASE SameName(x, n)
        <5>1. n.sid = x.sid /\ (x.sid = NoSid => x.at = n.at)
          BY <4>3 DEF SameName
        <5>2. Covers(n, s)'
          BY <4>1, <5>1 DEF Covers
        <5> QED
          BY <2>2, <5>2
      <4> QED
        BY <4>2, <4>3
    <3>4. CASE s \in barred
      BY <3>2, <3>3, <3>4 DEF IInv, Covered
    <3> QED
      BY <2>2, <3>1, <3>4
  <2> QED
    BY <1>0, <2>3, <2>4, <2>7, <2>8, <2>9 DEF IInv
<1>8. ASSUME NEW h \in Hooks, SaveFails(h) PROVE IInv'
  <2>1. HooksOK' /\ OldOK'
    BY <1>0, <1>8, NoSidAssumption DEF SaveFails, HookEnds, keycloakVars, IInv, TypeOK, HooksOK, OldOK, RowOK
  <2>2. KeycloakOK' /\ RequestsOK' /\ RowsOK' /\ Covered'
    BY <1>0, <1>8 DEF SaveFails, keycloakVars, reqVars, IInv, TypeOK, KeycloakOK, RequestsOK,
       RowsOK, RowOK, Covered, Covers, Dead
  <2> QED
    BY <1>0, <2>1, <2>2 DEF IInv
<1>9. ASSUME NEW h \in Hooks, Find(h) PROVE IInv'
  <2>1. OldOK'
    <3> SUFFICES ASSUME NEW k \in Hooks, NEW x \in hookOld'[k] PROVE RowOK(x)' /\ x.expire < now'
      BY DEF OldOK
    <3>1. (k = h /\ x \in rows /\ x.expire < now) \/ x \in hookOld[k]
      BY <1>0, <1>9 DEF Find, TypeOK
    <3>2. RowOK(x) /\ x.expire < now
      BY <3>1 DEF IInv, RowsOK, OldOK
    <3> QED
      BY <1>9, <3>2 DEF Find, keycloakVars, RowOK
  <2>2. HooksOK'
    BY <1>0, <1>9 DEF Find, keycloakVars, IInv, TypeOK, HooksOK
  <2>3. KeycloakOK' /\ RequestsOK' /\ RowsOK' /\ Covered'
    BY <1>0, <1>9 DEF Find, keycloakVars, reqVars, IInv, TypeOK, KeycloakOK, RequestsOK,
       RowsOK, RowOK, Covered, Covers, Dead
  <2> QED
    BY <1>0, <2>1, <2>2, <2>3 DEF IInv
<1>10. ASSUME NEW h \in Hooks, PurgeEnds(h) PROVE IInv'
  <2>1. HooksOK' /\ OldOK'
    BY <1>0, <1>10, NoSidAssumption DEF PurgeEnds, HookEnds, keycloakVars, IInv, TypeOK, HooksOK, OldOK, RowOK
  <2>2. KeycloakOK' /\ RequestsOK' /\ RowsOK' /\ Covered'
    BY <1>0, <1>10 DEF PurgeEnds, keycloakVars, reqVars, IInv, TypeOK, KeycloakOK, RequestsOK,
       RowsOK, RowOK, Covered, Covers, Dead
  <2> QED
    BY <1>0, <2>1, <2>2 DEF IInv
<1>11. ASSUME NEW h \in Hooks, NEW x \in hookOld[h], Remove(h, x) PROVE IInv'
  <2>1. /\ rows' = {y \in rows : ~SameName(x, y)}
        /\ UNCHANGED <<now, keycloakVars, hookPc, hookSid, hookAt, reqVars, barred, handled>>
    BY <1>11 DEF Remove
  <2>2. x \in Row /\ RowOK(x) /\ x.expire < now
    BY <1>0 DEF IInv, TypeOK, OldOK
  <2>3. KeycloakOK' /\ RequestsOK' /\ HooksOK'
    BY <1>0, <2>1 DEF keycloakVars, reqVars, IInv, TypeOK, KeycloakOK, RequestsOK, HooksOK
  <2>4. RowsOK'
    BY <2>1 DEF keycloakVars, IInv, RowsOK, RowOK
  <2>5. OldOK'
    <3>1. \A k \in Hooks : hookOld'[k] \subseteq hookOld[k]
      BY <1>0, <1>11 DEF Remove, TypeOK
    <3> QED
      BY <2>1, <3>1 DEF keycloakVars, IInv, OldOK, RowOK
  <2>6. Covered'
    <3> SUFFICES ASSUME NEW s \in barred PROVE Dead(s)' \/ \E y \in rows' : Covers(y, s)'
      BY <2>1 DEF Covered
    <3>1. s \in Sessions /\ end[s] \in Nat /\ s # NoSid
      BY <1>0, NoSidAssumption DEF TypeOK
    <3>2. CASE Dead(s)
      BY <2>1, <3>2 DEF Dead, keycloakVars
    <3>3. ASSUME NEW y \in rows, Covers(y, s), SameName(x, y) PROVE Dead(s)
      <4>1. end[s] <= x.at
        <5>1. CASE y.sid = s
          BY <2>2, <3>1, <3>3, <5>1 DEF SameName, RowOK
        <5>2. CASE y.sid = NoSid /\ y.at >= end[s]
          BY <3>3, <5>2 DEF SameName
        <5> QED
          BY <3>3, <5>1, <5>2 DEF Covers
      <4> QED
        BY <1>0, <2>2, <3>1, <4>1, TimesAssumption DEF RowOK, Dead, TypeOK, Row
    <3>4. ASSUME NEW y \in rows, Covers(y, s), ~SameName(x, y) PROVE \E z \in rows' : Covers(z, s)'
      BY <2>1, <3>4 DEF Covers, keycloakVars
    <3> QED
      BY <3>2, <3>3, <3>4 DEF IInv, Covered
  <2> QED
    BY <1>0, <2>3, <2>4, <2>5, <2>6 DEF IInv
<1>12. ASSUME NEW q \in Requests, NEW s \in Sessions, NEW i \in 0..MaxTime, Verify(q, s, i)
       PROVE  IInv'
  <2>1. RequestsOK'
    BY <1>0, <1>12 DEF Verify, Issued, keycloakVars, IInv, TypeOK, RequestsOK
  <2>2. KeycloakOK' /\ HooksOK' /\ RowsOK' /\ OldOK' /\ Covered'
    BY <1>0, <1>12 DEF Verify, keycloakVars, hookVars, IInv, TypeOK, KeycloakOK, HooksOK,
       RowsOK, OldOK, RowOK, Covered, Covers, Dead
  <2> QED
    BY <1>0, <2>1, <2>2 DEF IInv
<1>13. ASSUME NEW q \in Requests, Check(q) PROVE IInv'
  <2>1. RequestsOK'
    BY <1>0, <1>13 DEF Check, keycloakVars, IInv, TypeOK, RequestsOK
  <2>2. KeycloakOK' /\ HooksOK' /\ RowsOK' /\ OldOK' /\ Covered'
    BY <1>0, <1>13 DEF Check, keycloakVars, hookVars, IInv, TypeOK, KeycloakOK, HooksOK,
       RowsOK, OldOK, RowOK, Covered, Covers, Dead
  <2> QED
    BY <1>0, <2>1, <2>2 DEF IInv
<1>14. ASSUME NEW q \in Requests, Answer(q) PROVE IInv'
  <2>1. RequestsOK'
    BY <1>0, <1>14 DEF Answer, keycloakVars, IInv, TypeOK, RequestsOK
  <2>2. KeycloakOK' /\ HooksOK' /\ RowsOK' /\ OldOK' /\ Covered'
    BY <1>0, <1>14 DEF Answer, keycloakVars, hookVars, IInv, TypeOK, KeycloakOK, HooksOK,
       RowsOK, OldOK, RowOK, Covered, Covers, Dead
  <2> QED
    BY <1>0, <2>1, <2>2 DEF IInv
<1>15. CASE UNCHANGED vars
  BY <1>0, <1>15 DEF vars, keycloakVars, hookVars, reqVars, IInv, KeycloakOK, HooksOK, RowsOK,
     OldOK, RequestsOK, RowOK, Covered, Covers, Dead
<1> QED
  BY <1>1, <1>2, <1>3, <1>4, <1>5, <1>6, <1>7, <1>8, <1>9, <1>10, <1>11, <1>12, <1>13, <1>14, <1>15
  DEF Next

LEMMA Invariant == Spec => []IInv
  BY InitOK, Step, PTL DEF Spec

-----------------------------------------------------------------------------
(* The theorems. *)

\* Every variable of the back-channel logout keeps its type.
THEOREM TypeCorrect == Spec => []TypeOK
<1>1. IInv => TypeOK
  BY DEF IInv
<1> QED
  BY Invariant, <1>1, PTL

\* A purge never takes away a revocation that a valid access token needs.
THEOREM PurgeIsSafe == Spec => []PurgedMeansExpired
<1>1. IInv => PurgedMeansExpired
  <2> SUFFICES ASSUME IInv, NEW s \in barred, NEW i \in start[s]..end[s], now < i + AccessLife
               PROVE  \E x \in rows : x.sid = s \/ (x.sid = NoSid /\ x.at >= end[s])
    BY DEF PurgedMeansExpired
  <2>1. s \in Sessions /\ end[s] \in Nat /\ start[s] \in Nat /\ now \in Nat
    BY DEF IInv, TypeOK
  <2>2. ~Dead(s)
    BY <2>1, TimesAssumption, RetentionAssumption DEF Dead
  <2> QED
    BY <2>2 DEF IInv, Covered, Covers
<1> QED
  BY Invariant, <1>1, PTL

\* What the check of a request does.
LEMMA CheckEffect ==
  ASSUME TypeOK, [Next]_vars, NEW q \in Requests, reqPc[q] = "check", reqPc'[q] # "check"
  PROVE  reqPc'[q] = IF Revoked(reqSid[q], reqIat[q]) THEN "refused" ELSE "serve"
<1> USE DEF TypeOK, vars, reqVars
<1>1. ASSUME NEW p \in Requests, Check(p) PROVE p = q
  BY <1>1 DEF Check
<1>2. ASSUME NEW p \in Requests, Answer(p) PROVE FALSE
  BY <1>2 DEF Answer
<1>3. ASSUME NEW p \in Requests, NEW s \in Sessions, NEW i \in 0..MaxTime, Verify(p, s, i) PROVE FALSE
  BY <1>3 DEF Verify
<1>4. reqPc' # reqPc
  OBVIOUS
<1>5. \E p \in Requests : Check(p)
  BY <1>2, <1>3, <1>4 DEF Next, Tick, EndAll, Login, EndSession, Lost, Receive, Save, SaveFails,
     Find, PurgeEnds, Remove
<1> QED
  BY <1>1, <1>5 DEF Check

\* Once the logout of a session is stored, its valid tokens are admitted no more.
THEOREM RevocationHolds == Spec => RevokedStaysOut
<1>1. IInv /\ [Next]_vars =>
        [\A q \in Requests :
           Admitted(q) /\ reqSid[q] \in barred => now >= reqIat[q] + AccessLife]_vars
  <2> SUFFICES ASSUME IInv, [Next]_vars, NEW q \in Requests, Admitted(q), reqSid[q] \in barred
               PROVE  now >= reqIat[q] + AccessLife
    OBVIOUS
  <2> DEFINE s == reqSid[q]
  <2>1. ~Revoked(s, reqIat[q])
    BY CheckEffect DEF Admitted, IInv
  <2>2. /\ s \in Sessions /\ phase[s] = "over" /\ reqIat[q] <= end[s]
        /\ end[s] \in Nat /\ reqIat[q] \in Nat /\ now \in Nat
    BY DEF Admitted, IInv, TypeOK, RequestsOK, KeycloakOK
  <2>3. \A x \in rows : ~Covers(x, s)
    <3> SUFFICES ASSUME NEW x \in rows, Covers(x, s) PROVE FALSE
      OBVIOUS
    <3>1. x.at \in Nat
      BY DEF IInv, TypeOK, Row
    <3> QED
      BY <2>1, <2>2, <3>1 DEF Covers, Revoked
  <2>4. Dead(s)
    BY <2>3 DEF IInv, Covered
  <2> QED
    BY <2>2, <2>4, TimesAssumption, RetentionAssumption DEF Dead
<1> QED
  BY Invariant, <1>1, PTL DEF Spec, RevokedStaysOut

\* A request is refused only for a session that has ended, or for a logout of
\* the user that was handled since the session began.
THEOREM RefusalHasCause == Spec => RefusedForACause
<1>1. IInv /\ [Next]_vars =>
        [\A q \in Requests :
           RefusedNow(q) => \/ phase[reqSid[q]] = "over"
                            \/ \E t \in handled : t >= start[reqSid[q]]]_vars
  <2> SUFFICES ASSUME IInv, [Next]_vars, NEW q \in Requests, RefusedNow(q)
               PROVE  phase[reqSid[q]] = "over" \/ \E t \in handled : t >= start[reqSid[q]]
    OBVIOUS
  <2> DEFINE s == reqSid[q]
  <2>1. Revoked(s, reqIat[q])
    BY CheckEffect DEF RefusedNow, IInv
  <2>2. PICK x \in rows : x.sid = s \/ (x.sid = NoSid /\ x.at >= reqIat[q])
    BY <2>1 DEF Revoked
  <2>3. /\ s \in Sessions /\ start[s] <= reqIat[q] /\ start[s] \in Nat /\ reqIat[q] \in Nat
        /\ RowOK(x) /\ x.at \in Nat
    BY DEF RefusedNow, IInv, TypeOK, RequestsOK, RowsOK, Row
  <2> QED
    BY <2>2, <2>3 DEF RowOK
<1> QED
  BY Invariant, <1>1, PTL DEF Spec, RefusedForACause
=============================================================================
